----------------------------- MODULE Ucm_proofs -----------------------------
(***************************************************************************)
(* Proofs for the ultrametric contour map, for images of any size, any     *)
(* partition and any strengths.                                            *)
(*                                                                         *)
(* The levels of the merges never fall for three reasons, and IInv is made *)
(* of them.  The books are exact: what a region says of its boundary with  *)
(* a neighbour is the sum and the number of the contours between the two,  *)
(* since a merge adds two boundaries that have no contour in common        *)
(* (AveragesExact, BoundaryOK).  The queue is complete: each boundary has  *)
(* an entry with its present energy, so that the least entry that is       *)
(* current is the least boundary there is (QueueOK).  And the average of   *)
(* two boundaries taken together is no less than the lesser of the two     *)
(* averages, so that after a merge nothing is below its level              *)
(* (WeakerGone).                                                           *)
(*                                                                         *)
(* That the contours of the map are closed needs to know of the past: for  *)
(* each level there are classes of initial regions, those one can walk     *)
(* between below it (Nested), although only the regions of the present     *)
(* are kept.                                                               *)
(*                                                                         *)
(* In this order: contours and the regions beside them; averages; a merge; *)
(* the steps and the levels; walks over the map and its classes; merging.  *)
(***************************************************************************)
EXTENDS Ucm, FiniteSums

-----------------------------------------------------------------------------
(* The image: a contour has two sides, and each names the other.             *)
LEMMA PixelCoords ==
  ASSUME NEW v \in Pixels
  PROVE  /\ v = <<v[1], v[2]>>
         /\ v[1] \in Nat /\ v[2] \in Nat /\ v[1] <= tx - 1 /\ v[2] <= ty - 1
  BY UcmAssumption DEF Pixels

LEMMA BesideCases ==
  ASSUME NEW v \in Pixels, NEW u \in Pixels, Beside(v, u)
  PROVE  \/ u[1] = v[1] + 1 /\ u[2] = v[2]
         \/ u[1] = v[1] - 1 /\ u[2] = v[2]
         \/ u[1] = v[1] /\ u[2] = v[2] + 1
         \/ u[1] = v[1] /\ u[2] = v[2] - 1
  BY PixelCoords DEF Beside

LEMMA SameContour ==
  ASSUME NEW v \in Pixels, NEW u \in Pixels, NEW w \in Pixels, NEW z \in Pixels,
         Beside(v, u), Beside(w, z), Between(v, u) = Between(w, z)
  PROVE  (v = w /\ u = z) \/ (v = z /\ u = w)
<1>1. v[1] + u[1] + 1 = w[1] + z[1] + 1 /\ v[2] + u[2] + 1 = w[2] + z[2] + 1
  BY DEF Between
<1>2. \/ v[1] = w[1] /\ v[2] = w[2] /\ u[1] = z[1] /\ u[2] = z[2]
      \/ v[1] = z[1] /\ v[2] = z[2] /\ u[1] = w[1] /\ u[2] = w[2]
  BY <1>1, BesideCases, PixelCoords
<1> QED
  BY <1>2, PixelCoords

LEMMA BesideBack ==
  ASSUME NEW v \in Pixels, NEW u \in Pixels, Beside(v, u)
  PROVE  Beside(u, v) /\ Between(u, v) = Between(v, u)
  BY BesideCases, PixelCoords DEF Beside, Between

(* The cell between two pixels is one of the map and no corner.              *)
LEMMA BetweenIsCell ==
  ASSUME NEW v \in Pixels, NEW u \in Pixels, Beside(v, u)
  PROVE  /\ Between(v, u) \in Cells
         /\ ~ (Between(v, u)[1] % 2 = 0 /\ Between(v, u)[2] % 2 = 0)
<1> DEFINE x == v[1] + u[1] + 1
           y == v[2] + u[2] + 1
<1>1. \/ x = 2 * v[1] + 2 /\ y = 2 * v[2] + 1 /\ v[1] + 1 <= tx - 1
      \/ x = 2 * v[1] /\ y = 2 * v[2] + 1
      \/ x = 2 * v[1] + 1 /\ y = 2 * v[2] + 2 /\ v[2] + 1 <= ty - 1
      \/ x = 2 * v[1] + 1 /\ y = 2 * v[2]
  BY BesideCases, PixelCoords
<1>2. \A n \in Nat : (2 * n + 1) % 2 = 1
  OBVIOUS
<1>3. x \in 0 .. 2 * tx /\ y \in 0 .. 2 * ty
  BY <1>1, PixelCoords, UcmAssumption
<1>4. x % 2 = 1 \/ y % 2 = 1
  <2> HIDE DEF x, y
  <2> QED
    BY <1>1, <1>2, PixelCoords
<1>5. Between(v, u) = <<x, y>>
  BY DEF Between
<1> HIDE DEF x, y
<1> QED
  BY <1>3, <1>4, <1>5 DEF Cells

LEMMA BoundaryElement ==
  ASSUME NEW c \in Labels, NEW e
  PROVE  e \in Boundary[c] <=>
           \E v, u \in Pixels :
             /\ Beside(v, u) /\ initial_partition[v] = c /\ initial_partition[u] # c
             /\ e = [coord |-> Between(v, u), cc_neigh |-> initial_partition[u]]
<1> DEFINE touching == {w \in Pixels \X Pixels :
                          /\ Beside(w[1], w[2])
                          /\ initial_partition[w[1]] # initial_partition[w[2]]}
<1>1. Boundary[c] = {[coord |-> Between(w[1], w[2]), cc_neigh |-> initial_partition[w[2]]] :
                       w \in {t \in touching : initial_partition[t[1]] = c}}
  BY DEF Boundary
<1>2. ASSUME e \in Boundary[c]
      PROVE  \E v, u \in Pixels :
               /\ Beside(v, u) /\ initial_partition[v] = c /\ initial_partition[u] # c
               /\ e = [coord |-> Between(v, u), cc_neigh |-> initial_partition[u]]
  BY <1>1, <1>2
<1>3. ASSUME NEW v \in Pixels, NEW u \in Pixels,
             Beside(v, u), initial_partition[v] = c, initial_partition[u] # c,
             e = [coord |-> Between(v, u), cc_neigh |-> initial_partition[u]]
      PROVE  e \in Boundary[c]
  <2>1. <<v, u>> \in {t \in touching : initial_partition[t[1]] = c}
    BY <1>3
  <2>2. e = [coord |-> Between(<<v, u>>[1], <<v, u>>[2]),
             cc_neigh |-> initial_partition[<<v, u>>[2]]]
    BY <1>3
  <2> HIDE DEF touching
  <2> QED
    BY <1>1, <2>1, <2>2
<1> QED
  BY <1>2, <1>3

LEMMA LabelOfPixel ==
  \A v \in Pixels : initial_partition[v] \in Labels /\ initial_partition[v] \in Nat
  BY UcmAssumption DEF Labels

LEMMA ElementFacts ==
  ASSUME NEW c \in Labels, NEW e \in Boundary[c]
  PROVE  /\ e.coord \in Contours /\ e.cc_neigh \in Labels /\ e.cc_neigh # c
         /\ e = [coord |-> e.coord, cc_neigh |-> e.cc_neigh]
         /\ [coord |-> e.coord, cc_neigh |-> c] \in Boundary[e.cc_neigh]
         /\ Sides[e.coord] = {c, e.cc_neigh}
<1>1. PICK v \in Pixels, u \in Pixels :
        /\ Beside(v, u) /\ initial_partition[v] = c /\ initial_partition[u] # c
        /\ e = [coord |-> Between(v, u), cc_neigh |-> initial_partition[u]]
  BY BoundaryElement
<1> DEFINE n == initial_partition[u]
<1>2. e.coord = Between(v, u) /\ e.cc_neigh = n /\ n \in Labels /\ n # c
  BY <1>1, LabelOfPixel
<1>3. e.coord \in Contours
  BY DEF Contours
<1>4. Beside(u, v) /\ Between(u, v) = e.coord
  BY <1>1, <1>2, BesideBack
<1>5. [coord |-> e.coord, cc_neigh |-> c] \in Boundary[n]
  BY <1>1, <1>2, <1>4, BoundaryElement
<1>6. ASSUME NEW d \in Labels, NEW g \in Boundary[d], g.coord = e.coord PROVE d \in {c, n}
  <2>1. PICK w \in Pixels, z \in Pixels :
          /\ Beside(w, z) /\ initial_partition[w] = d /\ initial_partition[z] # d
          /\ g = [coord |-> Between(w, z), cc_neigh |-> initial_partition[z]]
    BY BoundaryElement
  <2>2. Between(v, u) = Between(w, z)
    BY <1>2, <1>6, <2>1
  <2>3. w = v \/ w = u
    BY <1>1, <2>1, <2>2, SameContour
  <2> QED
    BY <1>1, <2>1, <2>3
<1>7. Sides[e.coord] = {c, n}
  <2>1. Sides[e.coord] = {d \in Labels : \E g \in Boundary[d] : g.coord = e.coord}
    BY <1>3 DEF Sides
  <2>2. [coord |-> e.coord, cc_neigh |-> c].coord = e.coord
    OBVIOUS
  <2>3. n \in Sides[e.coord] /\ c \in Sides[e.coord]
    BY <1>2, <1>5, <2>1, <2>2
  <2> QED
    BY <1>2, <1>6, <2>1, <2>3
<1> QED
  BY <1>1, <1>2, <1>3, <1>5, <1>7

LEMMA TwoSides ==
  ASSUME NEW cell \in Contours
  PROVE  \E a, b \in Labels : /\ a # b /\ Sides[cell] = {a, b}
                              /\ [coord |-> cell, cc_neigh |-> b] \in Boundary[a]
                              /\ [coord |-> cell, cc_neigh |-> a] \in Boundary[b]
<1>0. PICK c \in Labels : \E e \in Boundary[c] : e.coord = cell
  BY DEF Contours
<1>1. PICK e \in Boundary[c] : e.coord = cell
  BY <1>0
<1>2. /\ e.cc_neigh \in Labels /\ e.cc_neigh # c
      /\ e = [coord |-> cell, cc_neigh |-> e.cc_neigh]
      /\ [coord |-> cell, cc_neigh |-> c] \in Boundary[e.cc_neigh]
      /\ Sides[cell] = {c, e.cc_neigh}
  BY <1>1, ElementFacts
<1> QED
  BY <1>1, <1>2

LEMMA ContourIsCell ==
  ASSUME NEW cell \in Contours
  PROVE  cell \in Cells /\ ~ (cell[1] % 2 = 0 /\ cell[2] % 2 = 0)
<1>0. PICK c \in Labels : \E e \in Boundary[c] : e.coord = cell
  BY DEF Contours
<1>1. PICK e \in Boundary[c] : e.coord = cell
  BY <1>0
<1>2. PICK v \in Pixels, u \in Pixels :
        /\ Beside(v, u)
        /\ e = [coord |-> Between(v, u), cc_neigh |-> initial_partition[u]]
  BY BoundaryElement
<1>3. cell = Between(v, u)
  BY <1>1, <1>2
<1> QED
  BY <1>2, <1>3, BetweenIsCell

LEMMA Finite == /\ IsFiniteSet(Cells) /\ IsFiniteSet(Contours)
                /\ Labels \subseteq Nat
<1>1. IsFiniteSet(Cells)
  <2>1. IsFiniteSet(0 .. 2 * tx) /\ IsFiniteSet(0 .. 2 * ty)
    BY UcmAssumption, FS_Interval
  <2> QED
    BY <2>1, FS_Product DEF Cells
<1>2. Contours \subseteq Cells
  BY ContourIsCell
<1>3. Labels \subseteq Nat
  BY LabelOfPixel DEF Labels
<1> QED
  BY <1>1, <1>2, <1>3, FS_Subset

-----------------------------------------------------------------------------
(* The regions beside a contour, and the contours between two regions.       *)
LEMMA Pairs == \A x, y, r, n : {x, y} = {r, n} <=> (x = r /\ y = n) \/ (x = n /\ y = r)
  OBVIOUS

LEMMA PairCardinality ==
  ASSUME NEW x, NEW y
  PROVE  /\ Cardinality({x, y}) = 1 <=> x = y
         /\ Cardinality({x, y}) = 2 <=> x # y
<1>1. IsFiniteSet({x}) /\ Cardinality({x}) = 1
  BY FS_Singleton
<1>2. Cardinality({x} \cup {y}) = IF y \in {x} THEN 1 ELSE 1 + 1
  BY <1>1, FS_AddElement
<1>3. {x, y} = {x} \cup {y}
  OBVIOUS
<1> QED
  BY <1>2, <1>3

LEMMA NowFacts ==
  ASSUME UcmTypeOK, ElementsOK, NEW cell \in Contours
  PROVE  \E a, b \in Labels : /\ a # b /\ Sides[cell] = {a, b}
                              /\ [coord |-> cell, cc_neigh |-> b] \in Boundary[a]
                              /\ [coord |-> cell, cc_neigh |-> a] \in Boundary[b]
                              /\ Now(cell) = {labels[a], labels[b]}
                              /\ labels[a] \in Regions /\ labels[b] \in Regions
<1>1. PICK a \in Labels, b \in Labels :
        /\ a # b /\ Sides[cell] = {a, b}
        /\ [coord |-> cell, cc_neigh |-> b] \in Boundary[a]
        /\ [coord |-> cell, cc_neigh |-> a] \in Boundary[b]
  BY TwoSides
<1>2. Now(cell) = {labels[a], labels[b]}
  BY <1>1 DEF Now
<1>3. labels[a] \in Regions /\ labels[b] \in Regions
  BY DEF UcmTypeOK, ElementsOK, Regions
<1> QED
  BY <1>1, <1>2, <1>3

LEMMA SharedFacts ==
  ASSUME UcmTypeOK, NEW r, NEW s
  PROVE  /\ IsFiniteSet(Shared(r, s)) /\ Shared(r, s) \subseteq Contours
         /\ Shared(r, s) = Shared(s, r) /\ Exact(r, s) = Exact(s, r)
         /\ \A cell \in Shared(r, s) : local_boundaries[cell] \in Nat
         /\ Exact(r, s).total_pb = SumFunctionOnSet(local_boundaries, Shared(r, s))
         /\ Exact(r, s).bdry_length = Cardinality(Shared(r, s))
         /\ Exact(r, s).total_pb \in Nat /\ Exact(r, s).bdry_length \in Nat
         /\ Exact(r, s) = Neighbor_Region(Exact(r, s).total_pb, Exact(r, s).bdry_length)
         /\ Exact(r, s).energy = Average(Exact(r, s).total_pb, Exact(r, s).bdry_length)
         /\ Shared(r, s) = {} => Exact(r, s).total_pb = 0 /\ Exact(r, s).bdry_length = 0
         /\ Shared(r, s) # {} => Exact(r, s).bdry_length # 0
<1>1. Shared(r, s) \subseteq Contours /\ Shared(r, s) = Shared(s, r)
  BY DEF Shared
<1>2. IsFiniteSet(Shared(r, s))
  BY <1>1, Finite, FS_Subset
<1>3. \A cell \in Shared(r, s) : local_boundaries[cell] \in Nat
  BY <1>1, UcmAssumption DEF UcmTypeOK
<1>4. /\ Cardinality(Shared(r, s)) \in Nat
      /\ Cardinality(Shared(r, s)) = 0 <=> Shared(r, s) = {}
  BY <1>2, FS_CardinalityType, FS_EmptySet
<1>5. SumFunctionOnSet(local_boundaries, Shared(r, s)) \in Nat
  BY <1>2, <1>3, SumTyped
<1>6. Shared(r, s) = {} => SumFunctionOnSet(local_boundaries, Shared(r, s)) = 0
  BY <1>2, SumStep
<1>7. Exact(r, s) = Exact(s, r)
  BY <1>1 DEF Exact
<1> HIDE DEF Shared
<1> QED
  BY <1>1, <1>2, <1>3, <1>4, <1>5, <1>6, <1>7 DEF Exact, Neighbor_Region

(* An average is at least e when the total is e for every contour; so the    *)
(* average of two boundaries together is no less than the lesser of theirs.  *)
LEMMA AverageBound ==
  ASSUME NEW total \in Nat, NEW length \in Nat, length # 0, NEW e \in Nat
  PROVE  /\ Average(total, length) \in Nat
         /\ e <= Average(total, length) <=> e * length <= total * Unit
<1> DEFINE n == total * Unit
<1>1. n \in Nat
  BY UcmAssumption
<1> HIDE DEF n
<1> DEFINE q == n \div length
<1>2. q \in Nat /\ q * length <= n /\ n < (q + 1) * length
  BY <1>1
<1> HIDE DEF q
<1>3. e <= q => e * length <= q * length
  BY <1>2
<1>4. q + 1 <= e => (q + 1) * length <= e * length
  BY <1>2
<1>5. e * length \in Nat /\ q * length \in Nat /\ (q + 1) * length \in Nat
  BY <1>2
<1>6. e <= q <=> e * length <= n
  BY <1>1, <1>2, <1>3, <1>4, <1>5
<1> QED
  BY <1>2, <1>6 DEF Average, q, n

LEMMA AverageOfBoth ==
  ASSUME NEW t1 \in Nat, NEW l1 \in Nat, NEW t2 \in Nat, NEW l2 \in Nat, NEW e \in Nat,
         l1 # 0 => e <= Average(t1, l1), l2 # 0 => e <= Average(t2, l2),
         l1 = 0 => t1 = 0, l2 = 0 => t2 = 0, l1 + l2 # 0
  PROVE  e <= Average(t1 + t2, l1 + l2)
<1>0. Unit \in Nat
  BY UcmAssumption
<1>1. e * l1 <= t1 * Unit
  BY <1>0, AverageBound
<1>2. e * l2 <= t2 * Unit
  BY <1>0, AverageBound
<1>3. e * (l1 + l2) = e * l1 + e * l2 /\ (t1 + t2) * Unit = t1 * Unit + t2 * Unit
  BY <1>0
<1>4. e * l1 \in Nat /\ e * l2 \in Nat /\ t1 * Unit \in Nat /\ t2 * Unit \in Nat
  BY <1>0
<1>5. e * (l1 + l2) <= (t1 + t2) * Unit
  BY <1>1, <1>2, <1>3, <1>4
<1>6. t1 + t2 \in Nat /\ l1 + l2 \in Nat
  OBVIOUS
<1> QED
  BY <1>5, <1>6, AverageBound

(* The queue has a first entry.                                              *)
LEMMA FirstEntry ==
  ASSUME UcmTypeOK, merging_queue # {}
  PROVE  minor \in merging_queue /\ \A n \in merging_queue : Before(minor, n)
<1>1. \A m \in merging_queue : m.energy \in Nat /\ m.region1 \in Nat /\ m.region2 \in Nat
  BY Finite DEF UcmTypeOK
<1> DEFINE E == {m.energy : m \in merging_queue}
<1>2. PICK e \in E : \A x \in E : e <= x
  <2>1. E \subseteq Nat /\ E # {}
    BY <1>1
  <2> HIDE DEF E
  <2> QED
    BY <2>1, LeastOf
<1> DEFINE Q == {m \in merging_queue : m.energy = e}
           F == {m.region1 : m \in Q}
<1>3. PICK r \in F : \A x \in F : r <= x
  <2>1. F \subseteq Nat /\ F # {}
    BY <1>1
  <2> HIDE DEF F
  <2> QED
    BY <2>1, LeastOf
<1> DEFINE P == {m \in Q : m.region1 = r}
           G == {m.region2 : m \in P}
<1>4. PICK s \in G : \A x \in G : s <= x
  <2>1. G \subseteq Nat /\ G # {}
    BY <1>1
  <2> HIDE DEF G
  <2> QED
    BY <2>1, LeastOf
<1>5. PICK m \in P : m.region2 = s
  OBVIOUS
<1>6. \A n \in merging_queue : Before(m, n)
  <2> SUFFICES ASSUME NEW n \in merging_queue PROVE Before(m, n)
    OBVIOUS
  <2>1. m.energy = e /\ m.region1 = r /\ e <= n.energy
    BY <1>2, <1>5
  <2>2. n.energy = e => r <= n.region1
    BY <1>3
  <2>3. n.energy = e /\ n.region1 = r => s <= n.region2
    BY <1>4
  <2>4. e \in Nat /\ r \in Nat /\ s \in Nat
    BY <1>1, <1>5, <2>1
  <2> HIDE DEF E, Q, F, P, G
  <2> QED
    BY <1>1, <1>5, <2>1, <2>2, <2>3, <2>4 DEF Before
<1>7. m \in merging_queue
  BY <1>5
<1> QED
  BY <1>6, <1>7 DEF minor

-----------------------------------------------------------------------------
(* What is known when the regions father and son are joined.                 *)
Joining(f, s) ==
  /\ f \in Regions /\ s \in Regions /\ f # s /\ Shared(f, s) # {}
  /\ minor \in merging_queue /\ \A m \in merging_queue : Before(minor, m)
  /\ {minor.region1, minor.region2} = {f, s}
  /\ minor.energy = Exact(f, s).energy /\ current_energy <= minor.energy
  /\ MergeBoundary(f, s, minor.energy)
  /\ MergeElements(f, s)
  /\ MergeNeighbors(f, s)
  /\ current_energy' = minor.energy
  /\ UNCHANGED <<stage, local_boundaries>>

LEMMA JoinLabels ==
  ASSUME IInv, NEW f, NEW s, Joining(f, s)
  PROVE  /\ \A c \in Labels : labels'[c] = IF labels[c] = s THEN f ELSE labels[c]
         /\ labels' \in [Labels -> Labels] /\ elements' \in [Labels -> SUBSET Labels]
         /\ ElementsOK'
         /\ Regions' = Regions \ {s} /\ Regions \subseteq Labels
<1>1. /\ labels \in [Labels -> Labels] /\ elements \in [Labels -> SUBSET Labels]
      /\ \A c \in Labels : labels[labels[c]] = labels[c]
      /\ \A r \in Labels : elements[r] = {c \in Labels : labels[c] = r}
  BY DEF IInv, UcmTypeOK, ElementsOK
<1>2. /\ f \in Labels /\ s \in Labels /\ labels[f] = f /\ labels[s] = s /\ f # s
      /\ MergeElements(f, s)
  BY DEF Joining, Regions
<1>3. \A c \in Labels : labels'[c] = IF labels[c] = s THEN f ELSE labels[c]
  BY <1>1, <1>2 DEF MergeElements
<1>4. labels' \in [Labels -> Labels]
  BY <1>1, <1>2 DEF MergeElements
<1>5. elements' = [elements EXCEPT ![f] = @ \union elements[s], ![s] = {}]
  BY <1>2 DEF MergeElements
<1>6. /\ elements' \in [Labels -> SUBSET Labels]
      /\ \A r \in Labels : elements'[r] = IF r = s THEN {}
                                          ELSE IF r = f THEN elements[f] \union elements[s]
                                          ELSE elements[r]
  BY <1>1, <1>2, <1>5
<1>7. \A r \in Labels : elements'[r] = {c \in Labels : labels'[c] = r}
  <2> SUFFICES ASSUME NEW r \in Labels, NEW c \in Labels
               PROVE  c \in elements'[r] <=> labels'[c] = r
    BY <1>6
  <2>1. \A q \in Labels : c \in elements[q] <=> labels[c] = q
    BY <1>1
  <2> QED
    BY <1>2, <1>3, <1>6, <2>1
<1>8. \A c \in Labels : labels'[labels'[c]] = labels'[c]
  BY <1>1, <1>2, <1>3, <1>4
<1>9. Regions' = Regions \ {s}
  BY <1>1, <1>2, <1>3 DEF Regions
<1> QED
  BY <1>3, <1>4, <1>6, <1>7, <1>8, <1>9 DEF ElementsOK, Regions

(* The contours of the son are those of the father now, those between the    *)
(* two are inside; the other regions keep theirs.                            *)
LEMMA JoinShared ==
  ASSUME IInv, NEW f, NEW s, Joining(f, s)
  PROVE  /\ \A r, n \in Regions \ {f, s} : r # n => Shared(r, n)' = Shared(r, n)
         /\ \A n \in Regions \ {f, s} : /\ Shared(f, n)' = Shared(f, n) \union Shared(s, n)
                                        /\ Shared(f, n) \cap Shared(s, n) = {}
<1>1. /\ UcmTypeOK /\ ElementsOK
      /\ f \in Regions /\ s \in Regions /\ f # s
  BY DEF IInv, Joining
<1>2. ASSUME NEW cell \in Contours
      PROVE  \E x, y \in Regions :
               /\ Now(cell) = {x, y}
               /\ Now(cell)' = {IF x = s THEN f ELSE x, IF y = s THEN f ELSE y}
  <2>1. PICK a \in Labels, b \in Labels :
          /\ Sides[cell] = {a, b} /\ Now(cell) = {labels[a], labels[b]}
          /\ labels[a] \in Regions /\ labels[b] \in Regions
    BY <1>1, NowFacts
  <2>2. Now(cell)' = {labels'[a], labels'[b]}
    BY <2>1 DEF Now
  <2>3. /\ labels'[a] = IF labels[a] = s THEN f ELSE labels[a]
        /\ labels'[b] = IF labels[b] = s THEN f ELSE labels[b]
    BY JoinLabels
  <2> QED
    BY <2>1, <2>2, <2>3
<1>3. ASSUME NEW r \in Regions \ {f, s}, NEW n \in Regions \ {f, s}, r # n, NEW cell \in Contours
      PROVE  Now(cell)' = {r, n} <=> Now(cell) = {r, n}
  <2>1. PICK x \in Regions, y \in Regions :
               /\ Now(cell) = {x, y}
               /\ Now(cell)' = {IF x = s THEN f ELSE x, IF y = s THEN f ELSE y}
    BY <1>2
  <2> QED
    BY <1>3, <2>1, Pairs
<1>4. ASSUME NEW n \in Regions \ {f, s}, NEW cell \in Contours
      PROVE  /\ Now(cell)' = {f, n} <=> Now(cell) = {f, n} \/ Now(cell) = {s, n}
             /\ ~ (Now(cell) = {f, n} /\ Now(cell) = {s, n})
  <2>1. PICK x \in Regions, y \in Regions :
               /\ Now(cell) = {x, y}
               /\ Now(cell)' = {IF x = s THEN f ELSE x, IF y = s THEN f ELSE y}
    BY <1>2
  <2> QED
    BY <1>1, <1>4, <2>1, Pairs
<1>5. ASSUME NEW r \in Regions \ {f, s}, NEW n \in Regions \ {f, s}, r # n
      PROVE  Shared(r, n)' = Shared(r, n)
  BY <1>3, <1>5 DEF Shared
<1>6. ASSUME NEW n \in Regions \ {f, s}
      PROVE  /\ Shared(f, n)' = Shared(f, n) \union Shared(s, n)
             /\ Shared(f, n) \cap Shared(s, n) = {}
  BY <1>4 DEF Shared
<1> QED
  BY <1>5, <1>6

LEMMA JoinExact ==
  ASSUME IInv, NEW f, NEW s, Joining(f, s)
  PROVE  /\ \A r, n \in Regions \ {f, s} : r # n => Exact(r, n)' = Exact(r, n)
         /\ \A n \in Regions \ {f, s} :
              Exact(f, n)' = Neighbor_Region(Exact(f, n).total_pb + Exact(s, n).total_pb,
                                             Exact(f, n).bdry_length + Exact(s, n).bdry_length)
<1>1. UcmTypeOK /\ local_boundaries' = local_boundaries
  BY DEF IInv, Joining
<1>2. ASSUME NEW r \in Regions \ {f, s}, NEW n \in Regions \ {f, s}, r # n
      PROVE  Exact(r, n)' = Exact(r, n)
  <2>1. Shared(r, n)' = Shared(r, n)
    BY <1>2, JoinShared
  <2> QED
    BY <1>1, <2>1 DEF Exact
<1>3. ASSUME NEW n \in Regions \ {f, s}
      PROVE  Exact(f, n)' = Neighbor_Region(Exact(f, n).total_pb + Exact(s, n).total_pb,
                                            Exact(f, n).bdry_length + Exact(s, n).bdry_length)
  <2> DEFINE A == Shared(f, n)
             B == Shared(s, n)
  <2>1. Shared(f, n)' = A \cup B /\ A \cap B = {}
    BY JoinShared
  <2>2. /\ IsFiniteSet(A) /\ IsFiniteSet(B)
        /\ \A cell \in A \cup B : local_boundaries[cell] \in Nat
        /\ Exact(f, n).total_pb = SumFunctionOnSet(local_boundaries, A)
        /\ Exact(f, n).bdry_length = Cardinality(A)
        /\ Exact(s, n).total_pb = SumFunctionOnSet(local_boundaries, B)
        /\ Exact(s, n).bdry_length = Cardinality(B)
    BY <1>1, SharedFacts
  <2>3. Exact(f, n)' = Neighbor_Region(SumFunctionOnSet(local_boundaries, A \cup B),
                                       Cardinality(A \cup B))
    BY <1>1, <2>1 DEF Exact
  <2> HIDE DEF A, B
  <2>4. SumFunctionOnSet(local_boundaries, A \cup B)
          = SumFunctionOnSet(local_boundaries, A) + SumFunctionOnSet(local_boundaries, B)
    BY <2>1, <2>2, SumUnion
  <2>5. Cardinality(A \cup B) = Cardinality(A) + Cardinality(B)
    <3>1. Cardinality(A \cap B) = 0 /\ Cardinality(A) \in Nat /\ Cardinality(B) \in Nat
      BY <2>1, <2>2, FS_EmptySet, FS_CardinalityType
    <3>2. Cardinality(A \cup B) = Cardinality(A) + Cardinality(B) - Cardinality(A \cap B)
      BY <2>2, FS_Union
    <3> QED
      BY <3>1, <3>2
  <2> QED
    BY <2>2, <2>3, <2>4, <2>5
<1> QED
  BY <1>2, <1>3

(* The sums of part III: both sides of a boundary of the father have what    *)
(* was there of the father and of the son.                                   *)
LEMMA NeighborSums ==
  ASSUME UcmTypeOK, AveragesExact, NEW r \in Regions, NEW n \in Regions, r # n
  PROVE  /\ n \in DOMAIN neighbors[r] <=> Shared(r, n) # {}
         /\ n \in DOMAIN neighbors[r] => neighbors[r][n] = Exact(r, n)
         /\ Total(neighbors[r], n) = Exact(r, n).total_pb
         /\ Length(neighbors[r], n) = Exact(r, n).bdry_length
<1>1. IF Shared(r, n) = {} THEN n \notin DOMAIN neighbors[r]
      ELSE n \in DOMAIN neighbors[r] /\ neighbors[r][n] = Exact(r, n)
  BY DEF AveragesExact
<1>2. Shared(r, n) = {} => Exact(r, n).total_pb = 0 /\ Exact(r, n).bdry_length = 0
  BY SharedFacts
<1> QED
  BY <1>1, <1>2 DEF Total, Length

LEMMA JoinNeighbors ==
  ASSUME IInv, NEW f, NEW s, Joining(f, s)
  PROVE  /\ \A r \in Labels : DOMAIN neighbors'[r] \subseteq Labels \ {r}
         /\ \A n \in Regions \ {f, s} :
              IF Shared(f, n)' = {}
              THEN n \notin DOMAIN neighbors'[f] /\ f \notin DOMAIN neighbors'[n]
              ELSE /\ n \in DOMAIN neighbors'[f] /\ neighbors'[f][n] = Exact(f, n)'
                   /\ f \in DOMAIN neighbors'[n] /\ neighbors'[n][f] = Exact(f, n)'
                   /\ Order_node(Exact(f, n)'.energy, n, f) \in merging_queue'
         /\ \A r, n \in Regions \ {f, s} : r # n =>
              /\ n \in DOMAIN neighbors'[r] <=> n \in DOMAIN neighbors[r]
              /\ n \in DOMAIN neighbors[r] => neighbors'[r][n] = neighbors[r][n]
         /\ \A m \in merging_queue' :
              \/ m \in merging_queue
              \/ \E n \in Regions \ {f, s} :
                   Shared(f, n)' # {} /\ m = Order_node(Exact(f, n)'.energy, n, f)
         /\ merging_queue \ {minor} \subseteq merging_queue'
<1> DEFINE own == Active(neighbors[f])
           moved == Active(neighbors[s]) \ {f}
           Joined(r, n, m) ==
             Neighbor_Region(
               Total(neighbors[r], n) + (IF m \in moved THEN neighbors[s][m].total_pb ELSE 0),
               Length(neighbors[r], n) + (IF m \in moved THEN neighbors[s][m].bdry_length ELSE 0))
<1>0. /\ UcmTypeOK /\ AveragesExact /\ ElementsOK /\ f # s /\ f \in Regions /\ s \in Regions
      /\ Regions \subseteq Labels /\ Regions' = Regions \ {s}
  BY JoinLabels DEF IInv, Joining
<1>1. /\ neighbors' =
           [r \in Labels |->
              IF r = f THEN [n \in own \union moved |-> Joined(f, n, n)]
              ELSE IF r = s THEN << >>
              ELSE IF r \in own \union moved
              THEN [n \in DOMAIN neighbors[r] \union {f} |->
                      IF n = f THEN Joined(r, f, r) ELSE neighbors[r][n]]
              ELSE neighbors[r]]
      /\ merging_queue' =
           (merging_queue \ {minor})
             \union {Order_node(neighbors'[f][n].energy, n, f) : n \in own \union moved}
  BY DEF Joining, MergeNeighbors
<1>2. \A n : n \in own <=> n \in Regions \ {f, s} /\ Shared(f, n) # {}
  <2>1. \A n : n \in own <=> n \in DOMAIN neighbors[f] /\ labels'[n] = n
    BY DEF Active
  <2>2. \A n \in DOMAIN neighbors[f] : n \in Labels /\ n # f
    BY <1>0 DEF UcmTypeOK
  <2>3. \A n \in Labels : labels'[n] = n <=> n \in Regions \ {s}
    BY <1>0 DEF Regions
  <2>4. \A n \in Regions : n # f => (n \in DOMAIN neighbors[f] <=> Shared(f, n) # {})
    BY <1>0, NeighborSums
  <2> HIDE DEF own
  <2> QED
    BY <1>0, <2>1, <2>2, <2>3, <2>4
<1>3. \A n : n \in moved <=> n \in Regions \ {f, s} /\ Shared(s, n) # {}
  <2>1. \A n : n \in moved <=> n \in DOMAIN neighbors[s] /\ labels'[n] = n /\ n # f
    BY DEF Active
  <2>2. \A n \in DOMAIN neighbors[s] : n \in Labels /\ n # s
    BY <1>0 DEF UcmTypeOK
  <2>3. \A n \in Labels : labels'[n] = n <=> n \in Regions \ {s}
    BY <1>0 DEF Regions
  <2>4. \A n \in Regions : n # s => (n \in DOMAIN neighbors[s] <=> Shared(s, n) # {})
    BY <1>0, NeighborSums
  <2> HIDE DEF moved
  <2> QED
    BY <1>0, <2>1, <2>2, <2>3, <2>4
<1>4. ASSUME NEW n \in Regions \ {f, s}
      PROVE  /\ Joined(f, n, n) = Exact(f, n)' /\ Joined(n, f, n) = Exact(f, n)'
             /\ Shared(f, n)' # {} <=> n \in own \union moved
  <2>1. Exact(f, n)' = Neighbor_Region(Exact(f, n).total_pb + Exact(s, n).total_pb,
                                       Exact(f, n).bdry_length + Exact(s, n).bdry_length)
    BY JoinExact
  <2>2. /\ (IF n \in moved THEN neighbors[s][n].total_pb ELSE 0) = Exact(s, n).total_pb
        /\ (IF n \in moved THEN neighbors[s][n].bdry_length ELSE 0) = Exact(s, n).bdry_length
    <3>1. n \in moved => neighbors[s][n] = Exact(s, n)
      BY <1>0, <1>3, NeighborSums
    <3>2. n \notin moved => Exact(s, n).total_pb = 0 /\ Exact(s, n).bdry_length = 0
      BY <1>0, <1>3, SharedFacts
    <3> HIDE DEF moved
    <3> QED
      BY <3>1, <3>2
  <2>3. /\ Total(neighbors[f], n) = Exact(f, n).total_pb
        /\ Length(neighbors[f], n) = Exact(f, n).bdry_length
        /\ Total(neighbors[n], f) = Exact(f, n).total_pb
        /\ Length(neighbors[n], f) = Exact(f, n).bdry_length
    BY <1>0, NeighborSums, SharedFacts
  <2>4. Shared(f, n)' = Shared(f, n) \union Shared(s, n)
    BY JoinShared
  <2> HIDE DEF own, moved
  <2> QED
    BY <1>2, <1>3, <2>1, <2>2, <2>3, <2>4
<1> HIDE DEF own, moved, Joined
<1>5. \A n : n \in own \union moved => n \in Regions \ {f, s}
  BY <1>2, <1>3
<1>6. neighbors'[f] = [n \in own \union moved |-> Joined(f, n, n)]
  BY <1>0, <1>1
<1>7. neighbors'[s] = << >>
  BY <1>0, <1>1
<1>8. \A r \in own \union moved :
         neighbors'[r] = [n \in DOMAIN neighbors[r] \union {f} |->
                            IF n = f THEN Joined(r, f, r) ELSE neighbors[r][n]]
  BY <1>0, <1>1, <1>5
<1>9. \A r \in Labels : r # f /\ r # s /\ r \notin own \union moved => neighbors'[r] = neighbors[r]
  BY <1>1
<1>10. ASSUME NEW r \in Labels PROVE DOMAIN neighbors'[r] \subseteq Labels \ {r}
  <2>1. DOMAIN neighbors[r] \subseteq Labels \ {r}
    BY <1>0 DEF UcmTypeOK
  <2>2. CASE r = f
    BY <1>0, <1>5, <1>6, <2>2
  <2>3. CASE r = s
    BY <1>7, <2>3
  <2>4. CASE r \in own \union moved
    <3>1. DOMAIN neighbors'[r] = DOMAIN neighbors[r] \union {f}
      BY <1>8, <2>4
    <3> QED
      BY <1>0, <1>5, <2>1, <2>4, <3>1
  <2>5. CASE r # f /\ r # s /\ r \notin own \union moved
    BY <1>9, <2>1, <2>5
  <2> QED
    BY <2>2, <2>3, <2>4, <2>5
<1>11. ASSUME NEW n \in Regions \ {f, s}
       PROVE  IF Shared(f, n)' = {}
              THEN n \notin DOMAIN neighbors'[f] /\ f \notin DOMAIN neighbors'[n]
              ELSE /\ n \in DOMAIN neighbors'[f] /\ neighbors'[f][n] = Exact(f, n)'
                   /\ f \in DOMAIN neighbors'[n] /\ neighbors'[n][f] = Exact(f, n)'
                   /\ Order_node(Exact(f, n)'.energy, n, f) \in merging_queue'
  <2>1. CASE Shared(f, n)' = {}
    <3>1. n \notin own \union moved
      BY <1>4, <2>1
    <3>2. f \notin DOMAIN neighbors[n]
      <4>1. Shared(n, f) = {}
        BY <1>0, <1>2, <3>1, SharedFacts
      <4> QED
        BY <1>0, <4>1, NeighborSums
    <3>3. neighbors'[n] = neighbors[n]
      BY <1>0, <1>9, <3>1
    <3> QED
      BY <1>6, <2>1, <3>1, <3>2, <3>3
  <2>2. CASE Shared(f, n)' # {}
    <3>1. n \in own \union moved
      BY <1>4, <2>2
    <3>2. n \in DOMAIN neighbors'[f] /\ neighbors'[f][n] = Exact(f, n)'
      BY <1>4, <1>6, <3>1
    <3>3. f \in DOMAIN neighbors'[n] /\ neighbors'[n][f] = Exact(f, n)'
      BY <1>4, <1>8, <3>1
    <3>4. Order_node(neighbors'[f][n].energy, n, f) \in merging_queue'
      BY <1>1, <3>1
    <3> QED
      BY <2>2, <3>2, <3>3, <3>4
  <2> QED
    BY <2>1, <2>2
<1>12. ASSUME NEW r \in Regions \ {f, s}, NEW n \in Regions \ {f, s}, r # n
       PROVE  /\ n \in DOMAIN neighbors'[r] <=> n \in DOMAIN neighbors[r]
              /\ n \in DOMAIN neighbors[r] => neighbors'[r][n] = neighbors[r][n]
  <2>1. CASE r \in own \union moved
    <3>1. neighbors'[r] = [m \in DOMAIN neighbors[r] \union {f} |->
                             IF m = f THEN Joined(r, f, r) ELSE neighbors[r][m]]
      BY <1>8, <2>1, Zenon
    <3>2. n # f
      OBVIOUS
    <3>3. DOMAIN neighbors'[r] = DOMAIN neighbors[r] \union {f}
      BY <3>1
    <3>4. n \in DOMAIN neighbors[r] => neighbors'[r][n] = neighbors[r][n]
      BY <3>1, <3>2
    <3> QED
      BY <3>2, <3>3, <3>4
  <2>2. CASE r \notin own \union moved
    BY <1>0, <1>9, <2>2
  <2> QED
    BY <2>1, <2>2
<1>13. ASSUME NEW m \in merging_queue', m \notin merging_queue
       PROVE  \E n \in Regions \ {f, s} :
                   Shared(f, n)' # {} /\ m = Order_node(Exact(f, n)'.energy, n, f)
  <2>1. PICK n \in own \union moved : m = Order_node(neighbors'[f][n].energy, n, f)
    BY <1>1, <1>13
  <2>2. n \in Regions \ {f, s} /\ neighbors'[f][n] = Exact(f, n)' /\ Shared(f, n)' # {}
    BY <1>4, <1>5, <1>6
  <2> QED
    BY <2>1, <2>2
<1>14. merging_queue \ {minor} \subseteq merging_queue'
  BY <1>1
<1> QED
  BY <1>10, <1>11, <1>12, <1>13, <1>14

LEMMA JoinBoundary ==
  ASSUME IInv, NEW f, NEW s, Joining(f, s)
  PROVE  /\ boundary' \in [Labels -> SUBSET [coord : Contours, cc_neigh : Labels]]
         /\ BoundaryOK'
<1>0. /\ f \in Regions /\ s \in Regions /\ f # s /\ Regions \subseteq Labels
      /\ Regions' = Regions \ {s} /\ ElementsOK' /\ ElementsOK /\ BoundaryOK
      /\ boundary \in [Labels -> SUBSET [coord : Contours, cc_neigh : Labels]]
      /\ \A c \in Labels : labels'[c] = IF labels[c] = s THEN f ELSE labels[c]
  BY JoinLabels DEF Joining, IInv, UcmTypeOK
<1>1. boundary' = [boundary EXCEPT
          ![f] = {e \in @ : labels[e.cc_neigh] # s}
                   \union {e \in boundary[s] : labels[e.cc_neigh] # f},
          ![s] = {}]
  BY DEF Joining, MergeBoundary
<1>2. /\ boundary'[f] = {e \in boundary[f] : labels[e.cc_neigh] # s}
                          \union {e \in boundary[s] : labels[e.cc_neigh] # f}
      /\ \A r \in Labels : r # f /\ r # s => boundary'[r] = boundary[r]
      /\ boundary' \in [Labels -> SUBSET [coord : Contours, cc_neigh : Labels]]
  BY <1>0, <1>1
<1>3. ASSUME NEW r \in Regions, NEW e
      PROVE  e \in boundary[r] <=>
               \E c \in Labels : labels[c] = r /\ e \in Boundary[c] /\ labels[e.cc_neigh] # r
  BY <1>0, <1>3 DEF BoundaryOK, ElementsOK
<1>4. ASSUME NEW r \in Regions', NEW e
      PROVE  e \in boundary'[r] <=>
               \E c \in Labels : labels'[c] = r /\ e \in Boundary[c] /\ labels'[e.cc_neigh] # r
  <2>1. r \in Regions /\ r # s
    BY <1>0
  <2>2. \A c \in Labels : e \in Boundary[c] => e.cc_neigh \in Labels
    BY ElementFacts
  <2>3. CASE r = f
    <3>1. e \in boundary'[f] <=> \/ e \in boundary[f] /\ labels[e.cc_neigh] # s
                                 \/ e \in boundary[s] /\ labels[e.cc_neigh] # f
      BY <1>2
    <3>2. /\ e \in boundary[f] <=>
               \E c \in Labels : labels[c] = f /\ e \in Boundary[c] /\ labels[e.cc_neigh] # f
          /\ e \in boundary[s] <=>
               \E c \in Labels : labels[c] = s /\ e \in Boundary[c] /\ labels[e.cc_neigh] # s
      BY <1>0, <1>3
    <3> QED
      BY <1>0, <2>2, <2>3, <3>1, <3>2
  <2>4. CASE r # f
    <3>1. boundary'[r] = boundary[r]
      BY <1>0, <1>2, <2>1, <2>4
    <3> QED
      BY <1>0, <1>3, <2>1, <2>2, <2>4, <3>1
  <2> QED
    BY <2>3, <2>4
<1>5. BoundaryOK'
  <2> SUFFICES ASSUME NEW r \in Regions'
               PROVE  boundary'[r] =
                        {e \in UNION {Boundary[c] : c \in elements'[r]} : labels'[e.cc_neigh] # r}
    BY DEF BoundaryOK
  <2>1. r \in Labels
    BY <1>0
  <2>2. elements'[r] = {c \in Labels : labels'[c] = r}
    BY <1>0, <2>1 DEF ElementsOK
  <2>3. \A e : e \in UNION {Boundary[c] : c \in elements'[r]} <=>
                 \E c \in Labels : labels'[c] = r /\ e \in Boundary[c]
    BY <2>2
  <2> QED
    BY <1>4, <2>3
<1> QED
  BY <1>2, <1>5

(* The contours of the son that the map had with less go to the saliency.    *)
LEMMA JoinLevels ==
  ASSUME IInv, NEW f, NEW s, Joining(f, s)
  PROVE  /\ ucm' \in [Cells -> Nat] /\ LevelsReached'
         /\ \A cell \in Contours : Now(cell) = {f, s} => ucm'[cell] = current_energy'
         /\ \A cell \in Contours : Cardinality(Now(cell)) = 1 => ucm'[cell] = ucm[cell]
<1>0. /\ UcmTypeOK /\ ElementsOK /\ BoundaryOK /\ LevelsReached
      /\ s \in Regions /\ f # s /\ Regions \subseteq Labels
      /\ current_energy' = minor.energy /\ current_energy <= minor.energy
      /\ minor \in merging_queue
  BY JoinLabels DEF IInv, Joining
<1>1. minor.energy \in Nat /\ ucm \in [Cells -> Nat] /\ current_energy \in Nat
  BY <1>0 DEF UcmTypeOK
<1>2. ucm' = [cell \in Cells |->
               IF cell \in {e.coord : e \in boundary[s]} /\ ucm[cell] < minor.energy
               THEN minor.energy ELSE ucm[cell]]
  BY DEF Joining, MergeBoundary
<1>3. ucm' \in [Cells -> Nat] /\ LevelsReached'
  BY <1>0, <1>1, <1>2 DEF LevelsReached
<1>4. \A e : e \in boundary[s] <=>
               \E c \in Labels : labels[c] = s /\ e \in Boundary[c] /\ labels[e.cc_neigh] # s
  BY <1>0 DEF BoundaryOK, ElementsOK
<1>5. ASSUME NEW cell \in Contours, Now(cell) = {f, s} PROVE ucm'[cell] = current_energy'
  <2>1. PICK a \in Labels, b \in Labels :
          /\ [coord |-> cell, cc_neigh |-> b] \in Boundary[a]
          /\ [coord |-> cell, cc_neigh |-> a] \in Boundary[b]
          /\ Now(cell) = {labels[a], labels[b]}
    BY <1>0, NowFacts
  <2>2. (labels[a] = s /\ labels[b] = f) \/ (labels[a] = f /\ labels[b] = s)
    BY <1>5, <2>1, Pairs
  <2>3. \E e \in boundary[s] : e.coord = cell
    <3>1. CASE labels[a] = s /\ labels[b] = f
      <4> DEFINE e == [coord |-> cell, cc_neigh |-> b]
      <4>1. e \in Boundary[a] /\ labels[e.cc_neigh] # s /\ e.coord = cell
        BY <1>0, <2>1, <3>1
      <4> QED
        BY <1>4, <3>1, <4>1
    <3>2. CASE labels[a] = f /\ labels[b] = s
      <4> DEFINE e == [coord |-> cell, cc_neigh |-> a]
      <4>1. e \in Boundary[b] /\ labels[e.cc_neigh] # s /\ e.coord = cell
        BY <1>0, <2>1, <3>2
      <4> QED
        BY <1>4, <3>2, <4>1
    <3> QED
      BY <2>2, <3>1, <3>2
  <2>4. cell \in Cells /\ ucm[cell] <= minor.energy /\ ucm[cell] \in Nat
    BY <1>0, <1>1, ContourIsCell DEF LevelsReached
  <2> QED
    BY <1>0, <1>1, <1>2, <2>3, <2>4
<1>6. ASSUME NEW cell \in Contours, Cardinality(Now(cell)) = 1 PROVE ucm'[cell] = ucm[cell]
  <2>1. cell \in Cells
    BY ContourIsCell
  <2>2. cell \notin {e.coord : e \in boundary[s]}
    <3> SUFFICES ASSUME NEW e \in boundary[s], e.coord = cell PROVE FALSE
      OBVIOUS
    <3>1. PICK c \in Labels : labels[c] = s /\ e \in Boundary[c] /\ labels[e.cc_neigh] # s
      BY <1>4
    <3>2. Sides[cell] = {c, e.cc_neigh}
      BY <3>1, ElementFacts
    <3>3. Now(cell) = {s, labels[e.cc_neigh]}
      BY <3>1, <3>2 DEF Now
    <3> QED
      BY <1>6, <3>1, <3>3, PairCardinality
  <2> QED
    BY <1>2, <2>1, <2>2
<1> QED
  BY <1>3, <1>5, <1>6

(* What was weaker than the entry taken first is gone: it would have been    *)
(* the first.                                                                *)
LEMMA JoinWeakerGone ==
  ASSUME IInv, NEW f, NEW s, Joining(f, s)
  PROVE  WeakerGone'
<1>0. /\ UcmTypeOK /\ AveragesExact
      /\ f \in Regions /\ s \in Regions /\ f # s /\ Regions' = Regions \ {s}
      /\ current_energy' = minor.energy
      /\ minor \in merging_queue /\ \A m \in merging_queue : Before(minor, m)
  BY JoinLabels DEF IInv, Joining
<1>1. minor.energy \in Nat
  BY <1>0 DEF UcmTypeOK
<1>2. ASSUME NEW r \in Regions, NEW n \in Regions, r # n, Shared(r, n) # {}
      PROVE  minor.energy <= Exact(r, n).energy
  <2>1. PICK m \in merging_queue : m \in {Order_node(Exact(r, n).energy, r, n),
                                          Order_node(Exact(r, n).energy, n, r)}
    BY <1>0, <1>2 DEF AveragesExact
  <2>2. m.energy = Exact(r, n).energy /\ m.energy \in Nat
    BY <1>0, <2>1 DEF Order_node, UcmTypeOK
  <2>3. Before(minor, m)
    BY <1>0
  <2> QED
    BY <1>1, <2>2, <2>3 DEF Before
<1>3. ASSUME NEW n \in Regions \ {f, s}, Shared(f, n)' # {}
      PROVE  minor.energy <= Exact(f, n)'.energy
  <2> DEFINE t1 == Exact(f, n).total_pb
             l1 == Exact(f, n).bdry_length
             t2 == Exact(s, n).total_pb
             l2 == Exact(s, n).bdry_length
  <2>1. /\ t1 \in Nat /\ l1 \in Nat /\ t2 \in Nat /\ l2 \in Nat
        /\ Exact(f, n).energy = Average(t1, l1) /\ Exact(s, n).energy = Average(t2, l2)
        /\ Shared(f, n) = {} => t1 = 0 /\ l1 = 0
        /\ Shared(s, n) = {} => t2 = 0 /\ l2 = 0
        /\ Shared(f, n) # {} => l1 # 0
        /\ Shared(s, n) # {} => l2 # 0
    BY <1>0, SharedFacts
  <2>2. Shared(f, n) # {} \/ Shared(s, n) # {}
    BY <1>3, JoinShared
  <2>3. /\ l1 # 0 => minor.energy <= Average(t1, l1)
        /\ l2 # 0 => minor.energy <= Average(t2, l2)
    BY <1>0, <1>2, <2>1
  <2>4. Exact(f, n)' = Neighbor_Region(t1 + t2, l1 + l2)
    BY JoinExact
  <2>5. Exact(f, n)'.energy = Average(t1 + t2, l1 + l2)
    BY <2>4 DEF Neighbor_Region
  <2>6. l1 + l2 # 0 /\ (l1 = 0 => t1 = 0) /\ (l2 = 0 => t2 = 0)
    BY <2>1, <2>2
  <2>7. PICK e \in Nat : e = minor.energy
    BY <1>1
  <2> HIDE DEF t1, t2, l1, l2
  <2>8. e <= Average(t1 + t2, l1 + l2)
    <3>1. t1 \in Nat /\ l1 \in Nat /\ t2 \in Nat /\ l2 \in Nat
      BY <2>1
    <3>2. /\ l1 # 0 => e <= Average(t1, l1)
          /\ l2 # 0 => e <= Average(t2, l2)
      BY <2>3, <2>7
    <3>3. /\ l1 = 0 => t1 = 0
          /\ l2 = 0 => t2 = 0
          /\ l1 + l2 # 0
      BY <2>6
    <3> QED
      BY <3>1, <3>2, <3>3, AverageOfBoth
  <2> QED
    BY <2>5, <2>7, <2>8
<1>4. ASSUME NEW r \in Regions', NEW n \in Regions', r # n, Shared(r, n)' # {}
      PROVE  current_energy' <= Exact(r, n)'.energy
  <2>1. CASE r = f
    BY <1>0, <1>3, <1>4, <2>1
  <2>2. CASE n = f
    <3>1. Shared(r, n)' = Shared(n, r)' /\ Exact(r, n)' = Exact(n, r)'
      BY DEF Shared, Exact
    <3> QED
      BY <1>0, <1>3, <1>4, <2>2, <3>1
  <2>3. CASE r # f /\ n # f
    <3>1. r \in Regions \ {f, s} /\ n \in Regions \ {f, s}
      BY <1>0, <2>3
    <3>2. Shared(r, n)' = Shared(r, n) /\ Exact(r, n)' = Exact(r, n)
      BY <1>4, <3>1, JoinShared, JoinExact
    <3> QED
      BY <1>0, <1>2, <1>4, <3>1, <3>2
  <2> QED
    BY <2>1, <2>2, <2>3
<1> QED
  BY <1>4 DEF WeakerGone

LEMMA JoinQueue ==
  ASSUME IInv, NEW f, NEW s, Joining(f, s)
  PROVE  /\ QueueOK' /\ AveragesExact'
         /\ merging_queue' \subseteq [energy : Nat, region1 : Labels, region2 : Labels]
<1>0. /\ UcmTypeOK /\ AveragesExact /\ QueueOK
      /\ f \in Regions /\ s \in Regions /\ f # s /\ Regions' = Regions \ {s}
      /\ Regions \subseteq Labels
      /\ {minor.region1, minor.region2} = {f, s}
  BY JoinLabels DEF IInv, Joining
<1>1. ASSUME NEW n \in Regions \ {f, s}, Shared(f, n)' # {}
      PROVE  Exact(f, n)'.energy \in Nat
  <2> DEFINE t == Exact(f, n).total_pb + Exact(s, n).total_pb
             l == Exact(f, n).bdry_length + Exact(s, n).bdry_length
  <2>1. Shared(f, n) # {} \/ Shared(s, n) # {}
    BY <1>1, JoinShared
  <2>2. t \in Nat /\ l \in Nat /\ l # 0
    BY <1>0, <2>1, SharedFacts
  <2>3. Exact(f, n)'.energy = Average(t, l)
    BY JoinExact DEF Neighbor_Region
  <2> HIDE DEF t, l
  <2> QED
    BY <2>2, <2>3, AverageBound
<1>2. ASSUME NEW m \in merging_queue'
      PROVE  /\ m \in [energy : Nat, region1 : Labels, region2 : Labels]
             /\ m.region1 # m.region2
             /\ m.region1 \in Regions' /\ m.region2 \in Regions'
                  => Shared(m.region1, m.region2)' # {}
  <2>1. CASE m \in merging_queue
    <3>1. /\ m \in [energy : Nat, region1 : Labels, region2 : Labels]
          /\ m.region1 # m.region2
          /\ m.region1 \in Regions /\ m.region2 \in Regions => Shared(m.region1, m.region2) # {}
      BY <1>0, <2>1 DEF UcmTypeOK, QueueOK
    <3>2. ASSUME m.region1 \in Regions', m.region2 \in Regions'
          PROVE  Shared(m.region1, m.region2)' # {}
      <4>0. PICK r, n : r = m.region1 /\ n = m.region2
        OBVIOUS
      <4>1. r \in Regions /\ n \in Regions /\ r # s /\ n # s /\ r # n /\ Shared(r, n) # {}
        BY <1>0, <3>1, <3>2, <4>0
      <4>2. ASSUME r = f PROVE Shared(r, n)' # {}
        BY <4>1, <4>2, JoinShared
      <4>3. ASSUME n = f PROVE Shared(r, n)' # {}
        <5>1. Shared(r, n)' = Shared(n, r)' /\ Shared(r, n) = Shared(n, r)
          BY DEF Shared
        <5> QED
          BY <4>1, <4>3, <5>1, JoinShared
      <4>4. ASSUME r # f, n # f PROVE Shared(r, n)' # {}
        BY <4>1, <4>4, JoinShared
      <4>5. Shared(r, n)' # {}
        BY <4>2, <4>3, <4>4
      <4> QED
        BY <4>0, <4>5 DEF Shared
    <3> QED
      BY <3>1, <3>2
  <2>2. CASE m \notin merging_queue
    <3>1. PICK n \in Regions \ {f, s} :
                   Shared(f, n)' # {} /\ m = Order_node(Exact(f, n)'.energy, n, f)
      BY <2>2, JoinNeighbors
    <3>2. m = [energy |-> Exact(f, n)'.energy, region1 |-> n, region2 |-> f]
      BY <3>1 DEF Order_node
    <3>3. Exact(f, n)'.energy \in Nat /\ n \in Labels /\ f \in Labels
      BY <1>0, <1>1, <3>1
    <3>4. m.region1 = n /\ m.region2 = f
      BY <3>2
    <3>5. Shared(n, f)' # {}
      BY <3>1 DEF Shared
    <3>6. Shared(m.region1, m.region2)' # {}
      BY <3>4, <3>5 DEF Shared
    <3>7. m \in [energy : Nat, region1 : Labels, region2 : Labels]
      BY <3>2, <3>3
    <3> QED
      BY <3>4, <3>6, <3>7
  <2> QED
    BY <2>1, <2>2
<1>3. ASSUME NEW r \in Regions', NEW n \in Regions', r # n
      PROVE  IF Shared(r, n)' = {} THEN n \notin DOMAIN neighbors'[r]
             ELSE /\ n \in DOMAIN neighbors'[r] /\ neighbors'[r][n] = Exact(r, n)'
                  /\ {Order_node(Exact(r, n)'.energy, r, n), Order_node(Exact(r, n)'.energy, n, r)}
                       \intersect merging_queue' # {}
  <2>1. CASE r = f
    <3>1. n \in Regions \ {f, s}
      BY <1>0, <1>3, <2>1
    <3> QED
      BY <2>1, <3>1, JoinNeighbors
  <2>2. CASE n = f
    <3>1. r \in Regions \ {f, s}
      BY <1>0, <1>3, <2>2
    <3>2. Shared(r, f)' = Shared(f, r)' /\ Exact(r, f)' = Exact(f, r)'
      BY DEF Shared, Exact
    <3> QED
      BY <2>2, <3>1, <3>2, JoinNeighbors
  <2>3. CASE r # f /\ n # f
    <3>1. r \in Regions \ {f, s} /\ n \in Regions \ {f, s}
      BY <1>0, <2>3
    <3>2. Shared(r, n)' = Shared(r, n) /\ Exact(r, n)' = Exact(r, n)
      BY <1>3, <3>1, JoinShared, JoinExact
    <3>3. /\ n \in DOMAIN neighbors'[r] <=> n \in DOMAIN neighbors[r]
          /\ n \in DOMAIN neighbors[r] => neighbors'[r][n] = neighbors[r][n]
      BY <1>3, <3>1, JoinNeighbors
    <3>4. IF Shared(r, n) = {} THEN n \notin DOMAIN neighbors[r]
          ELSE /\ n \in DOMAIN neighbors[r] /\ neighbors[r][n] = Exact(r, n)
               /\ {Order_node(Exact(r, n).energy, r, n), Order_node(Exact(r, n).energy, n, r)}
                    \intersect merging_queue # {}
      BY <1>0, <1>3, <3>1 DEF AveragesExact
    <3>5. \A e : Order_node(e, r, n) # minor /\ Order_node(e, n, r) # minor
      <4> SUFFICES ASSUME NEW m, m.region1 \in {r, n} PROVE m # minor
        BY DEF Order_node
      <4> QED
        BY <1>0, <3>1
    <3>6. merging_queue \ {minor} \subseteq merging_queue'
      BY JoinNeighbors
    <3> QED
      BY <3>2, <3>3, <3>4, <3>5, <3>6
  <2> QED
    BY <2>1, <2>2, <2>3
<1>4. QueueOK'
  BY <1>2 DEF QueueOK
<1>5. AveragesExact'
  BY <1>3 DEF AveragesExact
<1> QED
  BY <1>2, <1>4, <1>5

-----------------------------------------------------------------------------
(* The steps.                                                                *)
LEMMA InitOK == ASSUME Init PROVE IInv
<1>0. /\ local_boundaries \in Strengths /\ labels = [c \in Labels |-> c]
      /\ elements = [c \in Labels |-> {c}] /\ boundary = Boundary
      /\ neighbors = [c \in Labels |-> NeighborsOf(c)]
      /\ current_energy = 0 /\ ucm = [cell \in Cells |-> 0] /\ stage = "merge"
  BY DEF Init
<1>1. Regions = Labels /\ ElementsOK
  BY <1>0 DEF Regions, ElementsOK
<1>2. boundary \in [Labels -> SUBSET [coord : Contours, cc_neigh : Labels]]
  <2>1. ASSUME NEW c \in Labels, NEW e \in Boundary[c]
        PROVE  e \in [coord : Contours, cc_neigh : Labels]
    <3>1. PICK x, y : x = e.coord /\ y = e.cc_neigh
      OBVIOUS
    <3>2. x \in Contours /\ y \in Labels /\ e = [coord |-> x, cc_neigh |-> y]
      BY <3>1, ElementFacts
    <3> QED
      BY <3>2
  <2>2. boundary = [c \in Labels |-> Boundary[c]]
    BY <1>0 DEF Boundary
  <2> QED
    BY <2>1, <2>2
<1>3. BoundaryOK
  <2> SUFFICES ASSUME NEW r \in Labels
               PROVE  Boundary[r] = {e \in UNION {Boundary[c] : c \in elements[r]} :
                                       labels[e.cc_neigh] # r}
    BY <1>0, <1>1 DEF BoundaryOK
  <2>1. elements[r] = {r}
    BY <1>0
  <2>2. \A e \in Boundary[r] : e.cc_neigh \in Labels /\ e.cc_neigh # r
    BY ElementFacts
  <2> QED
    BY <1>0, <2>1, <2>2
<1>4. ASSUME NEW c \in Labels, NEW n \in Labels, c # n
      PROVE  {e.coord : e \in {b \in Boundary[c] : b.cc_neigh = n}} = Shared(c, n)
  <2>1. \A cell \in Contours : Now(cell) = Sides[cell]
    <3> SUFFICES ASSUME NEW cell \in Contours PROVE Now(cell) = Sides[cell]
      OBVIOUS
    <3>1. Sides[cell] \subseteq Labels
      BY TwoSides
    <3> QED
      BY <1>0, <3>1 DEF Now
  <2>2. ASSUME NEW e \in Boundary[c], e.cc_neigh = n PROVE e.coord \in Shared(c, n)
    BY <2>1, <2>2, ElementFacts DEF Shared
  <2>3. ASSUME NEW cell \in Shared(c, n)
        PROVE  \E e \in Boundary[c] : e.cc_neigh = n /\ e.coord = cell
    <3>1. cell \in Contours /\ Sides[cell] = {c, n}
      BY <2>1 DEF Shared
    <3>2. PICK a \in Labels, b \in Labels :
            /\ a # b /\ Sides[cell] = {a, b}
            /\ [coord |-> cell, cc_neigh |-> b] \in Boundary[a]
            /\ [coord |-> cell, cc_neigh |-> a] \in Boundary[b]
      BY <3>1, TwoSides
    <3>3. (a = c /\ b = n) \/ (a = n /\ b = c)
      BY <3>1, <3>2, Pairs
    <3>4. [coord |-> cell, cc_neigh |-> n] \in Boundary[c]
      BY <3>2, <3>3
    <3> QED
      BY <3>4
  <2> QED
    BY <2>2, <2>3
<1>5. ASSUME NEW c \in Labels, NEW n \in Labels, c # n
      PROVE  /\ n \in DOMAIN neighbors[c] <=> Shared(c, n) # {}
             /\ n \in DOMAIN neighbors[c] => neighbors[c][n] = Exact(c, n)
  <2>1. neighbors[c] =
          [m \in {e.cc_neigh : e \in Boundary[c]} |->
             Neighbor_Region(
               SumFunctionOnSet(local_boundaries,
                                {e.coord : e \in {b \in Boundary[c] : b.cc_neigh = m}}),
               Cardinality({e.coord : e \in {b \in Boundary[c] : b.cc_neigh = m}}))]
    BY <1>0 DEF NeighborsOf
  <2>2. n \in DOMAIN neighbors[c] <=> \E e \in Boundary[c] : e.cc_neigh = n
    BY <2>1
  <2>3. n \in DOMAIN neighbors[c] <=> Shared(c, n) # {}
    BY <1>4, <1>5, <2>2
  <2>4. ASSUME n \in DOMAIN neighbors[c] PROVE neighbors[c][n] = Exact(c, n)
    <3>1. neighbors[c][n] =
            Neighbor_Region(
               SumFunctionOnSet(local_boundaries,
                                {e.coord : e \in {b \in Boundary[c] : b.cc_neigh = n}}),
               Cardinality({e.coord : e \in {b \in Boundary[c] : b.cc_neigh = n}}))
      BY <2>1, <2>4
    <3> QED
      BY <1>4, <1>5, <3>1 DEF Exact
  <2> QED
    BY <2>3, <2>4
<1>6. ASSUME NEW c \in Labels PROVE DOMAIN neighbors[c] \subseteq Labels \ {c}
  <2>1. DOMAIN neighbors[c] = {e.cc_neigh : e \in Boundary[c]}
    BY <1>0 DEF NeighborsOf
  <2>2. \A e \in Boundary[c] : e.cc_neigh \in Labels /\ e.cc_neigh # c
    BY ElementFacts
  <2> QED
    BY <2>1, <2>2
<1>7. \A m : m \in merging_queue <=>
        \E c \in Labels : \E n \in DOMAIN neighbors[c] :
          n > c /\ m = Order_node(neighbors[c][n].energy, c, n)
  BY DEF Init
<1>8. ASSUME NEW c \in Labels, NEW n \in DOMAIN neighbors[c]
      PROVE  /\ n \in Labels /\ n # c /\ neighbors[c][n] = Exact(c, n) /\ Shared(c, n) # {}
             /\ Exact(c, n).energy \in Nat
  <2>1. n \in Labels /\ n # c
    BY <1>6
  <2>2. neighbors[c][n] = Exact(c, n) /\ Shared(c, n) # {}
    BY <1>5, <2>1
  <2>3. IsFiniteSet(Shared(c, n)) /\ Cardinality(Shared(c, n)) \in Nat
        /\ Cardinality(Shared(c, n)) # 0
    <3>1. Shared(c, n) \subseteq Contours
      BY DEF Shared
    <3>2. IsFiniteSet(Shared(c, n))
      BY <3>1, Finite, FS_Subset
    <3> HIDE DEF Shared
    <3> QED
      BY <2>2, <3>2, FS_CardinalityType, FS_EmptySet
  <2>4. SumFunctionOnSet(local_boundaries, Shared(c, n)) \in Nat
    <3>1. \A cell \in Shared(c, n) : local_boundaries[cell] \in Nat
      BY <1>0, UcmAssumption DEF Shared
    <3> QED
      BY <2>3, <3>1, SumTyped
  <2>5. Exact(c, n).energy \in Nat
    BY <2>3, <2>4, AverageBound DEF Exact, Neighbor_Region
  <2> QED
    BY <2>1, <2>2, <2>5
<1>9. ASSUME NEW m \in merging_queue
      PROVE  /\ m \in [energy : Nat, region1 : Labels, region2 : Labels]
             /\ m.region1 # m.region2 /\ Shared(m.region1, m.region2) # {}
  <2>1. PICK c \in Labels : \E n \in DOMAIN neighbors[c] :
          n > c /\ m = Order_node(neighbors[c][n].energy, c, n)
    BY <1>7
  <2>2. PICK n \in DOMAIN neighbors[c] : n > c /\ m = Order_node(neighbors[c][n].energy, c, n)
    BY <2>1
  <2>3. n \in Labels /\ n # c /\ Exact(c, n).energy \in Nat /\ Shared(c, n) # {}
        /\ m = [energy |-> Exact(c, n).energy, region1 |-> c, region2 |-> n]
    BY <1>8, <2>2 DEF Order_node
  <2> QED
    BY <2>3
<1>10. UcmTypeOK
  BY <1>0, <1>2, <1>6, <1>9 DEF UcmTypeOK
<1>11. QueueOK
  BY <1>9 DEF QueueOK
<1>12. AveragesExact
  <2> SUFFICES ASSUME NEW r \in Labels, NEW s \in Labels, r # s, Shared(r, s) # {}
               PROVE  {Order_node(Exact(r, s).energy, r, s), Order_node(Exact(r, s).energy, s, r)}
                        \intersect merging_queue # {}
    BY <1>1, <1>5 DEF AveragesExact
  <2>1. Shared(s, r) # {} /\ Exact(s, r) = Exact(r, s)
    BY <1>10, SharedFacts
  <2>2. r \in Nat /\ s \in Nat
    BY Finite
  <2>3. CASE r < s
    <3>1. s \in DOMAIN neighbors[r] /\ neighbors[r][s] = Exact(r, s) /\ s > r
      BY <1>5, <2>2, <2>3
    <3> QED
      BY <1>7, <3>1
  <2>4. CASE s < r
    <3>1. r \in DOMAIN neighbors[s] /\ neighbors[s][r] = Exact(r, s) /\ r > s
      BY <1>5, <2>1, <2>2, <2>4
    <3> QED
      BY <1>7, <3>1
  <2> QED
    BY <2>2, <2>3, <2>4
<1>13. WeakerGone
  <2> SUFFICES ASSUME NEW r \in Regions, NEW s \in Regions, r # s, Shared(r, s) # {}
               PROVE  0 <= Exact(r, s).energy
    BY <1>0 DEF WeakerGone
  <2>1. s \in DOMAIN neighbors[r] /\ r \in Labels
    BY <1>1, <1>5
  <2> QED
    BY <1>8, <2>1
<1> QED
  BY <1>0, <1>1, <1>3, <1>10, <1>11, <1>12, <1>13 DEF IInv, LevelsReached, Ultrametric

(* An entry that is current is for the average there is, and so it is never  *)
(* too low: what merges is the pair it names.                                *)
LEMMA MergeJoins ==
  ASSUME IInv, Merge
  PROVE  \E f, s \in Regions : Joining(f, s)
<1>0. /\ UcmTypeOK /\ QueueOK /\ AveragesExact /\ WeakerGone /\ ElementsOK
      /\ stage = "merge" /\ merging_queue # {} /\ Current(minor)
      /\ local_boundaries' = local_boundaries
  BY DEF Merge, IInv
<1>1. minor \in merging_queue /\ \A n \in merging_queue : Before(minor, n)
  BY <1>0, FirstEntry
<1>2. PICK r, n : r = minor.region1 /\ n = minor.region2
  OBVIOUS
<1>3. r \in Nat /\ n \in Nat /\ r \in Regions /\ n \in Regions /\ r # n /\ Shared(r, n) # {}
  BY <1>0, <1>1, <1>2, Finite DEF UcmTypeOK, QueueOK, Current, Regions
<1>4. /\ neighbors[r][n] = Exact(r, n) /\ minor.energy = Exact(r, n).energy
      /\ current_energy <= minor.energy
  BY <1>0, <1>2, <1>3 DEF AveragesExact, Current, WeakerGone
<1>5. /\ Max({r, n}) \in {r, n} /\ Min({r, n}) \in {r, n} /\ Max({r, n}) # Min({r, n})
  <2>1. CASE r < n
    <3>1. Max({r, n}) = n /\ Min({r, n}) = r
      BY <1>3, <2>1 DEF Max, Min
    <3> QED
      BY <1>3, <3>1
  <2>2. CASE n < r
    <3>1. Max({r, n}) = r /\ Min({r, n}) = n
      BY <1>3, <2>2 DEF Max, Min
    <3> QED
      BY <1>3, <3>1
  <2> QED
    BY <1>3, <2>1, <2>2
<1>6. PICK f, s : f = Max({r, n}) /\ s = Min({r, n})
  OBVIOUS
<1>7. f \in Regions /\ s \in Regions /\ f # s /\ {r, n} = {f, s}
  BY <1>3, <1>5, <1>6
<1>8. Exact(f, s) = Exact(r, n) /\ Shared(f, s) # {}
  BY <1>0, <1>3, <1>7, SharedFacts, Pairs
<1>9. Join(f, s, Exact(r, n))
  BY <1>2, <1>4, <1>6 DEF Merge
<1>10. Average(Exact(r, n).total_pb, Exact(r, n).bdry_length) = minor.energy
  BY <1>0, <1>4, SharedFacts
<1>11. /\ MergeBoundary(f, s, minor.energy) /\ MergeElements(f, s) /\ MergeNeighbors(f, s)
       /\ current_energy' = minor.energy /\ stage' = stage
  BY <1>9, <1>10 DEF Join
<1>12. minor.energy = Exact(f, s).energy /\ {minor.region1, minor.region2} = {f, s}
  BY <1>2, <1>4, <1>7, <1>8
<1> QED
  BY <1>0, <1>1, <1>4, <1>7, <1>8, <1>11, <1>12 DEF Joining

LEMMA MergeOK == ASSUME IInv, Merge PROVE IInv'
<1>1. PICK f \in Regions, s \in Regions : Joining(f, s)
  BY MergeJoins
<1>2. /\ current_energy' = minor.energy /\ minor \in merging_queue
      /\ stage' = stage /\ local_boundaries' = local_boundaries
      /\ UcmTypeOK /\ Ultrametric
  BY <1>1 DEF Joining, IInv
<1>3. UcmTypeOK'
  BY <1>1, <1>2, JoinLabels, JoinBoundary, JoinNeighbors, JoinQueue, JoinLevels DEF UcmTypeOK
<1> QED
  BY <1>1, <1>2, <1>3, JoinLabels, JoinBoundary, JoinQueue, JoinLevels, JoinWeakerGone
  DEF IInv, Ultrametric

(* The strongest of the contours at a corner.                                *)
LEMMA CornerLevel ==
  ASSUME UcmTypeOK, LevelsReached, NEW cell \in Cells, cell[1] % 2 = 0, cell[2] % 2 = 0
  PROVE  /\ Max({ucm[c] : c \in Around[cell]}) \in {ucm[c] : c \in Around[cell]}
         /\ \A c \in Around[cell] : ucm[c] <= Max({ucm[d] : d \in Around[cell]})
<1> DEFINE S == {ucm[c] : c \in Around[cell]}
<1>1. Around[cell] \subseteq Cells
  BY DEF Around
<1>2. S \subseteq Nat /\ \A x \in S : x <= current_energy
  BY <1>1 DEF UcmTypeOK, LevelsReached
<1>3. S # {}
  <2>1. cell = <<cell[1], cell[2]>> /\ cell[1] \in 0 .. 2 * tx /\ cell[2] \in 0 .. 2 * ty
    BY DEF Cells
  <2>2. \E x \in {cell[1] - 1, cell[1] + 1} : x \in 0 .. 2 * tx
    BY <2>1, UcmAssumption
  <2>3. PICK x \in {cell[1] - 1, cell[1] + 1} : x \in 0 .. 2 * tx
    BY <2>2
  <2>4. <<x, cell[2]>> \in Cells /\ Beside(cell, <<x, cell[2]>>)
    BY <2>1, <2>3, UcmAssumption DEF Cells, Beside
  <2>5. <<x, cell[2]>> \in Around[cell]
    BY <2>4 DEF Around
  <2> QED
    BY <2>5
<1> HIDE DEF S
<1>4. current_energy \in Nat
  BY DEF UcmTypeOK
<1> DEFINE D == {current_energy - x : x \in S}
<1>5. D \subseteq Nat /\ D # {}
  <2>1. \A x \in S : current_energy - x \in Nat
    BY <1>2, <1>4
  <2> QED
    BY <1>3, <2>1
<1>6. PICK d \in D : \A y \in D : d <= y
  <2> HIDE DEF D
  <2> QED
    BY <1>5, LeastOf
<1>7. PICK x \in S : d = current_energy - x
  OBVIOUS
<1>8. ASSUME NEW y \in S PROVE x >= y
  <2>1. current_energy - x <= current_energy - y
    BY <1>6, <1>7
  <2>2. x \in Nat /\ y \in Nat
    BY <1>2
  <2> QED
    BY <1>4, <2>1, <2>2
<1>9. Max(S) \in S /\ \A y \in S : Max(S) >= y
  BY <1>8 DEF Max
<1>10. \A y \in S : y <= Max(S)
  BY <1>2, <1>9
<1> QED
  BY <1>9, <1>10 DEF S

LEMMA CompleteOK == ASSUME IInv, Complete PROVE IInv'
<1>0. /\ UcmTypeOK /\ LevelsReached /\ stage' = "done"
      /\ UNCHANGED <<local_boundaries, labels, elements, boundary, neighbors, merging_queue,
                     current_energy>>
  BY DEF Complete, IInv
<1>1. ucm' = [cell \in Cells |->
               IF cell[1] % 2 = 0 /\ cell[2] % 2 = 0
               THEN Max({ucm[c] : c \in Around[cell]})
               ELSE ucm[cell]]
  BY DEF Complete
<1>2. ASSUME NEW cell \in Cells PROVE ucm'[cell] \in Nat /\ ucm'[cell] <= current_energy
  <2>1. \A c \in Cells : ucm[c] \in Nat /\ ucm[c] <= current_energy
    BY <1>0 DEF UcmTypeOK, LevelsReached
  <2>2. CASE cell[1] % 2 = 0 /\ cell[2] % 2 = 0
    <3>1. Around[cell] \subseteq Cells
      BY DEF Around
    <3>2. ucm'[cell] \in {ucm[c] : c \in Around[cell]}
      BY <1>0, <1>1, <2>2, CornerLevel
    <3> QED
      BY <2>1, <3>1, <3>2
  <2>3. CASE ~ (cell[1] % 2 = 0 /\ cell[2] % 2 = 0)
    BY <1>1, <2>1, <2>3
  <2> QED
    BY <2>2, <2>3
<1>3. ucm' \in [Cells -> Nat] /\ LevelsReached'
  BY <1>0, <1>1, <1>2 DEF LevelsReached
<1>4. UcmTypeOK'
  BY <1>0, <1>3 DEF UcmTypeOK
<1>5. /\ Regions' = Regions /\ \A cell : Now(cell)' = Now(cell)
  BY <1>0 DEF Regions, Now
<1>6. \A r, s : Shared(r, s)' = Shared(r, s)
  BY <1>5 DEF Shared
<1>7. \A r, s : Exact(r, s)' = Exact(r, s)
  BY <1>0, <1>6 DEF Exact
<1>8. (ElementsOK /\ BoundaryOK /\ QueueOK /\ WeakerGone /\ AveragesExact)'
  BY <1>0, <1>5, <1>6, <1>7
  DEF IInv, ElementsOK, BoundaryOK, QueueOK, WeakerGone, AveragesExact
<1> QED
  BY <1>0, <1>3, <1>4, <1>8 DEF IInv, Ultrametric

(* An entry that is not current is for no average of two regions there are.  *)
LEMMA DiscardOK == ASSUME IInv, Discard PROVE IInv'
<1>0. /\ UcmTypeOK /\ merging_queue' = merging_queue \ {minor} /\ ~ Current(minor)
      /\ UNCHANGED <<local_boundaries, labels, elements, boundary, neighbors,
                     current_energy, ucm, stage>>
  BY DEF Discard, IInv
<1>1. /\ Regions' = Regions /\ \A cell : Now(cell)' = Now(cell)
  BY <1>0 DEF Regions, Now
<1>2. \A r, s : Shared(r, s)' = Shared(r, s)
  BY <1>1 DEF Shared
<1>3. \A r, s : Exact(r, s)' = Exact(r, s)
  BY <1>0, <1>2 DEF Exact
<1>4. ASSUME NEW r \in Regions, NEW s \in Regions, r # s, Shared(r, s) # {}
      PROVE  {Order_node(Exact(r, s).energy, r, s), Order_node(Exact(r, s).energy, s, r)}
               \intersect merging_queue' # {}
  <2>1. /\ neighbors[r][s] = Exact(r, s) /\ neighbors[s][r] = Exact(r, s)
        /\ labels[r] = r /\ labels[s] = s
        /\ {Order_node(Exact(r, s).energy, r, s), Order_node(Exact(r, s).energy, s, r)}
             \intersect merging_queue # {}
    <3>1. Shared(s, r) # {} /\ Exact(s, r) = Exact(r, s)
      BY <1>0, <1>4, SharedFacts
    <3> QED
      BY <1>4, <3>1 DEF IInv, AveragesExact, Regions
  <2>2. /\ Current(Order_node(Exact(r, s).energy, r, s))
        /\ Current(Order_node(Exact(r, s).energy, s, r))
    BY <2>1 DEF Current, Order_node
  <2> QED
    BY <1>0, <2>1, <2>2
<1>5. AveragesExact'
  <2> SUFFICES ASSUME NEW r \in Regions, NEW s \in Regions, r # s
               PROVE  IF Shared(r, s) = {} THEN s \notin DOMAIN neighbors[r]
                      ELSE /\ s \in DOMAIN neighbors[r] /\ neighbors[r][s] = Exact(r, s)
                           /\ {Order_node(Exact(r, s).energy, r, s),
                               Order_node(Exact(r, s).energy, s, r)}
                                \intersect merging_queue' # {}
    BY <1>0, <1>1, <1>2, <1>3 DEF AveragesExact
  <2> QED
    BY <1>4 DEF IInv, AveragesExact
<1>6. (ElementsOK /\ BoundaryOK /\ QueueOK /\ WeakerGone /\ LevelsReached)'
  BY <1>0, <1>1, <1>2, <1>3
  DEF IInv, ElementsOK, BoundaryOK, QueueOK, WeakerGone, LevelsReached
<1>7. UcmTypeOK'
  BY <1>0 DEF UcmTypeOK
<1> QED
  BY <1>0, <1>5, <1>6, <1>7 DEF IInv, Ultrametric

LEMMA StutterOK == ASSUME IInv, UNCHANGED vars PROVE IInv'
<1>0. UNCHANGED <<local_boundaries, labels, elements, boundary, neighbors, merging_queue,
                  current_energy, ucm, stage>>
  BY DEF vars
<1>1. /\ Regions' = Regions /\ \A cell : Now(cell)' = Now(cell)
  BY <1>0 DEF Regions, Now
<1>2. \A r, s : Shared(r, s)' = Shared(r, s)
  BY <1>1 DEF Shared
<1>3. \A r, s : Exact(r, s)' = Exact(r, s)
  BY <1>0, <1>2 DEF Exact
<1> QED
  BY <1>0, <1>1, <1>2, <1>3
  DEF IInv, UcmTypeOK, ElementsOK, BoundaryOK, QueueOK, WeakerGone, LevelsReached, Ultrametric,
      AveragesExact

THEOREM Invariance == Spec => []IInv
<1>1. IInv /\ [Next]_vars => IInv'
  BY MergeOK, CompleteOK, DiscardOK, StutterOK DEF Next
<1> QED
  BY <1>1, InitOK, PTL DEF Spec

(* compute_ucm never stops with "THIS IS NOT AN ULTRAMETRIC": the energies   *)
(* of the merges never fall, for any image, partition and strengths.         *)
THEOREM AlwaysUltrametric == Spec => []Ultrametric
<1>1. IInv => Ultrametric
  BY DEF IInv
<1> QED
  BY <1>1, Invariance, PTL

(* The totals and lengths that merges add up are those of the boundaries in  *)
(* the image, on both sides, and no boundary is missing in the queue.        *)
THEOREM AlwaysExact == Spec => []AveragesExact
<1>1. IInv => AveragesExact
  BY DEF IInv
<1> QED
  BY <1>1, Invariance, PTL

LEMMA StepKeepsLevels ==
  ASSUME IInv, [Next]_vars, NEW cell \in Contours
  PROVE  /\ Cardinality(Now(cell)) = 1 => ucm'[cell] = ucm[cell]
         /\ Cardinality(Now(cell)) = 2 /\ Cardinality(Now(cell)') = 1 =>
              ucm'[cell] = current_energy'
<1>0. UcmTypeOK /\ ElementsOK
  BY DEF IInv
<1>1. CASE Merge
  <2>1. PICK f \in Regions, s \in Regions : Joining(f, s)
    BY <1>1, MergeJoins
  <2>2. ASSUME Cardinality(Now(cell)) = 2, Cardinality(Now(cell)') = 1
        PROVE  ucm'[cell] = current_energy'
    <3>1. PICK a \in Labels, b \in Labels :
            /\ a # b /\ Sides[cell] = {a, b}
            /\ [coord |-> cell, cc_neigh |-> b] \in Boundary[a]
            /\ [coord |-> cell, cc_neigh |-> a] \in Boundary[b]
            /\ Now(cell) = {labels[a], labels[b]}
            /\ labels[a] \in Regions /\ labels[b] \in Regions
      BY <1>0, NowFacts, Zenon
    <3>2. Now(cell)' = {labels'[a], labels'[b]}
      BY <3>1 DEF Now
    <3>3. labels[a] # labels[b] /\ labels'[a] = labels'[b]
      <4>1. Cardinality({labels[a], labels[b]}) = 2 /\ Cardinality({labels'[a], labels'[b]}) = 1
        BY <2>2, <3>1, <3>2
      <4> QED
        BY <4>1, PairCardinality
    <3>4. /\ labels'[a] = IF labels[a] = s THEN f ELSE labels[a]
          /\ labels'[b] = IF labels[b] = s THEN f ELSE labels[b]
      BY <2>1, JoinLabels
    <3>5. Now(cell) = {f, s}
      BY <3>1, <3>3, <3>4
    <3> QED
      BY <2>1, <3>5, JoinLevels
  <2> QED
    BY <2>1, <2>2, JoinLevels
<1>2. CASE Complete
  <2>1. cell \in Cells /\ ~ (cell[1] % 2 = 0 /\ cell[2] % 2 = 0)
    BY ContourIsCell
  <2>2. ucm'[cell] = ucm[cell] /\ labels' = labels
    BY <1>2, <2>1 DEF Complete
  <2>3. Now(cell)' = Now(cell)
    BY <2>2 DEF Now
  <2> QED
    BY <2>2, <2>3
<1>3. CASE Discard \/ UNCHANGED vars
  <2>1. ucm' = ucm /\ labels' = labels
    BY <1>3 DEF Discard, vars
  <2>2. Now(cell)' = Now(cell)
    BY <2>1 DEF Now
  <2> QED
    BY <2>1, <2>2
<1> QED
  BY <1>1, <1>2, <1>3 DEF Next

(* A contour gets its place in the hierarchy at the merge of its two sides   *)
(* and keeps it.                                                             *)
THEOREM PlacesKept == Spec => LevelsFinal
<1>1. IInv /\ [Next]_vars =>
        [\A cell \in Contours :
           /\ Cardinality(Now(cell)) = 1 => ucm'[cell] = ucm[cell]
           /\ Cardinality(Now(cell)) = 2 /\ Cardinality(Now(cell)') = 1 =>
                ucm'[cell] = current_energy']_vars
  BY StepKeepsLevels
<1> QED
  BY <1>1, Invariance, PTL DEF Spec, LevelsFinal

-----------------------------------------------------------------------------
(* What is within reach of a cell without crossing a level.                  *)
Frontiers == (SUBSET Cells) \X (SUBSET Cells)

More(level, w) == {c \in UNION {Around[cell] : cell \in w[2]} : ucm[c] < level} \ w[1]

GrowStep(level, g, w) ==
  IF More(level, w) = {} THEN w[1]
  ELSE g[<<w[1] \union More(level, w), More(level, w)>>]

Grow(level) == CHOOSE g : g = [w \in Frontiers |-> GrowStep(level, g, w)]

LEMMA ReachedIsGrow ==
  ASSUME NEW from, NEW level
  PROVE  Reached(from, level) = Grow(level)[<<{from}, {from}>>]
  BY DEF Reached, Grow, GrowStep, More, Frontiers

(* What is left to reach gets less.                                          *)
LEMMA MoreIsLeft ==
  ASSUME NEW level, NEW w \in Frontiers
  PROVE  /\ IsFiniteSet(Cells \ w[1]) /\ Cardinality(Cells \ w[1]) \in Nat
         /\ More(level, w) \subseteq Cells \ w[1]
         /\ <<w[1] \union More(level, w), More(level, w)>> \in Frontiers
         /\ More(level, w) # {} =>
              Cardinality(Cells \ (w[1] \union More(level, w))) < Cardinality(Cells \ w[1])
<1>0. w[1] \subseteq Cells /\ w[2] \subseteq Cells
  BY DEF Frontiers
<1>1. \A S : IsFiniteSet(Cells \ S) /\ Cardinality(Cells \ S) \in Nat
  <2>1. \A S : Cells \ S \subseteq Cells
    OBVIOUS
  <2>2. \A S : IsFiniteSet(Cells \ S)
    BY <2>1, Finite, FS_Subset
  <2> QED
    BY <2>2, FS_CardinalityType
<1>2. More(level, w) \subseteq Cells \ w[1]
  BY <1>0 DEF More, Around
<1>3. <<w[1] \union More(level, w), More(level, w)>> \in Frontiers
  BY <1>0, <1>2 DEF Frontiers
<1>4. ASSUME More(level, w) # {}
      PROVE  Cardinality(Cells \ (w[1] \union More(level, w))) < Cardinality(Cells \ w[1])
  <2> DEFINE A == Cells \ (w[1] \union More(level, w))
             B == Cells \ w[1]
  <2>1. A \subseteq B /\ A # B
    BY <1>2, <1>4
  <2>2. IsFiniteSet(B) /\ Cardinality(A) \in Nat /\ Cardinality(B) \in Nat
    BY <1>1
  <2> HIDE DEF A, B
  <2>3. Cardinality(A) <= Cardinality(B) /\ (Cardinality(A) = Cardinality(B) => A = B)
    BY <2>1, <2>2, FS_Subset
  <2>4. Cardinality(A) < Cardinality(B)
    BY <2>1, <2>2, <2>3
  <2> QED
    BY <2>4 DEF A, B
<1> QED
  BY <1>1, <1>2, <1>3, <1>4

LEMMA GrowExists ==
  ASSUME NEW level
  PROVE  Grow(level) = [w \in Frontiers |-> GrowStep(level, Grow(level), w)]
<1> DEFINE D(n) == {w \in Frontiers : Cardinality(Cells \ w[1]) <= n}
           P(n) == \E g : g = [w \in D(n) |-> GrowStep(level, g, w)]
           G == {n \in Nat : P(n)}
<1>0. \A w \in Frontiers : Cardinality(Cells \ w[1]) \in Nat
  BY MoreIsLeft
<1>1. 0 \in G
  <2>1. ASSUME NEW w \in D(0) PROVE More(level, w) = {}
    <3>1. w \in Frontiers /\ Cardinality(Cells \ w[1]) = 0
      BY <1>0
    <3>2. Cells \ w[1] = {}
      BY <3>1, MoreIsLeft, FS_EmptySet
    <3> QED
      BY <3>1, <3>2, MoreIsLeft
  <2>2. [w \in D(0) |-> w[1]] = [w \in D(0) |-> GrowStep(level, [x \in D(0) |-> x[1]], w)]
    BY <2>1 DEF GrowStep
  <2> QED
    BY <2>2
<1>2. ASSUME NEW n \in Nat, n \in G PROVE n + 1 \in G
  <2>1. PICK g : g = [w \in D(n) |-> GrowStep(level, g, w)]
    BY <1>2
  <2> DEFINE h == [w \in D(n + 1) |-> GrowStep(level, g, w)]
  <2>2. \A w \in D(n) : w \in D(n + 1) /\ h[w] = g[w]
    <3>1. ASSUME NEW w \in D(n) PROVE w \in D(n + 1)
      BY <1>0
    <3>2. \A w \in D(n) : g[w] = GrowStep(level, g, w)
      BY <2>1
    <3> QED
      BY <3>1, <3>2
  <2>3. ASSUME NEW w \in D(n + 1) PROVE GrowStep(level, g, w) = GrowStep(level, h, w)
    <3>1. CASE More(level, w) = {}
      BY <3>1 DEF GrowStep
    <3>2. CASE More(level, w) # {}
      <4> DEFINE z == <<w[1] \union More(level, w), More(level, w)>>
      <4>1. z \in D(n)
        <5>1. w \in Frontiers /\ Cardinality(Cells \ w[1]) <= n + 1
          OBVIOUS
        <5>2. /\ z \in Frontiers /\ z[1] = w[1] \union More(level, w)
              /\ Cardinality(Cells \ (w[1] \union More(level, w))) < Cardinality(Cells \ w[1])
          BY <3>2, <5>1, MoreIsLeft
        <5>3. Cardinality(Cells \ z[1]) \in Nat
          BY <1>0, <5>2
        <5>4. Cardinality(Cells \ z[1]) <= n
          <6> HIDE DEF z
          <6> QED
            BY <1>0, <5>1, <5>2, <5>3
        <5> QED
          BY <5>2, <5>4
      <4>2. h[z] = g[z]
        BY <2>2, <4>1
      <4> QED
        BY <3>2, <4>2 DEF GrowStep
    <3> QED
      BY <3>1, <3>2
  <2>4. h = [w \in D(n + 1) |-> GrowStep(level, h, w)]
    <3> HIDE DEF D
    <3> QED
      BY <2>3
  <2>5. P(n + 1)
    <3> HIDE DEF h, D
    <3> QED
      BY <2>4
  <2> HIDE DEF P
  <2> QED
    BY <2>5
<1>3. Cardinality(Cells) \in Nat /\ IsFiniteSet(Cells)
  BY Finite, FS_CardinalityType
<1>4. Cardinality(Cells) \in G
  <2> HIDE DEF G
  <2> QED
    BY <1>1, <1>2, <1>3, InductionOnNat
<1>5. D(Cardinality(Cells)) = Frontiers
  <2>1. \A S : Cells \ S \subseteq Cells
    OBVIOUS
  <2>2. \A S : Cardinality(Cells \ S) <= Cardinality(Cells)
    BY <1>3, <2>1, FS_Subset
  <2> QED
    BY <2>2
<1>6. \E g : g = [w \in Frontiers |-> GrowStep(level, g, w)]
  <2> HIDE DEF D
  <2> QED
    BY <1>4, <1>5
<1> QED
  BY <1>6 DEF Grow

(* It is within any set that no step of the walk leaves.                     *)
LEMMA ReachedWithin ==
  ASSUME NEW level, NEW X \in SUBSET Cells, NEW from \in X,
         \A c \in X : \A d \in Around[c] : ucm[d] < level => d \in X
  PROVE  Reached(from, level) \subseteq X
<1> DEFINE g == Grow(level)
           G == {n \in Nat : \A w \in Frontiers :
                   Cardinality(Cells \ w[1]) <= n /\ w[1] \subseteq X /\ w[2] \subseteq X =>
                     g[w] \subseteq X}
<1>0. \A w \in Frontiers : Cardinality(Cells \ w[1]) \in Nat
  BY MoreIsLeft
<1>1. \A w \in Frontiers : g[w] = GrowStep(level, g, w)
  <2>1. g = [w \in Frontiers |-> GrowStep(level, g, w)]
    BY GrowExists
  <2> HIDE DEF g
  <2> QED
    BY <2>1
<1> HIDE DEF g
<1>2. 0 \in G
  <2> SUFFICES ASSUME NEW w \in Frontiers, Cardinality(Cells \ w[1]) <= 0, w[1] \subseteq X
               PROVE  g[w] \subseteq X
    OBVIOUS
  <2>0. Cardinality(Cells \ w[1]) = 0
    BY <1>0
  <2>1. Cells \ w[1] = {}
    BY <2>0, MoreIsLeft, FS_EmptySet
  <2>2. More(level, w) = {}
    BY <2>1, MoreIsLeft
  <2> QED
    BY <1>1, <2>2 DEF GrowStep
<1>3. ASSUME NEW n \in Nat, n \in G PROVE n + 1 \in G
  <2> SUFFICES ASSUME NEW w \in Frontiers, Cardinality(Cells \ w[1]) <= n + 1,
                      w[1] \subseteq X, w[2] \subseteq X
               PROVE  g[w] \subseteq X
    BY <1>3
  <2>1. CASE More(level, w) = {}
    BY <1>1, <2>1 DEF GrowStep
  <2>2. CASE More(level, w) # {}
    <3>1. PICK z : z = <<w[1] \union More(level, w), More(level, w)>>
      OBVIOUS
    <3>2. More(level, w) \subseteq X
      BY DEF More
    <3>3. z \in Frontiers /\ z[1] \subseteq X /\ z[2] \subseteq X
      BY <3>1, <3>2, MoreIsLeft
    <3>4. Cardinality(Cells \ z[1]) < Cardinality(Cells \ w[1])
      BY <2>2, <3>1, MoreIsLeft
    <3>5. Cardinality(Cells \ z[1]) <= n
      BY <1>0, <3>3, <3>4
    <3>6. g[z] \subseteq X
      BY <1>3, <3>3, <3>5
    <3> QED
      BY <1>1, <2>2, <3>1, <3>6 DEF GrowStep
  <2> QED
    BY <2>1, <2>2
<1>4. <<{from}, {from}>> \in Frontiers
  BY DEF Frontiers
<1>5. PICK w : w = <<{from}, {from}>>
  OBVIOUS
<1>6. w \in Frontiers /\ w[1] \subseteq X /\ w[2] \subseteq X /\ Cardinality(Cells \ w[1]) \in G
  <2> HIDE DEF G
  <2> QED
    BY <1>0, <1>2, <1>3, <1>4, <1>5, InductionOnNat
<1>7. g[w] \subseteq X
  BY <1>0, <1>6
<1> QED
  BY <1>5, <1>7, ReachedIsGrow DEF g

-----------------------------------------------------------------------------
(* The map, contours closed.  The pixels at a cell are those it is one of,   *)
(* or lies between, at most four.                                            *)
PixelsAt(cell) == {v \in Pixels : /\ 2 * v[1] \in (cell[1] - 2) .. cell[1]
                                  /\ 2 * v[2] \in (cell[2] - 2) .. cell[2]}

CornersOK ==
  stage = "done" =>
    /\ merging_queue = {}
    /\ \A cell \in Cells : cell[1] % 2 = 0 /\ cell[2] % 2 = 0 =>
         \A c \in Around[cell] : ucm[c] <= ucm[cell]

(* For each level the initial regions have classes, within the regions, such *)
(* that of the contours whose sides have joined those below the level are    *)
(* inside a class and the others between two.                                *)
Nested ==
  \A level \in Nat : \E class \in [Labels -> Labels] :
    /\ \A a, b \in Labels : class[a] = class[b] => labels[a] = labels[b]
    /\ \A cell \in Contours : Cardinality(Now(cell)) = 1 =>
         (ucm[cell] < level <=> \A a, b \in Sides[cell] : class[a] = class[b])

LEMMA CellCoords ==
  ASSUME NEW cell \in Cells
  PROVE  /\ cell = <<cell[1], cell[2]>>
         /\ cell[1] \in 0 .. 2 * tx /\ cell[2] \in 0 .. 2 * ty
         /\ cell[1] \in Nat /\ cell[2] \in Nat
  BY UcmAssumption DEF Cells

LEMMA AtCell ==
  ASSUME NEW cell \in Cells, NEW v \in PixelsAt(cell), NEW w \in PixelsAt(cell)
  PROVE  /\ v \in Pixels /\ w \in Pixels
         /\ v[1] # w[1] => cell[1] = v[1] + w[1] + 1 /\ v[1] \in {w[1] - 1, w[1] + 1}
         /\ v[2] # w[2] => cell[2] = v[2] + w[2] + 1 /\ v[2] \in {w[2] - 1, w[2] + 1}
         /\ cell[1] \in {2 * v[1], 2 * v[1] + 1, 2 * v[1] + 2}
         /\ cell[2] \in {2 * v[2], 2 * v[2] + 1, 2 * v[2] + 2}
         /\ <<v[1], w[2]>> \in PixelsAt(cell)
<1>1. v \in Pixels /\ w \in Pixels
  BY DEF PixelsAt
<1>2. /\ 2 * v[1] \in (cell[1] - 2) .. cell[1] /\ 2 * w[1] \in (cell[1] - 2) .. cell[1]
      /\ 2 * v[2] \in (cell[2] - 2) .. cell[2] /\ 2 * w[2] \in (cell[2] - 2) .. cell[2]
  BY DEF PixelsAt
<1>3. <<v[1], w[2]>> \in Pixels
  BY <1>1 DEF Pixels
<1> QED
  BY <1>1, <1>2, <1>3, CellCoords, PixelCoords DEF PixelsAt

LEMMA BetweenAt ==
  ASSUME NEW cell \in Cells, NEW v \in PixelsAt(cell), NEW w \in PixelsAt(cell), Beside(v, w)
  PROVE  \/ Between(v, w) = cell
         \/ cell[1] % 2 = 0 /\ cell[2] % 2 = 0 /\ Between(v, w) \in Around[cell]
<1>0. v \in Pixels /\ w \in Pixels
  BY AtCell
<1>1. PICK x, y : x = v[1] + w[1] + 1 /\ y = v[2] + w[2] + 1
  OBVIOUS
<1>2. Between(v, w) = <<x, y>> /\ <<x, y>> \in Cells
  BY <1>0, <1>1, BetweenIsCell DEF Between
<1>3. \/ x = cell[1] /\ y \in {cell[2] - 1, cell[2], cell[2] + 1} /\ v[2] = w[2]
      \/ y = cell[2] /\ x \in {cell[1] - 1, cell[1], cell[1] + 1} /\ v[1] = w[1]
  <2>1. \/ v[1] # w[1] /\ v[2] = w[2]
        \/ v[1] = w[1] /\ v[2] # w[2]
    BY <1>0, BesideCases, PixelCoords
  <2> QED
    BY <1>0, <1>1, <2>1, AtCell, PixelCoords, CellCoords
<1>4. CASE x = cell[1] /\ y = cell[2]
  BY <1>2, <1>4, CellCoords
<1>5. ASSUME x = cell[1], y \in {cell[2] - 1, cell[2] + 1}, v[2] = w[2]
      PROVE  cell[1] % 2 = 0 /\ cell[2] % 2 = 0 /\ <<x, y>> \in Around[cell]
  <2>1. \A n \in Nat : (2 * n) % 2 = 0
    OBVIOUS
  <2>2. y = 2 * v[2] + 1
    BY <1>0, <1>1, <1>5, PixelCoords
  <2>3. cell[2] = 2 * v[2] \/ cell[2] = 2 * (v[2] + 1)
    BY <1>0, <1>5, <2>2, CellCoords, PixelCoords
  <2>4. x = 2 * (v[1] + 1) \/ x = 2 * v[1]
    BY <1>0, <1>1, <1>5, BesideCases, PixelCoords
  <2>5. cell[1] % 2 = 0 /\ cell[2] % 2 = 0
    BY <1>0, <1>5, <2>1, <2>3, <2>4, PixelCoords
  <2>6. Beside(cell, <<x, y>>)
    BY <1>5, CellCoords DEF Beside
  <2> QED
    BY <1>2, <2>5, <2>6 DEF Around
<1>6. ASSUME y = cell[2], x \in {cell[1] - 1, cell[1] + 1}, v[1] = w[1]
      PROVE  cell[1] % 2 = 0 /\ cell[2] % 2 = 0 /\ <<x, y>> \in Around[cell]
  <2>1. \A n \in Nat : (2 * n) % 2 = 0
    OBVIOUS
  <2>2. x = 2 * v[1] + 1
    BY <1>0, <1>1, <1>6, PixelCoords
  <2>3. cell[1] = 2 * v[1] \/ cell[1] = 2 * (v[1] + 1)
    BY <1>0, <1>6, <2>2, CellCoords, PixelCoords
  <2>4. y = 2 * (v[2] + 1) \/ y = 2 * v[2]
    BY <1>0, <1>1, <1>6, BesideCases, PixelCoords
  <2>5. cell[1] % 2 = 0 /\ cell[2] % 2 = 0
    BY <1>0, <1>6, <2>1, <2>3, <2>4, PixelCoords
  <2>6. Beside(cell, <<x, y>>)
    BY <1>6, CellCoords DEF Beside
  <2> QED
    BY <1>2, <2>5, <2>6 DEF Around
<1> QED
  BY <1>2, <1>3, <1>4, <1>5, <1>6

(* Cells next to each other have a pixel in common.                          *)
LEMMA CommonCoordinate ==
  ASSUME NEW n \in Nat \ {0}, NEW x \in 0 .. 2 * n, NEW y \in 0 .. 2 * n,
         x \in {y - 1, y, y + 1}
  PROVE  \E a \in 0 .. n - 1 : 2 * a \in (x - 2) .. x /\ 2 * a \in (y - 2) .. y
<1>1. PICK m \in {x, y} : x <= m /\ y <= m
  OBVIOUS
<1>2. CASE m = 0
  <2>1. 0 \in 0 .. n - 1 /\ 2 * 0 \in (x - 2) .. x /\ 2 * 0 \in (y - 2) .. y
    BY <1>1, <1>2
  <2> QED
    BY <2>1
<1>3. CASE m # 0
  <2>1. PICK k \in Nat : m - 1 = 2 * k \/ m - 1 = 2 * k + 1
    <3>1. \A i \in Nat : \E k \in Nat : i = 2 * k \/ i = 2 * k + 1
      <4> SUFFICES ASSUME NEW i \in Nat PROVE \E k \in Nat : i = 2 * k \/ i = 2 * k + 1
        OBVIOUS
      <4>1. i \div 2 \in Nat /\ (i = 2 * (i \div 2) \/ i = 2 * (i \div 2) + 1)
        OBVIOUS
      <4> QED
        BY <4>1
    <3>2. m - 1 \in Nat
      BY <1>1, <1>3
    <3> QED
      BY <3>1, <3>2
  <2>2. k \in 0 .. n - 1 /\ 2 * k \in (x - 2) .. x /\ 2 * k \in (y - 2) .. y
    BY <1>1, <1>3, <2>1
  <2> QED
    BY <2>2
<1> QED
  BY <1>2, <1>3

LEMMA CommonPixel ==
  ASSUME NEW c \in Cells, NEW d \in Around[c]
  PROVE  d \in Cells /\ \E v \in Pixels : v \in PixelsAt(c) /\ v \in PixelsAt(d)
<1>1. d \in Cells /\ Beside(c, d)
  BY DEF Around
<1>2. c[1] \in {d[1] - 1, d[1], d[1] + 1} /\ c[2] \in {d[2] - 1, d[2], d[2] + 1}
  BY <1>1, CellCoords DEF Beside
<1>3. PICK a \in 0 .. tx - 1 : 2 * a \in (c[1] - 2) .. c[1] /\ 2 * a \in (d[1] - 2) .. d[1]
  BY <1>1, <1>2, CellCoords, CommonCoordinate, UcmAssumption
<1>4. PICK b \in 0 .. ty - 1 : 2 * b \in (c[2] - 2) .. c[2] /\ 2 * b \in (d[2] - 2) .. d[2]
  BY <1>1, <1>2, CellCoords, CommonCoordinate, UcmAssumption
<1>5. <<a, b>> \in Pixels /\ <<a, b>> \in PixelsAt(c) /\ <<a, b>> \in PixelsAt(d)
  BY <1>3, <1>4 DEF Pixels, PixelsAt
<1> QED
  BY <1>1, <1>5

(* Below a level one stays within a class: of two pixels next to each other, *)
(* of the pixels at a cell, and so of the pixels on a walk.                  *)
Flat(class, level) ==
  \A cell \in Contours : ucm[cell] < level => \A a, b \in Sides[cell] : class[a] = class[b]

LEMMA SidesBetween ==
  ASSUME NEW v \in Pixels, NEW w \in Pixels, Beside(v, w),
         initial_partition[v] # initial_partition[w]
  PROVE  /\ Between(v, w) \in Contours
         /\ Sides[Between(v, w)] = {initial_partition[v], initial_partition[w]}
<1> DEFINE e == [coord |-> Between(v, w), cc_neigh |-> initial_partition[w]]
<1>1. initial_partition[v] \in Labels /\ e \in Boundary[initial_partition[v]]
  BY LabelOfPixel, BoundaryElement
<1>2. e.coord = Between(v, w) /\ e.cc_neigh = initial_partition[w]
  OBVIOUS
<1> HIDE DEF e
<1>3. PICK c \in Labels : c = initial_partition[v]
  BY <1>1
<1>4. e.coord \in Contours /\ Sides[e.coord] = {c, e.cc_neigh}
  BY <1>1, <1>3, ElementFacts
<1> QED
  BY <1>2, <1>3, <1>4

LEMMA BesideSame ==
  ASSUME NEW class, NEW level, Flat(class, level),
         NEW v \in Pixels, NEW w \in Pixels, Beside(v, w), ucm[Between(v, w)] < level
  PROVE  class[initial_partition[v]] = class[initial_partition[w]]
<1>1. CASE initial_partition[v] = initial_partition[w]
  BY <1>1
<1>2. CASE initial_partition[v] # initial_partition[w]
  BY <1>2, SidesBetween DEF Flat
<1> QED
  BY <1>1, <1>2

LEMMA CellSame ==
  ASSUME NEW class, NEW level \in Nat, Flat(class, level),
         UcmTypeOK, CornersOK, stage = "done",
         NEW cell \in Cells, ucm[cell] < level,
         NEW v \in PixelsAt(cell), NEW w \in PixelsAt(cell)
  PROVE  class[initial_partition[v]] = class[initial_partition[w]]
<1>1. ASSUME NEW x \in PixelsAt(cell), NEW y \in PixelsAt(cell), Beside(x, y)
      PROVE  class[initial_partition[x]] = class[initial_partition[y]]
  <2>0. x \in Pixels /\ y \in Pixels
    BY AtCell
  <2>1. PICK b : b = Between(x, y)
    OBVIOUS
  <2>2. b \in Cells /\ ucm[b] \in Nat /\ ucm[cell] \in Nat
    BY <1>1, <2>0, <2>1, BetweenIsCell DEF UcmTypeOK
  <2>3. ucm[b] <= ucm[cell]
    <3>1. CASE b = cell
      BY <2>2, <3>1
    <3>2. CASE cell[1] % 2 = 0 /\ cell[2] % 2 = 0 /\ b \in Around[cell]
      BY <3>2 DEF CornersOK
    <3> QED
      BY <1>1, <2>1, <3>1, <3>2, BetweenAt
  <2>4. ucm[b] < level
    BY <2>2, <2>3
  <2> QED
    BY <1>1, <2>0, <2>1, <2>4, BesideSame
<1>2. PICK u : u = <<v[1], w[2]>>
  OBVIOUS
<1>3. /\ v \in Pixels /\ w \in Pixels /\ u \in PixelsAt(cell) /\ u \in Pixels
      /\ u[1] = v[1] /\ u[2] = w[2]
  BY <1>2, AtCell
<1>4. class[initial_partition[v]] = class[initial_partition[u]]
  <2>1. CASE v[2] = w[2]
    BY <1>3, <2>1, PixelCoords
  <2>2. CASE v[2] # w[2]
    <3>1. v[2] \in {w[2] - 1, w[2] + 1}
      BY <2>2, AtCell
    <3>2. Beside(v, u)
      BY <1>3, <3>1, PixelCoords DEF Beside
    <3> QED
      BY <1>1, <1>3, <3>2
  <2> QED
    BY <2>1, <2>2
<1>5. class[initial_partition[u]] = class[initial_partition[w]]
  <2>1. CASE v[1] = w[1]
    BY <1>3, <2>1, PixelCoords
  <2>2. CASE v[1] # w[1]
    <3>1. v[1] \in {w[1] - 1, w[1] + 1}
      BY <2>2, AtCell
    <3>2. Beside(u, w)
      BY <1>3, <3>1, PixelCoords DEF Beside
    <3> QED
      BY <1>1, <1>3, <3>2
  <2> QED
    BY <2>1, <2>2
<1> QED
  BY <1>4, <1>5

LEMMA ReachedSame ==
  ASSUME NEW class, NEW level \in Nat, Flat(class, level),
         UcmTypeOK, CornersOK, stage = "done",
         NEW from \in Cells, NEW k, \A v \in PixelsAt(from) : class[initial_partition[v]] = k,
         NEW d \in Reached(from, level), NEW w \in PixelsAt(d)
  PROVE  class[initial_partition[w]] = k
<1> DEFINE X == {c \in Cells : \A v \in PixelsAt(c) : class[initial_partition[v]] = k}
<1>1. ASSUME NEW c \in X, NEW e \in Around[c], ucm[e] < level PROVE e \in X
  <2>1. e \in Cells /\ \E v \in Pixels : v \in PixelsAt(c) /\ v \in PixelsAt(e)
    BY CommonPixel
  <2>2. PICK v \in Pixels : v \in PixelsAt(c) /\ v \in PixelsAt(e)
    BY <2>1
  <2>3. \A x \in PixelsAt(e) : class[initial_partition[x]] = class[initial_partition[v]]
    BY <1>1, <2>1, <2>2, CellSame
  <2> QED
    BY <2>1, <2>2, <2>3
<1>2. from \in X /\ X \in SUBSET Cells
  OBVIOUS
<1>3. Reached(from, level) \subseteq X
  <2> HIDE DEF X
  <2> QED
    BY <1>1, <1>2, ReachedWithin
<1> QED
  BY <1>3

(* The two pixels at a contour are its sides.                                *)
LEMMA SidesAt ==
  ASSUME NEW cell \in Contours, NEW v \in PixelsAt(cell), NEW w \in PixelsAt(cell), v # w
  PROVE  Sides[cell] = {initial_partition[v], initial_partition[w]}
<1>0. /\ cell \in Cells /\ ~ (cell[1] % 2 = 0 /\ cell[2] % 2 = 0)
      /\ v \in Pixels /\ w \in Pixels
  BY ContourIsCell, AtCell
<1>1. Beside(v, w)
  <2>1. ~ (v[1] # w[1] /\ v[2] # w[2])
    <3> SUFFICES ASSUME v[1] # w[1], v[2] # w[2] PROVE FALSE
      OBVIOUS
    <3>1. \A n \in Nat : (2 * n) % 2 = 0
      OBVIOUS
    <3>2. /\ cell[1] = v[1] + w[1] + 1 /\ v[1] \in {w[1] - 1, w[1] + 1}
          /\ cell[2] = v[2] + w[2] + 1 /\ v[2] \in {w[2] - 1, w[2] + 1}
      BY <1>0, AtCell
    <3>3. /\ cell[1] = 2 * w[1] \/ cell[1] = 2 * (w[1] + 1)
          /\ cell[2] = 2 * w[2] \/ cell[2] = 2 * (w[2] + 1)
      BY <1>0, <3>2, PixelCoords
    <3>4. cell[1] % 2 = 0 /\ cell[2] % 2 = 0
      BY <1>0, <3>1, <3>3, PixelCoords
    <3> QED
      BY <1>0, <3>4
  <2>2. v[1] # w[1] \/ v[2] # w[2]
    BY <1>0, PixelCoords
  <2>3. /\ v[1] # w[1] => v[1] \in {w[1] - 1, w[1] + 1}
        /\ v[2] # w[2] => v[2] \in {w[2] - 1, w[2] + 1}
    BY <1>0, AtCell
  <2> QED
    BY <1>0, <2>1, <2>2, <2>3, PixelCoords DEF Beside
<1>2. Between(v, w) = cell
  BY <1>0, <1>1, BetweenAt
<1>3. PICK a \in Labels, b \in Labels :
        a # b /\ [coord |-> cell, cc_neigh |-> b] \in Boundary[a]
  BY TwoSides
<1>4. PICK x \in Pixels, y \in Pixels :
        /\ Beside(x, y) /\ initial_partition[x] = a /\ initial_partition[y] # a
        /\ [coord |-> cell, cc_neigh |-> b]
             = [coord |-> Between(x, y), cc_neigh |-> initial_partition[y]]
  BY <1>3, BoundaryElement
<1>5. Between(x, y) = Between(v, w)
  BY <1>2, <1>4
<1>6. initial_partition[v] # initial_partition[w]
  BY <1>0, <1>1, <1>4, <1>5, SameContour
<1> QED
  BY <1>0, <1>1, <1>2, <1>6, SidesBetween

(* When the queue is empty no region has a boundary, and since the image is  *)
(* in one piece there is one region.                                         *)
LEMMA OneRegion ==
  ASSUME IInv, merging_queue = {}
  PROVE  /\ \A cell \in Contours : Cardinality(Now(cell)) = 1
         /\ Cardinality(Regions) = 1
<1>0. UcmTypeOK /\ ElementsOK /\ AveragesExact
  BY DEF IInv
<1>1. ASSUME NEW r \in Regions, NEW s \in Regions, r # s PROVE Shared(r, s) = {}
  BY <1>0, <1>1 DEF AveragesExact
<1>2. ASSUME NEW cell \in Contours
      PROVE  /\ Cardinality(Now(cell)) = 1
             /\ \A a, b \in Sides[cell] : labels[a] = labels[b]
  <2>1. PICK a \in Labels, b \in Labels :
          /\ a # b /\ Sides[cell] = {a, b}
          /\ [coord |-> cell, cc_neigh |-> b] \in Boundary[a]
          /\ [coord |-> cell, cc_neigh |-> a] \in Boundary[b]
          /\ Now(cell) = {labels[a], labels[b]}
          /\ labels[a] \in Regions /\ labels[b] \in Regions
    BY <1>0, NowFacts, Zenon
  <2>2. labels[a] = labels[b]
    <3> SUFFICES ASSUME labels[a] # labels[b] PROVE FALSE
      OBVIOUS
    <3>1. cell \in Shared(labels[a], labels[b])
      BY <2>1 DEF Shared
    <3> QED
      BY <1>1, <2>1, <3>1
  <2>3. Cardinality({labels[a], labels[b]}) = 1
    BY <2>2, PairCardinality
  <2> QED
    BY <2>1, <2>2, <2>3
<1> DEFINE of(v) == labels[initial_partition[v]]
<1>3. ASSUME NEW v \in Pixels, NEW w \in Pixels, Beside(v, w) PROVE of(v) = of(w)
  <2>1. CASE initial_partition[v] = initial_partition[w]
    BY <2>1
  <2>2. CASE initial_partition[v] # initial_partition[w]
    <3>1. PICK cell \in Contours : Sides[cell] = {initial_partition[v], initial_partition[w]}
      BY <1>3, <2>2, SidesBetween
    <3> QED
      BY <1>2, <3>1
  <2> QED
    BY <2>1, <2>2
<1>4. <<0, 0>> \in Pixels
  BY UcmAssumption DEF Pixels
<1> DEFINE G == {n \in Nat : \A v \in Pixels : v[1] + v[2] = n => of(v) = of(<<0, 0>>)}
<1>5. 0 \in G
  <2> SUFFICES ASSUME NEW v \in Pixels, v[1] + v[2] = 0 PROVE of(v) = of(<<0, 0>>)
    OBVIOUS
  <2>1. v = <<0, 0>>
    BY PixelCoords
  <2> QED
    BY <2>1
<1>6. ASSUME NEW n \in Nat, n \in G PROVE n + 1 \in G
  <2> SUFFICES ASSUME NEW v \in Pixels, v[1] + v[2] = n + 1 PROVE of(v) = of(<<0, 0>>)
    BY <1>6
  <2>1. PICK w \in Pixels : w[1] + w[2] = n /\ Beside(v, w)
    <3>0. /\ v[1] \in Nat /\ v[2] \in Nat /\ v[1] <= tx - 1 /\ v[2] <= ty - 1
          /\ tx \in Nat /\ ty \in Nat
      BY PixelCoords, UcmAssumption
    <3>1. CASE v[1] # 0
      <4>1. <<v[1] - 1, v[2]>> \in Pixels /\ (v[1] - 1) + v[2] = n
        BY <3>0, <3>1 DEF Pixels
      <4>2. Beside(v, <<v[1] - 1, v[2]>>)
        BY <3>0 DEF Beside
      <4> QED
        BY <4>1, <4>2
    <3>2. CASE v[1] = 0
      <4>1. <<v[1], v[2] - 1>> \in Pixels /\ v[1] + (v[2] - 1) = n
        BY <3>0, <3>2 DEF Pixels
      <4>2. Beside(v, <<v[1], v[2] - 1>>)
        BY <3>0 DEF Beside
      <4> QED
        BY <4>1, <4>2
    <3> QED
      BY <3>1, <3>2
  <2>2. of(w) = of(<<0, 0>>)
    BY <1>6, <2>1
  <2> QED
    BY <1>3, <2>1, <2>2
<1>7. \A n \in Nat : n \in G
  <2> HIDE DEF G
  <2> QED
    BY <1>5, <1>6, InductionOnNat
<1>8. \A v \in Pixels : of(v) = of(<<0, 0>>)
  <2> SUFFICES ASSUME NEW v \in Pixels PROVE of(v) = of(<<0, 0>>)
    OBVIOUS
  <2>1. v[1] + v[2] \in Nat
    BY PixelCoords
  <2> QED
    BY <1>7, <2>1
<1>9. Regions = {of(<<0, 0>>)}
  <2>1. \A c \in Labels : labels[c] = of(<<0, 0>>)
    BY <1>8 DEF Labels
  <2>2. of(<<0, 0>>) \in Regions
    <3>1. initial_partition[<<0, 0>>] \in Labels
      BY <1>4, LabelOfPixel
    <3> QED
      BY <1>0, <3>1 DEF UcmTypeOK, ElementsOK, Regions
  <2> HIDE DEF of
  <2> QED
    BY <2>1, <2>2 DEF Regions
<1>10. Cardinality(Regions) = 1
  <2> HIDE DEF of
  <2> QED
    BY <1>9, FS_Singleton
<1> QED
  BY <1>2, <1>10

-----------------------------------------------------------------------------
(* Both are kept.                                                            *)
LEMMA InitNested == ASSUME Init PROVE Nested /\ CornersOK
<1>1. labels \in [Labels -> Labels] /\ \A c \in Labels : labels[c] = c
  BY DEF Init
<1>2. ASSUME NEW cell \in Contours PROVE Cardinality(Now(cell)) # 1
  <2>1. PICK a \in Labels, b \in Labels : a # b /\ Sides[cell] = {a, b}
    BY TwoSides, Zenon
  <2>2. Now(cell) = {a, b}
    BY <1>1, <2>1 DEF Now
  <2> QED
    BY <2>1, <2>2, PairCardinality
<1>3. Nested
  BY <1>1, <1>2 DEF Nested
<1> QED
  BY <1>3 DEF Init, CornersOK

(* What has been joined stays so.                                            *)
LEMMA StepJoins ==
  ASSUME IInv, [Next]_vars
  PROVE  \A a, b \in Labels : labels[a] = labels[b] => labels'[a] = labels'[b]
<1>1. CASE Merge
  <2>1. PICK f \in Regions, s \in Regions : Joining(f, s)
    BY <1>1, MergeJoins
  <2>2. \A c \in Labels : labels'[c] = IF labels[c] = s THEN f ELSE labels[c]
    BY <2>1, JoinLabels
  <2> QED
    BY <2>2
<1>2. CASE Complete \/ Discard \/ UNCHANGED vars
  BY <1>2 DEF Complete, Discard, vars
<1> QED
  BY <1>1, <1>2 DEF Next

LEMMA NestedStep ==
  ASSUME IInv, IInv', [Next]_vars, Nested
  PROVE  Nested'
<1>0. /\ UcmTypeOK /\ ElementsOK /\ UcmTypeOK' /\ LevelsReached'
  BY DEF IInv
<1> SUFFICES ASSUME NEW level \in Nat
             PROVE  \E class \in [Labels -> Labels] :
                      /\ \A a, b \in Labels : class[a] = class[b] => labels'[a] = labels'[b]
                      /\ \A cell \in Contours : Cardinality(Now(cell)') = 1 =>
                           (ucm'[cell] < level <=>
                              \A a, b \in Sides[cell] : class[a] = class[b])
  BY DEF Nested
<1>1. \A a, b \in Labels : labels[a] = labels[b] => labels'[a] = labels'[b]
  BY StepJoins
<1>2. ASSUME NEW cell \in Contours, Cardinality(Now(cell)') = 1
      PROVE  \E a, b \in Labels : /\ Sides[cell] = {a, b} /\ labels'[a] = labels'[b]
                                  /\ Cardinality(Now(cell)) = 1 <=> labels[a] = labels[b]
                                  /\ Cardinality(Now(cell)) = 2 <=> labels[a] # labels[b]
  <2>1. PICK a \in Labels, b \in Labels :
          /\ a # b /\ Sides[cell] = {a, b}
          /\ [coord |-> cell, cc_neigh |-> b] \in Boundary[a]
          /\ [coord |-> cell, cc_neigh |-> a] \in Boundary[b]
          /\ Now(cell) = {labels[a], labels[b]}
          /\ labels[a] \in Regions /\ labels[b] \in Regions
    BY <1>0, NowFacts, Zenon
  <2>2. Now(cell)' = {labels'[a], labels'[b]}
    BY <2>1 DEF Now
  <2>3. Cardinality({labels'[a], labels'[b]}) = 1
    BY <1>2, <2>2
  <2>4. labels'[a] = labels'[b]
    BY <2>3, PairCardinality
  <2>5. PICK x, y : x = labels[a] /\ y = labels[b]
    OBVIOUS
  <2>6. /\ Cardinality({x, y}) = 1 <=> x = y
        /\ Cardinality({x, y}) = 2 <=> x # y
    BY PairCardinality
  <2>7. Cardinality(Now(cell)) = 1 <=> labels[a] = labels[b]
    BY <2>1, <2>5, <2>6
  <2>8. Cardinality(Now(cell)) = 2 <=> labels[a] # labels[b]
    BY <2>1, <2>5, <2>6
  <2> QED
    BY <2>1, <2>4, <2>7, <2>8
<1>3. \A cell \in Contours : /\ cell \in Cells /\ ucm'[cell] \in Nat
                             /\ ucm'[cell] <= current_energy'
  BY <1>0, ContourIsCell DEF UcmTypeOK, LevelsReached
<1>4. current_energy' \in Nat
  BY <1>0 DEF UcmTypeOK
(* Above all levels the classes are the regions.                             *)
<1>5. CASE level > current_energy'
  <2>1. labels' \in [Labels -> Labels]
    BY <1>0 DEF UcmTypeOK
  <2>2. ASSUME NEW cell \in Contours, Cardinality(Now(cell)') = 1
        PROVE  ucm'[cell] < level /\ \A a, b \in Sides[cell] : labels'[a] = labels'[b]
    BY <1>2, <1>3, <1>4, <1>5, <2>2
  <2> QED
    BY <2>1, <2>2
(* Below, or at the level of this merge, they are what they were: the sides  *)
(* that it joins were not of one region, so not of one class.                *)
<1>6. CASE level <= current_energy'
  <2>1. PICK class \in [Labels -> Labels] :
          /\ \A a, b \in Labels : class[a] = class[b] => labels[a] = labels[b]
          /\ \A cell \in Contours : Cardinality(Now(cell)) = 1 =>
               (ucm[cell] < level <=> \A a, b \in Sides[cell] : class[a] = class[b])
    BY DEF Nested
  <2>2. ASSUME NEW cell \in Contours, Cardinality(Now(cell)') = 1
        PROVE  ucm'[cell] < level <=> \A a, b \in Sides[cell] : class[a] = class[b]
    <3>1. CASE Cardinality(Now(cell)) = 1
      <4>1. ucm'[cell] = ucm[cell]
        BY <3>1, StepKeepsLevels
      <4> QED
        BY <2>1, <3>1, <4>1
    <3>2. CASE Cardinality(Now(cell)) # 1
      <4>1. PICK a \in Labels, b \in Labels :
              /\ Sides[cell] = {a, b} /\ labels'[a] = labels'[b]
              /\ Cardinality(Now(cell)) = 1 <=> labels[a] = labels[b]
              /\ Cardinality(Now(cell)) = 2 <=> labels[a] # labels[b]
        BY <1>2, <2>2, Zenon
      <4>2. Cardinality(Now(cell)) = 2 /\ labels[a] # labels[b]
        BY <3>2, <4>1
      <4>3. ucm'[cell] = current_energy'
        BY <2>2, <4>2, StepKeepsLevels
      <4>4. ~ (ucm'[cell] < level)
        BY <1>4, <1>6, <4>3
      <4>5. class[a] # class[b]
        BY <2>1, <4>2
      <4> QED
        BY <4>1, <4>4, <4>5
    <3> QED
      BY <3>1, <3>2
  <2> QED
    BY <1>1, <2>1, <2>2
<1> QED
  BY <1>4, <1>5, <1>6

LEMMA CornersStep ==
  ASSUME IInv, [Next]_vars, CornersOK
  PROVE  CornersOK'
<1>0. UcmTypeOK /\ LevelsReached
  BY DEF IInv
<1>1. CASE Complete
  <2>1. merging_queue' = {}
    BY <1>1 DEF Complete
  <2>2. ASSUME NEW cell \in Cells, cell[1] % 2 = 0, cell[2] % 2 = 0, NEW c \in Around[cell]
        PROVE  ucm'[c] <= ucm'[cell]
    <3>1. c \in Cells /\ Beside(cell, c)
      BY DEF Around
    <3>2. ~ (c[1] % 2 = 0 /\ c[2] % 2 = 0)
      <4>1. \/ c[1] \in {cell[1] - 1, cell[1] + 1}
            \/ c[2] \in {cell[2] - 1, cell[2] + 1}
        BY <3>1, CellCoords DEF Beside
      <4>2. \A n \in Nat : n % 2 = 0 => (n + 1) % 2 = 1 /\ (n - 1 \in Nat => (n - 1) % 2 = 1)
        OBVIOUS
      <4>3. cell[1] \in Nat /\ cell[2] \in Nat /\ c[1] \in Nat /\ c[2] \in Nat
        BY <3>1, CellCoords
      <4> QED
        BY <2>2, <4>1, <4>2, <4>3
    <3>3. ucm' = [x \in Cells |->
                    IF x[1] % 2 = 0 /\ x[2] % 2 = 0
                    THEN Max({ucm[d] : d \in Around[x]})
                    ELSE ucm[x]]
      BY <1>1 DEF Complete
    <3>4. ucm'[c] = ucm[c] /\ ucm'[cell] = Max({ucm[d] : d \in Around[cell]})
      BY <2>2, <3>1, <3>2, <3>3
    <3>5. \A e \in Around[cell] : ucm[e] <= Max({ucm[d] : d \in Around[cell]})
      BY <1>0, <2>2, CornerLevel
    <3> QED
      BY <3>4, <3>5
  <2> QED
    BY <2>1, <2>2 DEF CornersOK
<1>2. CASE Merge \/ Discard
  <2>1. stage' # "done"
    BY <1>2 DEF Merge, Discard, Join, NotUltrametric
  <2> QED
    BY <2>1 DEF CornersOK
<1>3. CASE UNCHANGED vars
  BY <1>3 DEF vars, CornersOK
<1> QED
  BY <1>1, <1>2, <1>3 DEF Next

(* The walls hold: at the level of a contour its two sides are in different  *)
(* classes, and below it one does not leave a class.                         *)
LEMMA ClosedByClasses ==
  ASSUME IInv, Nested, CornersOK
  PROVE  ContoursClosed
<1> SUFFICES ASSUME stage = "done"
             PROVE  /\ Cardinality(Regions) = 1
                    /\ \A cell \in {c \in Contours : ucm[c] > 0} :
                         LET sides == {c \in Around[cell] : c[1] % 2 = 1 /\ c[2] % 2 = 1}
                         IN  \A c, d \in sides : c[1] + c[2] < d[1] + d[2] =>
                               d \notin Reached(c, ucm[cell])
  BY DEF ContoursClosed
<1>0. UcmTypeOK /\ ElementsOK /\ merging_queue = {}
  BY DEF IInv, CornersOK
<1>1. Cardinality(Regions) = 1 /\ \A cell \in Contours : Cardinality(Now(cell)) = 1
  BY <1>0, OneRegion
<1>2. ASSUME NEW cell \in Contours, NEW c \in Around[cell], NEW d \in Around[cell],
             c[1] % 2 = 1, c[2] % 2 = 1, d[1] % 2 = 1, d[2] % 2 = 1, c # d
      PROVE  d \notin Reached(c, ucm[cell])
  <2>0. /\ cell \in Cells /\ ucm[cell] \in Nat /\ c \in Cells /\ d \in Cells
        /\ Beside(cell, c) /\ Beside(cell, d)
    BY <1>0, ContourIsCell DEF UcmTypeOK, Around
  <2>1. PICK class \in [Labels -> Labels] :
          \A e \in Contours : Cardinality(Now(e)) = 1 =>
            (ucm[e] < ucm[cell] <=> \A a, b \in Sides[e] : class[a] = class[b])
    BY <2>0 DEF Nested
  <2>2. Flat(class, ucm[cell])
    BY <1>1, <2>1 DEF Flat
  <2>3. ~ \A a, b \in Sides[cell] : class[a] = class[b]
    BY <1>1, <2>0, <2>1
  <2>4. ASSUME NEW x \in Cells, Beside(cell, x), x[1] % 2 = 1, x[2] % 2 = 1
        PROVE  \E v \in Pixels : /\ PixelsAt(x) = {v} /\ v \in PixelsAt(cell)
                                 /\ x = <<2 * v[1] + 1, 2 * v[2] + 1>>
    <3>1. PICK p, q : p = x[1] \div 2 /\ q = x[2] \div 2
      OBVIOUS
    <3>2. /\ x[1] \in 0 .. 2 * tx /\ x[2] \in 0 .. 2 * ty
          /\ cell[1] \in {x[1] - 1, x[1], x[1] + 1}
          /\ cell[2] \in {x[2] - 1, x[2], x[2] + 1}
      BY <2>0, <2>4, CellCoords DEF Beside
    <3>3. /\ p \in 0 .. tx - 1 /\ q \in 0 .. ty - 1
          /\ x[1] = 2 * p + 1 /\ x[2] = 2 * q + 1
      BY <2>4, <3>1, <3>2, UcmAssumption
    <3>4. PICK v \in Pixels : v = <<p, q>> /\ v[1] = p /\ v[2] = q
      <4>1. <<p, q>> \in Pixels /\ <<p, q>>[1] = p /\ <<p, q>>[2] = q
        BY <3>3 DEF Pixels
      <4> QED
        BY <4>1
    <3>5. v \in PixelsAt(x) /\ v \in PixelsAt(cell)
      BY <3>2, <3>3, <3>4, UcmAssumption DEF PixelsAt
    <3>6. ASSUME NEW w \in PixelsAt(x) PROVE w = v
      <4>1. w \in Pixels /\ 2 * w[1] \in (x[1] - 2) .. x[1] /\ 2 * w[2] \in (x[2] - 2) .. x[2]
        BY DEF PixelsAt
      <4>2. w[1] = p /\ w[2] = q
        <5>1. w[1] \in Nat /\ w[2] \in Nat
          BY <4>1, PixelCoords
        <5>2. p \in Nat /\ q \in Nat /\ x[1] = 2 * p + 1 /\ x[2] = 2 * q + 1
          BY <3>3, UcmAssumption
        <5> QED
          BY <4>1, <5>1, <5>2
      <4> QED
        BY <3>4, <4>1, <4>2, PixelCoords
    <3>7. x = <<2 * v[1] + 1, 2 * v[2] + 1>>
      BY <2>4, <3>3, <3>4, CellCoords
    <3> QED
      BY <3>5, <3>6, <3>7
  <2>5. PICK v \in Pixels : /\ PixelsAt(c) = {v} /\ v \in PixelsAt(cell)
                            /\ c = <<2 * v[1] + 1, 2 * v[2] + 1>>
    BY <1>2, <2>0, <2>4, Zenon
  <2>6. PICK w \in Pixels : /\ PixelsAt(d) = {w} /\ w \in PixelsAt(cell)
                            /\ d = <<2 * w[1] + 1, 2 * w[2] + 1>>
    BY <1>2, <2>0, <2>4, Zenon
  <2>7. v # w
    BY <1>2, <2>5, <2>6
  <2>8. Sides[cell] = {initial_partition[v], initial_partition[w]}
    BY <2>5, <2>6, <2>7, SidesAt
  <2>9. class[initial_partition[v]] # class[initial_partition[w]]
    BY <2>3, <2>8
  <2>10. ASSUME d \in Reached(c, ucm[cell])
         PROVE  class[initial_partition[w]] = class[initial_partition[v]]
    <3>1. PICK level \in Nat : level = ucm[cell]
      BY <2>0
    <3>2. PICK k : k = class[initial_partition[v]]
      OBVIOUS
    <3>3. \A x \in PixelsAt(c) : class[initial_partition[x]] = k
      BY <2>5, <3>2
    <3>4. Flat(class, level) /\ d \in Reached(c, level) /\ w \in PixelsAt(d)
      BY <2>2, <2>6, <2>10, <3>1
    <3> QED
      BY <1>0, <2>0, <3>2, <3>3, <3>4, ReachedSame DEF IInv
  <2> QED
    BY <2>9, <2>10
<1>3. ASSUME NEW cell \in Contours, NEW c \in Around[cell], NEW d \in Around[cell],
             c[1] + c[2] < d[1] + d[2]
      PROVE  c # d
  <2>1. c \in Cells
    BY ContourIsCell DEF Around
  <2>2. PICK n : n = c[1] + c[2]
    OBVIOUS
  <2>3. n \in Nat
    BY <2>1, <2>2, CellCoords
  <2> QED
    BY <1>3, <2>2, <2>3
<1> QED
  BY <1>1, <1>2, <1>3

(* When compute_ucm is done, one has to cross contours or corners as strong  *)
(* as a contour to get from one side of it to the other, and all is one      *)
(* region: thresholds of the map give regions.                               *)
THEOREM AlwaysClosed == Spec => []ContoursClosed
<1>1. Init => Nested /\ CornersOK
  BY InitNested
<1>2. IInv /\ IInv' /\ [Next]_vars /\ Nested /\ CornersOK => (Nested /\ CornersOK)'
  BY NestedStep, CornersStep
<1>3. Spec => [](Nested /\ CornersOK)
  BY <1>1, <1>2, Invariance, PTL DEF Spec
<1>4. IInv /\ Nested /\ CornersOK => ContoursClosed
  BY ClosedByClasses
<1> QED
  BY <1>3, <1>4, Invariance, PTL

-----------------------------------------------------------------------------
(* Merges join two regions that touch, and nothing else becomes of regions.  *)
LEMMA InitMerging == ASSUME Init PROVE Merging!Init
<1>1. elements = [c \in Labels |-> {c}] /\ Regions = Labels
  BY DEF Init, Regions
<1> QED
  BY <1>1 DEF Merging!Init

LEMMA StepMerging ==
  ASSUME IInv, [Next]_vars
  PROVE  [Merging!Next]_({elements[r] : r \in Regions})
<1>1. CASE Merge
  <2>1. PICK f \in Regions, s \in Regions : Joining(f, s)
    BY <1>1, MergeJoins
  <2>2. /\ UcmTypeOK /\ ElementsOK /\ Regions \subseteq Labels /\ f # s /\ Shared(f, s) # {}
        /\ Regions' = Regions \ {s}
    BY <2>1, JoinLabels DEF Joining, IInv
  <2>3. elements' = [elements EXCEPT ![f] = @ \union elements[s], ![s] = {}]
    BY <2>1 DEF Joining, MergeElements
  <2>4. /\ elements'[f] = elements[f] \union elements[s]
        /\ \A r \in Labels : r # f /\ r # s => elements'[r] = elements[r]
    BY <2>2, <2>3 DEF UcmTypeOK
  <2>5. \A r, n \in Regions : r # n => elements[r] # elements[n]
    <3>1. \A r \in Regions : r \in elements[r] /\ \A c \in elements[r] : labels[c] = r
      BY <2>2 DEF ElementsOK, Regions
    <3> QED
      BY <3>1
  <2>6. {elements'[r] : r \in Regions'}
          = ({elements[r] : r \in Regions} \ {elements[f], elements[s]})
              \union {elements[f] \union elements[s]}
    BY <2>2, <2>4, <2>5
  <2>7. Merging!Touch(elements[f], elements[s])
    <3>1. PICK cell \in Contours : Now(cell) = {f, s}
      BY <2>2 DEF Shared
    <3>2. PICK a \in Labels, b \in Labels :
            /\ a # b /\ Sides[cell] = {a, b}
            /\ [coord |-> cell, cc_neigh |-> b] \in Boundary[a]
            /\ [coord |-> cell, cc_neigh |-> a] \in Boundary[b]
            /\ Now(cell) = {labels[a], labels[b]}
            /\ labels[a] \in Regions /\ labels[b] \in Regions
      BY <2>2, NowFacts, Zenon
    <3>3. <<a, b>> \in Neighboring
      <4>1. [coord |-> cell, cc_neigh |-> b].cc_neigh = b
        OBVIOUS
      <4> QED
        BY <3>2, <4>1 DEF Neighboring
    <3>4. (a \in elements[f] /\ b \in elements[s]) \/ (a \in elements[s] /\ b \in elements[f])
      BY <2>2, <3>1, <3>2, Pairs DEF ElementsOK
    <3> QED
      BY <3>3, <3>4 DEF Merging!Touch
  <2>8. PICK A, B : A = elements[f] /\ B = elements[s]
    OBVIOUS
  <2>9. Merging!Touch(A, B) /\ A # B
    BY <2>2, <2>5, <2>7, <2>8
  <2>10. A \in {elements[r] : r \in Regions} /\ B \in {elements[r] : r \in Regions}
    BY <2>8
  <2>11. {elements'[r] : r \in Regions'}
           = ({elements[r] : r \in Regions} \ {A, B}) \union {A \union B}
    BY <2>6, <2>8
  <2>12. Merging!Merge(A, B)
    BY <2>9, <2>11 DEF Merging!Merge
  <2> QED
    BY <2>10, <2>12, Zenon DEF Merging!Next
<1>2. CASE Discard \/ Complete \/ UNCHANGED vars
  <2>1. elements' = elements /\ labels' = labels
    BY <1>2 DEF Discard, Complete, vars
  <2> QED
    BY <2>1 DEF Regions
<1> QED
  BY <1>1, <1>2 DEF Next

(* compute_ucm implements a segmenter that merges neighbouring regions.      *)
THEOREM MergesOnly == Spec => Merging!Spec
<1>1. Init => Merging!Init
  BY InitMerging
<1>2. IInv /\ [Next]_vars => [Merging!Next]_({elements[r] : r \in Regions})
  BY StepMerging
<1> QED
  BY <1>1, <1>2, Invariance, PTL DEF Spec, Merging!Spec
=============================================================================
