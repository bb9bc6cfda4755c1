-------------------------------- MODULE Ucm --------------------------------
(* The ultrametric contour map of gPb (src/segmentation/gpb: ucm_mean_pb.cpp): *)
(* compute_ucm joins the two neighbouring regions with the least average     *)
(* boundary strength between them, again and again, and writes into the map  *)
(* at which strength each piece of contour went.                             *)
(*                                                                           *)
(* The map is on the Khalimsky space of the image: the pixel x, y is the     *)
(* cell 2x+1, 2y+1, between neighbouring pixels lie their contours, between  *)
(* contours the corners.  An average is counted in 1/Unit, so that           *)
(* arithmetic is exact.                                                      *)
EXTENDS Integers, FiniteSetsExt, Functions

CONSTANTS tx, ty,               \* the size of the image
          initial_partition,    \* the region of each pixel
          Strengths,            \* what local_boundaries may be
          Unit                  \* a multiple of all lengths of boundaries

Pixels == (0 .. tx - 1) \X (0 .. ty - 1)

Cells == (0 .. 2 * tx) \X (0 .. 2 * ty)

(* A pixel and its four neighbours, and the cell between the two.            *)
Beside(v, u) == <<u[1] - v[1], u[2] - v[2]>> \in {<<1, 0>>, <<0, 1>>, <<-1, 0>>, <<0, -1>>}

Between(v, u) == <<v[1] + u[1] + 1, v[2] + u[2] + 1>>

Around == [cell \in Cells |-> {c \in Cells : Beside(cell, c)}]

Labels == {initial_partition[v] : v \in Pixels}

(* The boundary of each region, of elements that name a cell and the region  *)
(* behind it.                                                                *)
Boundary ==
  LET touching == {w \in Pixels \X Pixels : /\ Beside(w[1], w[2])
                                            /\ initial_partition[w[1]] # initial_partition[w[2]]}
  IN  [c \in Labels |->
         {[coord |-> Between(w[1], w[2]), cc_neigh |-> initial_partition[w[2]]] :
            w \in {t \in touching : initial_partition[t[1]] = c}}]

Contours == {e.coord : e \in UNION {Boundary[c] : c \in Labels}}

(* A single region would have no boundary to begin with, and compute_ucm     *)
(* reads the first element of each.                                          *)
ASSUME UcmAssumption ==
  /\ tx \in Nat \ {0} /\ ty \in Nat \ {0}
  /\ initial_partition \in [Pixels -> Nat]
  /\ \A c \in Labels : Boundary[c] # {}
  /\ Strengths \subseteq [Contours -> Nat]
  /\ Unit \in Nat \ {0} /\ \A n \in 1 .. Cardinality(Contours) : Unit % n = 0

VARIABLES
  local_boundaries, \* the strength of each contour
  labels,           \* the region that each initial region has gone to
  elements,         \* R[c].elements
  boundary,         \* R[c].boundary
  neighbors,        \* R[c].neighbors, a map
  merging_queue,    \* equal entries count once
  current_energy,
  ucm,
  stage             \* "merge", "done", or "error": "THIS IS NOT AN ULTRAMETRIC"

vars == <<local_boundaries, labels, elements, boundary, neighbors,
          merging_queue, current_energy, ucm, stage>>

Average(total, length) == (total * Unit) \div length

Neighbor_Region(total, length) ==
  [energy |-> Average(total, length), total_pb |-> total, bdry_length |-> length]

Order_node(e, r, s) == [energy |-> e, region1 |-> r, region2 |-> s]

NeighborsOf(c) ==
  [n \in {e.cc_neigh : e \in Boundary[c]} |->
     LET shared == {e.coord : e \in {b \in Boundary[c] : b.cc_neigh = n}}
     IN  Neighbor_Region(SumFunctionOnSet(local_boundaries, shared), Cardinality(shared))]

Init == /\ local_boundaries \in Strengths
        /\ labels = [c \in Labels |-> c]
        /\ elements = [c \in Labels |-> {c}]
        /\ boundary = Boundary
        /\ neighbors = [c \in Labels |-> NeighborsOf(c)]
        /\ merging_queue =
             UNION {{Order_node(neighbors[c][n].energy, c, n) :
                       n \in {m \in DOMAIN neighbors[c] : m > c}} : c \in Labels}
        /\ current_energy = 0
        /\ ucm = [cell \in Cells |-> 0]
        /\ stage = "merge"
-----------------------------------------------------------------------------
(* The order of the queue: energy, then the labels.                          *)
Before(m, n) ==
  \/ m.energy < n.energy
  \/ m.energy = n.energy /\ m.region1 < n.region1
  \/ m.energy = n.energy /\ m.region1 = n.region1 /\ m.region2 <= n.region2

minor == CHOOSE m \in merging_queue : \A n \in merging_queue : Before(m, n)

(* An entry stands for two regions that there still are, and for the energy  *)
(* they have now; entries of the past stay in the queue.                     *)
Current(m) == /\ labels[m.region1] = m.region1
              /\ labels[m.region2] = m.region2
              /\ m.energy = neighbors[m.region1][m.region2].energy

Discard == /\ stage = "merge" /\ merging_queue # {}
           /\ ~ Current(minor)
           /\ merging_queue' = merging_queue \ {minor}
           /\ UNCHANGED <<local_boundaries, labels, elements, boundary, neighbors,
                          current_energy, ucm, stage>>

(* Variant with a bug: the father's own boundary is left as it is.           *)
MergeBoundary_KeepInner(father, son, saliency) ==
  /\ boundary' = [boundary EXCEPT
       ![father] = @ \union {e \in boundary[son] : labels[e.cc_neigh] # father},
       ![son] = {}]
  /\ ucm' = [cell \in Cells |->
               IF cell \in {e.coord : e \in boundary[son]} /\ ucm[cell] < saliency
               THEN saliency ELSE ucm[cell]]

(* Region::merge, parts I and II: the son's contours are raised to the       *)
(* saliency, and what is inside now leaves the boundary.                     *)
MergeBoundary(father, son, saliency) ==
  /\ boundary' = [boundary EXCEPT
       ![father] = {e \in @ : labels[e.cc_neigh] # son}
                     \union {e \in boundary[son] : labels[e.cc_neigh] # father},
       ![son] = {}]
  /\ ucm' = [cell \in Cells |->
               IF cell \in {e.coord : e \in boundary[son]} /\ ucm[cell] < saliency
               THEN saliency ELSE ucm[cell]]

MergeElements(father, son) ==
  /\ labels' = [c \in Labels |-> IF c \in elements[son] THEN father ELSE labels[c]]
  /\ elements' = [elements EXCEPT ![father] = @ \union elements[son], ![son] = {}]

Active(nb) == {n \in DOMAIN nb : labels'[n] = n}

(* Variants with a bug: = for +=; a boundary counts as one contour.          *)
Total_Replaced(nb, n) == 0

Length_One(nb, n) == IF n \in DOMAIN nb THEN 1 ELSE 0

Total(nb, n) == IF n \in DOMAIN nb THEN nb[n].total_pb ELSE 0

Length(nb, n) == IF n \in DOMAIN nb THEN nb[n].bdry_length ELSE 0

(* Part III, and how compute_ucm goes on: the son's neighbours become the    *)
(* father's, and both sides of each boundary of the father get the new       *)
(* average.                                                                  *)
MergeNeighbors(father, son) ==
  LET own   == Active(neighbors[father])
      moved == Active(neighbors[son]) \ {father}
      Joined(r, n, m) ==
        Neighbor_Region(
          Total(neighbors[r], n) + (IF m \in moved THEN neighbors[son][m].total_pb ELSE 0),
          Length(neighbors[r], n) + (IF m \in moved THEN neighbors[son][m].bdry_length ELSE 0))
  IN  /\ neighbors' =
           [r \in Labels |->
              IF r = father THEN [n \in own \union moved |-> Joined(father, n, n)]
              ELSE IF r = son THEN << >>
              ELSE IF r \in own \union moved
              THEN [n \in DOMAIN neighbors[r] \union {father} |->
                      IF n = father THEN Joined(r, father, r) ELSE neighbors[r][n]]
              ELSE neighbors[r]]
      /\ merging_queue' =
           (merging_queue \ {minor})
             \union {Order_node(neighbors'[father][n].energy, n, father) :
                       n \in own \union moved}

Join(father, son, toSon) ==
  /\ MergeBoundary(father, son, Average(toSon.total_pb, toSon.bdry_length))
  /\ MergeElements(father, son)
  /\ MergeNeighbors(father, son)
  /\ current_energy' = minor.energy
  /\ UNCHANGED stage

NotUltrametric ==
  /\ stage' = "error"
  /\ UNCHANGED <<labels, elements, boundary, neighbors, merging_queue,
                 current_energy, ucm>>

Merge == /\ stage = "merge" /\ merging_queue # {}
         /\ Current(minor)
         /\ IF current_energy <= minor.energy
            THEN Join(Max({minor.region1, minor.region2}),
                      Min({minor.region1, minor.region2}),
                      neighbors[minor.region1][minor.region2])
            ELSE NotUltrametric
         /\ UNCHANGED local_boundaries

(* Variant with a bug: the corners are left at 0.                            *)
Complete_NoCorners ==
  /\ stage = "merge" /\ merging_queue = {}
  /\ stage' = "done"
  /\ UNCHANGED <<local_boundaries, labels, elements, boundary, neighbors,
                 merging_queue, current_energy, ucm>>

(* complete_contour_map: a corner is as strong as its strongest contour.     *)
Complete ==
  /\ stage = "merge" /\ merging_queue = {}
  /\ ucm' = [cell \in Cells |->
               IF cell[1] % 2 = 0 /\ cell[2] % 2 = 0
               THEN Max({ucm[c] : c \in Around[cell]})
               ELSE ucm[cell]]
  /\ stage' = "done"
  /\ UNCHANGED <<local_boundaries, labels, elements, boundary, neighbors,
                 merging_queue, current_energy>>

Next == Discard \/ Merge \/ Complete

Spec == Init /\ [][Next]_vars
-----------------------------------------------------------------------------
Regions == {c \in Labels : labels[c] = c}

(* The two initial regions beside a contour, and the regions these are in.   *)
Sides == [cell \in Contours |->
            {c \in Labels : cell \in {e.coord : e \in Boundary[c]}}]

Now(cell) == {labels[c] : c \in Sides[cell]}

(* "BUG: THIS IS NOT AN ULTRAMETRIC !!!": the energies of the merges never   *)
(* fall, although each merge makes new boundaries and entries of the past    *)
(* are left in the queue.                                                    *)
Ultrametric == stage # "error"

(* The contours between two regions, and what a map has to say of them.      *)
Shared(r, s) == {cell \in Contours : Now(cell) = {r, s}}

Exact(r, s) == Neighbor_Region(SumFunctionOnSet(local_boundaries, Shared(r, s)),
                               Cardinality(Shared(r, s)))

(* What is kept of the boundary between two regions is what there is of it   *)
(* in the image: both regions know its length and its strength, and as long  *)
(* as there is one the queue has an entry for it.                            *)
AveragesExact ==
  \A r, s \in Regions : r # s =>
    IF Shared(r, s) = {} THEN s \notin DOMAIN neighbors[r]
    ELSE /\ s \in DOMAIN neighbors[r] /\ neighbors[r][s] = Exact(r, s)
         /\ {Order_node(Exact(r, s).energy, r, s), Order_node(Exact(r, s).energy, s, r)}
              \intersect merging_queue # {}

(* A contour gets its place in the hierarchy once, at the merge that joins   *)
(* its two sides, and keeps it, although the merges before and after raise   *)
(* every contour around a son.                                               *)
LevelsFinal ==
  [][\A cell \in Contours :
       /\ Cardinality(Now(cell)) = 1 => ucm'[cell] = ucm[cell]
       /\ Cardinality(Now(cell)) = 2 /\ Cardinality(Now(cell)') = 1 =>
            ucm'[cell] = current_energy']_vars

(* The cells one can walk to from a cell without crossing one of a strength. *)
Reached(from, level) ==
  LET grow[w \in (SUBSET Cells) \X (SUBSET Cells)] ==
        LET more == {c \in UNION {Around[cell] : cell \in w[2]} : ucm[c] < level} \ w[1]
        IN  IF more = {} THEN w[1] ELSE grow[<<w[1] \union more, more>>]
  IN  grow[<<{from}, {from}>>]

(* The map is one of closed contours at every strength: to get from one side *)
(* of a contour to the other one has to cross contours or corners at least   *)
(* as strong, be it around the edge of the image; and one region is left.    *)
ContoursClosed ==
  stage = "done" =>
    /\ Cardinality(Regions) = 1
    /\ \A cell \in {c \in Contours : ucm[c] > 0} :
         LET sides == {c \in Around[cell] : c[1] % 2 = 1 /\ c[2] % 2 = 1}
         IN  \A c, d \in sides : c[1] + c[2] < d[1] + d[2] => d \notin Reached(c, ucm[cell])
-----------------------------------------------------------------------------
(* What compute_ucm does to the regions is what a segmenter that merges      *)
(* does, with the initial regions for pixels.                                *)
Neighboring == {w \in Labels \X Labels : \E e \in Boundary[w[1]] : e.cc_neigh = w[2]}

Merging == INSTANCE RegionMerging WITH Pixels <- Labels, Touching <- Neighboring,
                                       regions <- {elements[r] : r \in Regions}

-----------------------------------------------------------------------------
UcmTypeOK ==
  /\ local_boundaries \in Strengths
  /\ labels \in [Labels -> Labels]
  /\ elements \in [Labels -> SUBSET Labels]
  /\ boundary \in [Labels -> SUBSET [coord : Contours, cc_neigh : Labels]]
  /\ \A r \in Labels : DOMAIN neighbors[r] \subseteq Labels \ {r}
  /\ merging_queue \subseteq [energy : Nat, region1 : Labels, region2 : Labels]
  /\ current_energy \in Nat
  /\ ucm \in [Cells -> Nat]
  /\ stage \in {"merge", "done", "error"}

(* The initial regions of a region, and its contours: those of them behind   *)
(* which there is another region.                                            *)
ElementsOK == /\ \A c \in Labels : labels[labels[c]] = labels[c]
              /\ \A r \in Labels : elements[r] = {c \in Labels : labels[c] = r}

BoundaryOK ==
  \A r \in Regions :
    boundary[r] = {e \in UNION {Boundary[c] : c \in elements[r]} : labels[e.cc_neigh] # r}

(* Two regions of an entry are neighbours as long as there are both.         *)
QueueOK ==
  \A m \in merging_queue :
    /\ m.region1 # m.region2
    /\ m.region1 \in Regions /\ m.region2 \in Regions => Shared(m.region1, m.region2) # {}

(* No boundary is left that is weaker than the last merge, and no contour is *)
(* in the map with more.                                                     *)
WeakerGone ==
  \A r, s \in Regions : r # s /\ Shared(r, s) # {} => current_energy <= Exact(r, s).energy

LevelsReached == \A cell \in Cells : ucm[cell] <= current_energy

IInv == /\ UcmTypeOK /\ ElementsOK /\ BoundaryOK /\ QueueOK /\ WeakerGone /\ LevelsReached
        /\ Ultrametric /\ AveragesExact
=============================================================================
