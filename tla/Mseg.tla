-------------------------------- MODULE Mseg --------------------------------
(* mseg, the graph-based segmenter of src/segmentation/mseg: segment_image   *)
(* builds the graph of the pixels and their neighbours, segment_graph joins  *)
(* components along the edges from the lightest to the heaviest, a second    *)
(* pass joins the components that are too small, and the labels of the       *)
(* pixels are read from the disjoint-set forest.                             *)
(*                                                                           *)
(* A grey image after smoothing is the input; a weight is then the           *)
(* difference of two levels (times the square root of 3, which the unit of   *)
(* ScaleC absorbs), and a threshold w + c/size is kept as the pair of w and  *)
(* size, so that arithmetic is exact.                                        *)
EXTENDS Integers, Sequences, FiniteSets

CONSTANTS Width, Height,    \* of the image
          Images,           \* the images to segment, [Pixels -> Nat]
          ScaleC,           \* c, constant of the threshold function
          MinSize           \* min_size, the smallest component to leave

Pixels == 0 .. Width * Height - 1

Pixel(x, y) == y * Width + x

(* The edges segment_image builds: to the right, down, and both diagonals.   *)
Edges == {e \in Pixels \X Pixels :
            \E x \in 0 .. Width - 1, y \in 0 .. Height - 1 :
              /\ e[1] = Pixel(x, y)
              /\ \/ x < Width - 1 /\ e[2] = Pixel(x + 1, y)
                 \/ y < Height - 1 /\ e[2] = Pixel(x, y + 1)
                 \/ x < Width - 1 /\ y < Height - 1 /\ e[2] = Pixel(x + 1, y + 1)
                 \/ x < Width - 1 /\ y > 0 /\ e[2] = Pixel(x + 1, y - 1)}

ASSUME MsegAssumption == /\ Width \in Nat \ {0}
                         /\ Height \in Nat \ {0}
                         /\ Images \subseteq [Pixels -> Nat]
                         /\ ScaleC \in Nat
                         /\ MinSize \in Nat

VARIABLES
  image,            \* the smoothed image
  p, rank, size,    \* elts, the disjoint-set forest
  num,              \* its number of sets
  threshold,        \* of the component of each root, as a pair w, size
  order,            \* the edges as sorted, as far as they have been looked at
  stage,            \* which of the loops of segment_image runs
  i,                \* how many edges, or pixels, that loop has taken
  pc, x, y, for,    \* what runs in its body; the variables of find, and
                    \* whose result it is
  a, b,             \* the components at the ends of the edge
  output,           \* the component of each pixel, as painted
  part              \* history: the component of each pixel as a set

forest == <<p, rank, size, num, part>>
vars == <<image, p, rank, size, num, threshold, order, stage, i, pc, x, y,
          for, a, b, output, part>>

Weight(e) == IF image[e[1]] < image[e[2]] THEN image[e[2]] - image[e[1]]
                                          ELSE image[e[1]] - image[e[2]]

(* w <= t.w + c / t.size *)
Within(w, t) == (w - t.w) * t.size <= ScaleC

Remaining == Edges \ {order[k] : k \in 1 .. Len(order)}

edge == order[i]

Init == /\ image \in Images
        /\ p = [v \in Pixels |-> v]
        /\ rank = [v \in Pixels |-> 0]
        /\ size = [v \in Pixels |-> 1]
        /\ num = Width * Height
        /\ threshold = [v \in Pixels |-> [w |-> 0, size |-> 1]]
        /\ order = <<>>
        /\ stage = "segment"
        /\ i = 0
        /\ pc = "next"
        /\ x = 0 /\ y = 0 /\ for = "a"
        /\ a = 0 /\ b = 0
        /\ output = [v \in Pixels |-> 0]
        /\ part = [v \in Pixels |-> {v}]
-----------------------------------------------------------------------------
(* find is a loop: it climbs to the root and makes it the parent of x.       *)
Find(v, who) == pc' = "find" /\ x' = v /\ y' = v /\ for' = who

Climb == /\ pc = "find"
         /\ y # p[y]
         /\ y' = p[y]
         /\ UNCHANGED <<image, forest, threshold, order, stage, i, pc, x, for,
                        a, b, output>>

Found(who) == /\ pc = "find" /\ for = who
              /\ y = p[y]
              /\ p' = [p EXCEPT ![x] = y]
              /\ UNCHANGED <<rank, size, num, part>>

(* join links the root of the lower rank below the other.                    *)
Link(child, root) ==
  /\ p' = [p EXCEPT ![child] = root]
  /\ size' = [size EXCEPT ![root] = size[root] + size[child]]
  /\ num' = num - 1
  /\ part' = [v \in Pixels |-> IF v \in part[a] \union part[b]
                                  THEN part[a] \union part[b] ELSE part[v]]

Join == \/ rank[a] > rank[b] /\ Link(b, a) /\ UNCHANGED rank
        \/ rank[a] = rank[b] /\ Link(a, b) /\ rank' = [rank EXCEPT ![b] = rank[b] + 1]
        \/ rank[a] < rank[b] /\ Link(a, b) /\ UNCHANGED rank
-----------------------------------------------------------------------------
(* segment_graph takes the edges by weight; which of two equal ones comes    *)
(* first is the library's choice.                                            *)
TakeLightest ==
  /\ stage = "segment" /\ pc = "next"
  /\ \E e \in Remaining :
       /\ \A f \in Remaining : Weight(e) <= Weight(f)
       /\ order' = Append(order, e)
       /\ Find(e[1], "a")
  /\ i' = i + 1
  /\ UNCHANGED <<image, forest, threshold, stage, a, b, output>>

(* Variant with a bug: the first end is that of the edge before.             *)
TakeSorted_EdgeBefore ==
  /\ stage = "small" /\ pc = "next"
  /\ i < Len(order)
  /\ i' = i + 1
  /\ Find(order[IF i = 0 THEN 1 ELSE i][1], "a")
  /\ UNCHANGED <<image, forest, threshold, order, stage, a, b, output>>

(* The second pass goes over the edges again, in the order they were sorted. *)
TakeSorted == /\ stage = "small" /\ pc = "next"
              /\ i < Len(order)
              /\ i' = i + 1
              /\ Find(order[i'][1], "a")
              /\ UNCHANGED <<image, forest, threshold, order, stage, a, b, output>>

FoundA == /\ Found("a")
          /\ a' = y
          /\ Find(edge[2], "b")
          /\ UNCHANGED <<image, threshold, order, stage, i, b, output>>

FoundB == /\ Found("b")
          /\ b' = y
          /\ pc' = "test"
          /\ UNCHANGED <<image, threshold, order, stage, i, x, y, for, a, output>>

(* Variant with a bug: only one of the two thresholds is asked.              *)
MayJoin_OneSide == a # b /\ Within(Weight(edge), threshold[a])

MayJoin == /\ a # b
           /\ Within(Weight(edge), threshold[a])
           /\ Within(Weight(edge), threshold[b])

JoinLight == /\ stage = "segment" /\ pc = "test"
             /\ MayJoin
             /\ Join
             /\ Find(a, "joined")
             /\ UNCHANGED <<image, threshold, order, stage, i, a, b, output>>

(* a = u->find(a) and the new threshold of its component *)
FoundJoined ==
  /\ Found("joined")
  /\ a' = y
  /\ threshold' = [threshold EXCEPT ![y] = [w |-> Weight(edge), size |-> size[y]]]
  /\ pc' = "next"
  /\ UNCHANGED <<image, order, stage, i, x, y, for, b, output>>

(* Variant with a bug: both components have to be small.                     *)
TooSmall_Both == a # b /\ size[a] < MinSize /\ size[b] < MinSize

TooSmall == a # b /\ (size[a] < MinSize \/ size[b] < MinSize)

JoinSmall == /\ stage = "small" /\ pc = "test"
             /\ TooSmall
             /\ Join
             /\ pc' = "next"
             /\ UNCHANGED <<image, threshold, order, stage, i, x, y, for, a, b,
                            output>>

LeaveApart == /\ pc = "test"
              /\ \/ stage = "segment" /\ ~MayJoin
                 \/ stage = "small" /\ ~TooSmall
              /\ pc' = "next"
              /\ UNCHANGED <<image, forest, threshold, order, stage, i, x, y, for,
                             a, b, output>>

EndPass == /\ pc = "next"
           /\ \/ stage = "segment" /\ Remaining = {} /\ stage' = "small"
              \/ stage = "small" /\ i = Len(order) /\ stage' = "paint"
              \/ stage = "paint" /\ i = Width * Height /\ stage' = "done"
           /\ i' = 0
           /\ UNCHANGED <<image, forest, threshold, order, pc, x, y, for, a, b,
                          output>>

(* The pixels are painted one after the other, each with one more find.      *)
TakePixel == /\ stage = "paint" /\ pc = "next"
             /\ i < Width * Height
             /\ i' = i + 1
             /\ Find(i, "pixel")
             /\ UNCHANGED <<image, forest, threshold, order, stage, a, b, output>>

(* Variant with a bug: the label is the parent, not what find returns.       *)
FoundPixel_Parent == /\ Found("pixel")
                     /\ output' = [output EXCEPT ![x] = p[x]]
                     /\ pc' = "next"
                     /\ UNCHANGED <<image, threshold, order, stage, i, x, y, for, a, b>>

FoundPixel == /\ Found("pixel")
              /\ output' = [output EXCEPT ![x] = y]
              /\ pc' = "next"
              /\ UNCHANGED <<image, threshold, order, stage, i, x, y, for, a, b>>

Next == \/ TakeLightest \/ TakeSorted \/ TakePixel \/ EndPass
        \/ Climb \/ FoundA \/ FoundB \/ FoundJoined \/ FoundPixel
        \/ JoinLight \/ JoinSmall \/ LeaveApart

Spec == Init /\ [][Next]_vars
-----------------------------------------------------------------------------
Regions == {part[v] : v \in Pixels}

Root(v) == p[v] = v

TypeOK == /\ image \in Images
          /\ p \in [Pixels -> Pixels]
          /\ rank \in [Pixels -> Nat]
          /\ size \in [Pixels -> Nat]
          /\ num \in Int
          /\ threshold \in [Pixels -> [w : Nat, size : Nat \ {0}]]
          /\ order \in Seq(Edges)
          /\ stage \in {"segment", "small", "paint", "done"}
          /\ i \in Nat
          /\ pc \in {"next", "find", "test"}
          /\ x \in Pixels /\ y \in Pixels
          /\ for \in {"a", "b", "joined", "pixel"}
          /\ a \in Pixels /\ b \in Pixels
          /\ output \in [Pixels -> Pixels]
          /\ part \in [Pixels -> SUBSET Pixels]

(* What find and join keep true of the forest: it is a partition of the      *)
(* pixels, with one root to a part that holds the part's size, and ranks     *)
(* grow on the way to it, so that find ends.                                 *)
ForestOK ==
  /\ \A v \in Pixels : v \in part[v]
  /\ \A u, v \in Pixels : u \in part[v] => part[u] = part[v]
  /\ \A v \in Pixels : part[p[v]] = part[v]
  /\ \A u, v \in Pixels : Root(u) /\ Root(v) /\ part[u] = part[v] => u = v
  /\ \A v \in Pixels : ~ Root(v) => rank[v] < rank[p[v]]
  /\ \A v \in Pixels : Root(v) => size[v] = Cardinality(part[v])
  /\ num = Cardinality({v \in Pixels : Root(v)})
-----------------------------------------------------------------------------
(* find climbs within the component of its argument, and each result is the  *)
(* root of the component it was asked for.                                   *)
CallOK ==
  /\ pc = "find" => part[y] = part[x] /\ (x = y \/ rank[x] < rank[y])
  /\ stage = "segment" => i = Len(order)
  /\ stage = "small" => i <= Len(order)
  /\ stage = "paint" => i <= Width * Height
  /\ stage \in {"paint", "done"} => pc = "next" \/ (pc = "find" /\ for = "pixel")
  /\ stage \in {"segment", "small"} /\ pc # "next" => i > 0 /\ for # "pixel"
  /\ stage = "done" => pc = "next"
  /\ pc = "find" /\ for = "a" => x = edge[1]
  /\ pc = "find" /\ for = "b" => x = edge[2] /\ Root(a) /\ part[a] = part[edge[1]]
  /\ pc = "find" /\ for = "joined" =>
       /\ stage = "segment"
       /\ part[x] = part[edge[1]] /\ part[edge[1]] = part[edge[2]]
       /\ \A r \in Pixels : Root(r) /\ part[r] = part[x] =>
                              Within(Weight(edge), threshold[r])
  /\ pc = "find" /\ for = "pixel" => stage = "paint" /\ i = x + 1
  /\ pc = "test" => /\ stage \in {"segment", "small"}
                    /\ Root(a) /\ part[a] = part[edge[1]]
                    /\ Root(b) /\ part[b] = part[edge[2]]

(* Edge k has been dealt with by the loop that runs.                         *)
DealtWith(k) == k < i \/ (k = i /\ pc = "next")

(* The edges came by weight, and none is left when the first pass is over.   *)
Sorted ==
  /\ \A j, k \in 1 .. Len(order) : j < k => Weight(order[j]) <= Weight(order[k])
  /\ \A k \in 1 .. Len(order), e \in Remaining : Weight(order[k]) <= Weight(e)
  /\ stage # "segment" => Remaining = {}

(* The reason two components stay apart: an edge between them that has been  *)
(* dealt with is beyond the threshold of one of the two as it stands.        *)
KeptApart ==
  stage = "segment" =>
    \A k \in 1 .. Len(order), r, s \in Pixels :
      /\ DealtWith(k)
      /\ Root(r) /\ part[r] = part[order[k][1]]
      /\ Root(s) /\ part[s] = part[order[k][2]]
      /\ r # s
      => \/ ~ Within(Weight(order[k]), threshold[r])
         \/ ~ Within(Weight(order[k]), threshold[s])

(* A component that is too small loses to the first edge that leaves it.     *)
SmallJoined ==
  stage \in {"small", "paint", "done"} =>
    \A k \in 1 .. Len(order) :
      (DealtWith(k) \/ stage # "small") /\ part[order[k][1]] # part[order[k][2]]
      => \A v \in {1, 2} : Cardinality(part[order[k][v]]) >= MinSize

Painted ==
  /\ stage = "paint" => \A v \in Pixels :
       (v + 1 < i \/ (v + 1 = i /\ pc = "next")) =>
          Root(output[v]) /\ part[output[v]] = part[v]
  /\ stage = "done" => \A v \in Pixels : Root(output[v]) /\ part[output[v]] = part[v]

(* The inductive invariant.                                                  *)
IInv == /\ TypeOK /\ ForestOK /\ CallOK /\ Sorted
        /\ KeptApart /\ SmallJoined /\ Painted

-----------------------------------------------------------------------------
(* The two measures of the paper that the README of mseg names: Internal(C)  *)
(* is the weight that is needed to hold component C together, and two        *)
(* components have a boundary between them when every edge from one to the   *)
(* other is heavier than what holds one of them together, plus c over its    *)
(* size.                                                                     *)
HeldTogether(C, w) ==
  \A S \in (SUBSET C) \ {{}, C} :
    \E e \in Edges : /\ Weight(e) <= w
                     /\ {e[1], e[2]} \subseteq C
                     /\ (e[1] \in S) # (e[2] \in S)

Weights == {0} \union {Weight(e) : e \in Edges}

Internal(C) == CHOOSE w \in Weights :
                 /\ HeldTogether(C, w)
                 /\ \A v \in Weights : HeldTogether(C, v) => w <= v

InOnePiece(C) == \E w \in Weights : HeldTogether(C, w)

Boundary(C, D) ==
  \A e \in Edges : (e[1] \in C /\ e[2] \in D) \/ (e[1] \in D /\ e[2] \in C) =>
    \/ ~ Within(Weight(e), [w |-> Internal(C), size |-> Cardinality(C)])
    \/ ~ Within(Weight(e), [w |-> Internal(D), size |-> Cardinality(D)])

TooFine(R) == \E C, D \in R : C # D /\ ~ Boundary(C, D)

Partitions == {{{v \in Pixels : f[v] = k} : k \in {f[v] : v \in Pixels}} :
                 f \in [Pixels -> Pixels]}

Refines(P, R) == \A C \in P : (\E D \in R : C \subseteq D) /\ InOnePiece(C)

(* What the paper proves of segment_graph: its result is neither too fine (a *)
(* pair of components has no boundary) nor too coarse (a finer segmentation  *)
(* would not have been too fine), whatever order equal edges are taken in.   *)
AsInThePaper ==
  stage = "small" /\ i = 0 /\ pc = "next" =>
    /\ \A C \in Regions : InOnePiece(C)
    /\ ~ TooFine(Regions)
    /\ \A P \in Partitions : Refines(P, Regions) /\ P # Regions => TooFine(P)

(* C is held together by w, and by no less.                                  *)
HeldBy(C, w) == /\ w \in Weights /\ HeldTogether(C, w)
                /\ \A v \in Weights : HeldTogether(C, v) => w <= v

(* The component of root r has just been formed, with its threshold to come. *)
Joining(r) == pc = "find" /\ for = "joined" /\ part[r] = part[x]

(* A threshold is what the paper makes of its component: Internal, which is  *)
(* the weight of the last edge that joined it, and the size.                 *)
ThresholdsOK ==
  stage = "segment" =>
    \A r \in Pixels : Root(r) =>
      /\ threshold[r].w = 0 \/ \E k \in 1 .. Len(order) : threshold[r].w = Weight(order[k])
      /\ Joining(r) => HeldBy(part[r], Weight(edge))
      /\ ~ Joining(r) => /\ HeldBy(part[r], threshold[r].w)
                         /\ threshold[r].size = Cardinality(part[r])

Leaves(e, A) == (e[1] \in A /\ e[2] \notin A) \/ (e[1] \notin A /\ e[2] \in A)

(* Component r will join no more: an edge was too heavy for it.              *)
Finished(r) == \E k \in 1 .. Len(order) : ~ Within(Weight(order[k]), threshold[r])

(* For a set A of pixels held together by w there are three ways: it is made *)
(* of whole components; or it was left by an edge that A would have taken as *)
(* a component; or some component inside it will never join the others.      *)
WaysOut ==
  stage = "segment" =>
    \A A \in (SUBSET Pixels) \ {{}}, w \in Weights : HeldTogether(A, w) =>
      \/ \A v \in A : part[v] \subseteq A
      \/ \E e \in Edges : /\ Leaves(e, A) /\ part[e[1]] = part[e[2]]
                         /\ Within(Weight(e), [w |-> w, size |-> Cardinality(A)])
      \/ \E r \in A : Root(r) /\ part[r] \subseteq A /\ part[r] # A /\ Finished(r)

(* All that is known of the measures, until the first pass is over and then. *)
PaperOK == ThresholdsOK /\ WaysOut /\ AsInThePaper

(* segment_image's second pass goes over each edge once and leaves no small  *)
(* component, although joining makes others of their neighbours: one of      *)
(* fewer than min_size pixels has no neighbour left to join.                 *)
NoSmallRegionLeft ==
  stage \in {"paint", "done"} =>
    \A v \in Pixels : \/ Cardinality(part[v]) >= MinSize
                      \/ \A e \in Edges : e[1] \in part[v] <=> e[2] \in part[v]

(* In the end two pixels have the same label exactly if they are in the same *)
(* component, and *num_ccs is how many labels there are.                     *)
LabelsAreRegions ==
  stage = "done" =>
    /\ \A u, v \in Pixels : output[u] = output[v] <=> part[u] = part[v]
    /\ num = Cardinality({output[v] : v \in Pixels})

(* Segmenting is merging of regions that touch, in both passes.              *)
Merging == INSTANCE RegionMerging WITH regions <- Regions, Touching <- Edges

MergesRegions == Merging!Spec
=============================================================================
