----------------------------- MODULE MeanShift -----------------------------
(* The region part of EDISON's mean shift segmenter (src/segmentation/       *)
(* meanshift, msImageProcessor.cpp): Connect labels the filtered image by    *)
(* filling, Segment joins neighbouring regions of like modes by              *)
(* TransitiveClosure and then prunes the regions that are too small.         *)
(*                                                                           *)
(* The image has one channel and is what Filter leaves in LUV_data; a mode   *)
(* is an average and is kept as the pair of its sum and its weight, the      *)
(* region's point count, so that arithmetic is exact.                        *)
EXTENDS Integers, SequencesExt

CONSTANTS Width, Height,    \* of the image
          Images,           \* the filtered images, [Pixels -> Nat]
          Threshold,        \* LUV_treshold: pixels closer than this are alike
          Window,           \* modes closer than this are within the window:
                            \* h[1] * offset[1] / 2
          Bright,           \* above this level the window is half as wide
          MinRegions,       \* what the least area of a region may be
          Rounds            \* how often Segment's loop runs at most

Size == Width * Height
Pixels == 0 .. Size - 1

ASSUME MeanShiftAssumption ==
  /\ Width \in Nat /\ Width >= 3 /\ Height \in Nat \ {0}
  /\ Images \subseteq [Pixels -> Nat]
  /\ {Threshold, Window, Bright, Rounds} \union MinRegions \subseteq Nat

VARIABLES
  luv,          \* LUV_data
  minRegion,    \* the least area of a region
  labels,       \* the region of each pixel, -1 for none
  total,        \* modes, times the count, of each region
  count,        \* modePointCounts
  regionCount,
  canon,        \* raList[r].label: the way to region r's canonical element
  stage,        \* "connect", "closure", "prune", "done" or "crash"
  i,            \* the pixel or region of the loop that runs
  table,        \* indexTable up to index, while Fill runs
  todo,         \* the neighbours of region i that are left
  small,        \* minRegionCount
  counter,      \* how many closures there have been
  oldCount,     \* oldRC
  before        \* history: labels, totals and counts before this closure

input == <<luv, minRegion>>

vars == <<input, labels, total, count, regionCount, canon, stage, i, table, todo,
          small, counter, oldCount, before>>

Init == /\ luv \in Images
        /\ minRegion \in MinRegions
        /\ labels = [v \in Pixels |-> -1]
        /\ total = [r \in Pixels |-> 0]
        /\ count = [r \in Pixels |-> 0]
        /\ regionCount = 0
        /\ canon = [r \in Pixels |-> r]
        /\ stage = "connect"
        /\ i = 0
        /\ table = <<>>
        /\ todo = {}
        /\ small = 0
        /\ counter = 0
        /\ oldCount = 0
        /\ before = [labels |-> labels, total |-> total, count |-> count]
-----------------------------------------------------------------------------
Distance(a, b) == IF a < b THEN b - a ELSE a - b

(* The eight neighbours by their offsets.  The ends of a row are not         *)
(* checked: the first pixel of the next row counts as a neighbour.           *)
neigh == <<1, 1 - Width, -Width, -(1 + Width), -1, Width - 1, Width, Width + 1>>

Alike(u, v) == Distance(luv[u], luv[v]) < Threshold

(* Variant with a bug: the last pixel is out of bounds.                      *)
Takes_NotTheLast(v, u) == u \in Pixels /\ u < Size - 1 /\ labels[u] < 0 /\ Alike(v, u)

(* Fill takes a neighbour u of v that is alike and not labelled yet.         *)
Takes(v, u) == u \in Pixels /\ labels[u] < 0 /\ Alike(v, u)

(* The neighbours of v that Fill takes, in the order of neigh.               *)
Found(v) ==
  LET found[k \in 0 .. 8] ==
        IF k = 0 THEN <<>>
        ELSE IF Takes(v, v + neigh[k]) THEN Append(found[k - 1], v + neigh[k])
        ELSE found[k - 1]
  IN  found[8]

(* Connect goes over the pixels; one without a label seeds a new region,     *)
(* whose mode is its colour.                                                 *)
Seed == /\ stage = "connect" /\ table = <<>>
        /\ i < Size
        /\ labels[i] < 0
        /\ labels' = [labels EXCEPT ![i] = regionCount]
        /\ count' = [count EXCEPT ![regionCount] = 1]
        /\ table' = <<i>>
        /\ UNCHANGED <<input, total, regionCount, canon, stage, i, todo, small,
                       counter, oldCount, before>>

Labelled == /\ stage = "connect" /\ table = <<>>
            /\ i < Size
            /\ labels[i] >= 0
            /\ i' = i + 1
            /\ UNCHANGED <<input, labels, total, count, regionCount, canon, stage,
                           table, todo, small, counter, oldCount, before>>

(* Variant with a bug: the region counts one pixel for each step.            *)
FillOn_CountOne ==
  LET found == Found(Last(table)) IN
  /\ table # <<>> /\ found # <<>>
  /\ labels' = [v \in Pixels |-> IF v \in Range(found) THEN regionCount ELSE labels[v]]
  /\ count' = [count EXCEPT ![regionCount] = @ + 1]
  /\ table' = table \o found
  /\ UNCHANGED <<input, total, regionCount, canon, stage, i, todo, small, counter,
                 oldCount, before>>

(* Fill: label the neighbours found and go on from the last of them.         *)
FillOn == LET found == Found(Last(table)) IN
          /\ table # <<>> /\ found # <<>>
          /\ labels' = [v \in Pixels |-> IF v \in Range(found) THEN regionCount
                                                               ELSE labels[v]]
          /\ count' = [count EXCEPT ![regionCount] = @ + Len(found)]
          /\ table' = table \o found
          /\ UNCHANGED <<input, total, regionCount, canon, stage, i, todo, small,
                         counter, oldCount, before>>

FillBack == /\ table # <<>> /\ Found(Last(table)) = <<>>
            /\ Len(table) > 2
            /\ table' = Front(table)
            /\ UNCHANGED <<input, labels, total, count, regionCount, canon, stage, i,
                           todo, small, counter, oldCount, before>>

Filled == /\ table # <<>> /\ Found(Last(table)) = <<>>
          /\ Len(table) <= 2
          /\ table' = <<>>
          /\ total' = [total EXCEPT ![regionCount] = luv[i] * count[regionCount]]
          /\ regionCount' = regionCount + 1
          /\ UNCHANGED <<input, labels, count, canon, stage, i, todo, small, counter,
                         oldCount, before>>
-----------------------------------------------------------------------------
(* BuildRAM: regions are neighbours when a pixel of one is to the right of   *)
(* or below one of the other.                                                *)
Beside(u, v) == \/ v = u + 1 /\ v % Width # 0
                \/ v = u + Width

Neighbours(r, lab) ==
  {lab[v] : v \in {w \in Pixels :
     /\ lab[w] # r
     /\ \E u \in Pixels : lab[u] = r /\ (Beside(u, w) \/ Beside(w, u))}}

(* |mode r - mode s| < Window, exactly.                                      *)
InWindow(r, s, tot, cnt) ==
  LET d == Distance(tot[r] * cnt[s], tot[s] * cnt[r])
  IN  (IF tot[r] > Bright * cnt[r] THEN 2 ELSE 1) * d < Window * cnt[r] * cnt[s]

CanonicalElement(r) ==
  LET climb[c \in Pixels] == IF canon[c] = c THEN c ELSE climb[canon[c]]
  IN  climb[r]

(* Variant with a bug: the regions are linked, not their canonical elements. *)
Join_NoClimb(r, s) ==
  canon' = IF r < s THEN [canon EXCEPT ![s] = r] ELSE [canon EXCEPT ![r] = s]

(* The canonical element with the smaller label becomes the parent.          *)
Join(r, s) ==
  LET c == CanonicalElement(r)
      d == CanonicalElement(s)
  IN  canon' = IF c < d THEN [canon EXCEPT ![d] = c]
                        ELSE [canon EXCEPT ![canon[c]] = d, ![c] = d]

(* Both passes begin with a new region adjacency matrix.                     *)
Begin(s) == /\ stage' = s
            /\ i' = 0
            /\ canon' = [r \in Pixels |-> r]

EndConnect == /\ stage = "connect" /\ table = <<>>
              /\ i = Size
              /\ Begin("closure")
              /\ todo' = Neighbours(0, labels)
              /\ before' = [labels |-> labels, total |-> total, count |-> count]
              /\ UNCHANGED <<input, labels, total, count, regionCount, table, small,
                             counter, oldCount>>

(* One turn of the loop over the neighbours of region i, in order of label.  *)
CloseWith ==
  /\ stage = "closure" /\ i < regionCount
  /\ todo # {}
  /\ LET s == Min(todo) IN
       /\ todo' = todo \ {s}
       /\ IF InWindow(i, s, total, count) THEN Join(i, s) ELSE UNCHANGED canon
  /\ UNCHANGED <<input, labels, total, count, regionCount, stage, i, table, small,
                 counter, oldCount, before>>

NextRegion == /\ stage = "closure" /\ i < regionCount
              /\ todo = {}
              /\ i' = i + 1
              /\ todo' = IF i' < regionCount THEN Neighbours(i', labels) ELSE {}
              /\ UNCHANGED <<input, labels, total, count, regionCount, canon, stage,
                             table, small, counter, oldCount, before>>

Regions == 0 .. regionCount - 1

(* Levelling and relabelling: the classes are numbered by their first        *)
(* region; modes are averaged and counts added up.                           *)
FirstOf(r) == Min({s \in Regions : CanonicalElement(s) = CanonicalElement(r)})

NewLabel(r) == Cardinality({FirstOf(s) : s \in {t \in Regions : FirstOf(t) < FirstOf(r)}})

Relabel ==
  LET class(n) == {r \in Regions : NewLabel(r) = n}
      n == Cardinality({FirstOf(r) : r \in Regions})
  IN  /\ labels' = [v \in Pixels |-> NewLabel(labels[v])]
      /\ count' = [r \in Pixels |-> IF r < n THEN SumFunctionOnSet(count, class(r)) ELSE count[r]]
      /\ total' = [r \in Pixels |-> IF r < n THEN SumFunctionOnSet(total, class(r)) ELSE total[r]]
      /\ regionCount' = n

(* The loop of Segment goes on while a closure joined nothing.               *)
EndClosure ==
  /\ stage = "closure" /\ i = regionCount
  /\ Relabel
  /\ counter' = counter + 1
  /\ oldCount' = regionCount'
  /\ IF counter = 0 \/ (oldCount - regionCount' <= 0 /\ counter < Rounds)
     THEN Begin("closure") /\ todo' = Neighbours(0, labels')
     ELSE Begin("prune") /\ todo' = {}
  /\ before' = [labels |-> labels', total |-> total', count |-> count']
  /\ UNCHANGED <<input, table, small>>
-----------------------------------------------------------------------------
(* Mode s is closer to mode r than mode t is.                                *)
Closer(r, s, t) ==
  Distance(total[r] * count[s], total[s] * count[r]) * count[t]
    < Distance(total[r] * count[t], total[t] * count[r]) * count[s]

(* The first of the closest neighbours, in order of label.                   *)
Candidate(r) ==
  CHOOSE s \in Neighbours(r, labels) :
    \A t \in Neighbours(r, labels) : ~ Closer(r, t, s) /\ (t < s => Closer(r, s, t))

PruneRegion == /\ stage = "prune" /\ i < regionCount
               /\ count[i] < minRegion
               /\ Neighbours(i, labels) # {}
               /\ small' = small + 1
               /\ Join(i, Candidate(i))
               /\ i' = i + 1
               /\ UNCHANGED <<input, labels, total, count, regionCount, stage, table,
                              todo, counter, oldCount, before>>

(* raList[i].next is NULL and its label is asked for.                        *)
PruneAlone == /\ stage = "prune" /\ i < regionCount
              /\ count[i] < minRegion
              /\ Neighbours(i, labels) = {}
              /\ stage' = "crash"
              /\ UNCHANGED <<input, labels, total, count, regionCount, canon, i, table,
                             todo, small, counter, oldCount, before>>

KeepRegion == /\ stage = "prune" /\ i < regionCount
              /\ count[i] >= minRegion
              /\ i' = i + 1
              /\ UNCHANGED <<input, labels, total, count, regionCount, canon, stage,
                             table, todo, small, counter, oldCount, before>>

(* Variant with a bug: regions are pruned once.                              *)
EndPrune_Once == /\ stage = "prune" /\ i = regionCount
                 /\ Relabel
                 /\ small' = 0
                 /\ Begin("done")
                 /\ UNCHANGED <<input, table, todo, counter, oldCount, before>>

EndPrune == /\ stage = "prune" /\ i = regionCount
            /\ Relabel
            /\ small' = 0
            /\ Begin(IF small > 0 THEN "prune" ELSE "done")
            /\ UNCHANGED <<input, table, todo, counter, oldCount, before>>

Next == \/ Seed \/ Labelled \/ FillOn \/ FillBack \/ Filled \/ EndConnect
        \/ CloseWith \/ NextRegion \/ EndClosure
        \/ PruneRegion \/ PruneAlone \/ KeepRegion \/ EndPrune

Spec == Init /\ [][Next]_vars
-----------------------------------------------------------------------------
Area(r) == {v \in Pixels : labels[v] = r}

Settled == stage # "connect"

(* Labels and counts tell of the same regions after every pass: the          *)
(* labels are the numbers below regionCount, each with as many pixels as its *)
(* point count.                                                              *)
CountsAreAreas ==
  Settled => /\ {labels[v] : v \in Pixels} = Regions
             /\ \A r \in Regions : count[r] = Cardinality(Area(r))

(* Pixels that Fill can go between.                                          *)
Adjacent(u, v) == \E k \in 1 .. 8 : v = u + neigh[k]

InOnePiece(A) == \A S \in (SUBSET A) \ {{}, A} :
                   \E u \in S, v \in A \ S : Adjacent(u, v) \/ Adjacent(v, u)

(* Connect misses nothing: after it, neighbours that are alike are in one    *)
(* region, although Fill leaves off before its table is empty; and at any    *)
(* later time a region hangs together.                                       *)
FilledWhole ==
  /\ stage = "closure" /\ counter = 0 =>
       \A u, v \in Pixels : Adjacent(u, v) /\ Alike(u, v) => labels[u] = labels[v]
  /\ Settled /\ i = 0 => \A r \in Regions : InOnePiece(Area(r))

(* What a closure makes of the regions before it: pixels come together       *)
(* exactly if a chain of neighbouring regions, each within the window of the *)
(* next, leads from one to the other, however the joins were ordered and     *)
(* wherever the canonical elements were at the time.                         *)
OldRegions == {before.labels[v] : v \in Pixels}

Near(r, s) == /\ s \in Neighbours(r, before.labels)
              /\ \/ InWindow(r, s, before.total, before.count)
                 \/ InWindow(s, r, before.total, before.count)

(* A chain leads from r to s if it cannot be cut between the two: no set of  *)
(* regions has r and not s, and no near pair with one inside.                *)
Apart == {S \in SUBSET OldRegions : \A r \in S, s \in OldRegions \ S : ~ Near(r, s)}

TransitivelyClosed ==
  stage = "closure" /\ i = regionCount =>
    LET apart == Apart
    IN  \A r, s \in Regions :
          CanonicalElement(r) = CanonicalElement(s) <=> \A S \in apart : r \in S => s \in S

(* Prune ends with no region below the least area, as msImageProcessor.h     *)
(* says (one of just that area is kept, see PrunedUpToLeast), and asks for   *)
(* the neighbour of the only region there is only if the whole image is      *)
(* smaller than that.                                                        *)
NoSmallRegion ==
  /\ stage = "done" => \A r \in Regions : Cardinality(Area(r)) >= minRegion
  /\ stage = "crash" => Size < minRegion

-----------------------------------------------------------------------------
(* What holds in every state, for the reasons the properties above hold.     *)
TypeOK == /\ luv \in Images /\ minRegion \in MinRegions
          /\ labels \in [Pixels -> Pixels \union {-1}]
          /\ total \in [Pixels -> Nat] /\ count \in [Pixels -> Nat]
          /\ regionCount \in 0 .. Size
          /\ canon \in [Pixels -> Pixels]
          /\ stage \in {"connect", "closure", "prune", "done", "crash"}
          /\ i \in 0 .. Size
          /\ table \in Seq(Pixels)
          /\ todo \subseteq Pixels
          /\ small \in Nat /\ counter \in Nat /\ oldCount \in Nat

(* The regions that have pixels, the one that is being filled included.      *)
Used == IF table = <<>> THEN Regions ELSE 0 .. regionCount

(* Of the pixels of the region that is being filled, only those in the table *)
(* may have neighbours that are alike and not labelled; the seed no longer   *)
(* when others are in the table, so that Fill may leave its first two be.    *)
Open(u) == \/ \E k \in 2 .. Len(table) : table[k] = u
           \/ Len(table) = 1 /\ table[1] = u

ConnectOK ==
  stage = "connect" =>
    /\ \A v \in Pixels : labels[v] \in Used \union {-1} /\ (v < i => labels[v] >= 0)
    /\ \A r \in Used : Area(r) # {} /\ count[r] = Cardinality(Area(r)) /\ InOnePiece(Area(r))
    /\ table = <<>> => regionCount <= IF i < Size /\ labels[i] >= 0 THEN i + 1 ELSE i
    /\ table # <<>> => /\ regionCount <= i /\ i < Size /\ labels[i] = regionCount
                       /\ \A k \in 1 .. Len(table) : labels[table[k]] = regionCount
    /\ \A u, v \in Pixels : labels[u] >= 0 /\ Adjacent(u, v) /\ Alike(u, v) =>
         labels[v] = labels[u] \/ (labels[u] = regionCount /\ labels[v] = -1 /\ Open(u))

(* The pixels of the regions that have been joined with region r.            *)
ClassArea(r) == {v \in Pixels : CanonicalElement(labels[v]) = CanonicalElement(r)}

SettledOK ==
  Settled =>
    /\ table = <<>>
    /\ CountsAreAreas
    /\ \A r \in Regions : InOnePiece(Area(r)) /\ InOnePiece(ClassArea(r))
    /\ \A r \in Pixels : canon[r] <= r

ClosureOK ==
  stage = "closure" =>
    /\ before = [labels |-> labels, total |-> total, count |-> count]
    /\ i <= regionCount
    /\ todo \subseteq IF i < regionCount THEN Neighbours(i, labels) ELSE {}
    /\ \A r, s \in Regions :
         s \in Neighbours(r, labels) /\ InWindow(r, s, total, count)
           /\ (r < i \/ (r = i /\ s \notin todo))
         => CanonicalElement(r) = CanonicalElement(s)
    /\ \A r, s \in Regions : CanonicalElement(r) = CanonicalElement(s) =>
         \A S \in Apart : r \in S => s \in S
    /\ counter = 0 => \A u, v \in Pixels : Adjacent(u, v) /\ Alike(u, v) => labels[u] = labels[v]

PruneOK ==
  /\ stage \in {"connect", "closure"} => small = 0
  /\ stage = "prune" =>
       /\ i <= regionCount
       /\ small = 0 => /\ canon = [r \in Pixels |-> r]
                       /\ \A r \in Regions : r < i => count[r] >= minRegion
  /\ stage = "done" => \A r \in Regions : count[r] >= minRegion
  /\ stage = "crash" => Size < minRegion

IInv == TypeOK /\ ConnectOK /\ SettledOK /\ ClosureOK /\ PruneOK

(* Refuted: Connect labels "via an eight-connected fill".  The pixel after   *)
(* the end of a row is a neighbour to Fill, so that a region need not be in  *)
(* one piece by steps to the eight pixels around.                            *)
EightConnected ==
  stage = "closure" /\ counter = 0 /\ i = 0 =>
    \A r \in Regions, S \in SUBSET Pixels :
      S \subseteq Area(r) /\ S # {} /\ S # Area(r) =>
        \E u \in S, v \in Area(r) \ S :
          Distance(u % Width, v % Width) <= 1 /\ Distance(u \div Width, v \div Width) <= 1

(* Refuted: TransitiveClosure is applied "until" the modes of neighbouring   *)
(* regions are apart.  The loop stops at the first closure that joins some.  *)
ClosedInTheEnd ==
  stage = "prune" /\ i = 0 /\ small = 0 =>
    \A r, s \in Regions :
      s \in Neighbours(r, labels) => ~ InWindow(r, s, total, count)

(* Refuted: of Segment and of Prune it is said that regions "less than or    *)
(* equal to minRegion have been pruned".  One of area minRegion is kept.     *)
PrunedUpToLeast == stage = "done" => \A r \in Regions : Cardinality(Area(r)) > minRegion
=============================================================================
