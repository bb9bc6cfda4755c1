--------------------------- MODULE RegionMerging ---------------------------
(* What a segmenter that merges promises: at first every pixel is a region   *)
(* of its own, and the only change is that two regions that touch become     *)
(* one.  Mseg is shown to do no more than this.                              *)
CONSTANTS Pixels,       \* the pixels of the image
          Touching      \* the pairs of pixels that are neighbours

VARIABLE regions        \* the set of the regions, each a set of pixels

Init == regions = {{v} : v \in Pixels}

Touch(A, B) == \E e \in Touching : \/ e[1] \in A /\ e[2] \in B
                                   \/ e[1] \in B /\ e[2] \in A

Merge(A, B) == /\ A # B
               /\ Touch(A, B)
               /\ regions' = (regions \ {A, B}) \union {A \union B}

Next == \E A, B \in regions : Merge(A, B)

Spec == Init /\ [][Next]_regions
-----------------------------------------------------------------------------
(* Every pixel is in one region.                                             *)
Partition == /\ UNION regions = Pixels
             /\ {} \notin regions
             /\ \A A, B \in regions : A # B => A \cap B = {}

(* A region is in one piece: whatever way it is cut in two, the two parts    *)
(* touch.                                                                    *)
InOnePiece(A) == \A S \in SUBSET A : S # {} /\ S # A => Touch(S, A \ S)

Connected == \A A \in regions : InOnePiece(A)
=============================================================================
