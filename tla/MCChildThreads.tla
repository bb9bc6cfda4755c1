--------------------------- MODULE MCChildThreads ---------------------------
(* A pair of a collection of three and of a pair.                            *)
EXTENDS ChildThreads
CONSTANTS top, left, right, l1, l2, l3, r1, r2
const_Jobs == {top, left, right, l1, l2, l3, r1, r2}
const_Children ==
  [j \in const_Jobs |-> CASE j = top   -> <<left, right>>
                          [] j = left  -> <<l1, l2, l3>>
                          [] j = right -> <<r1, r2>>
                          [] OTHER     -> <<>>]
const_Failures == {{}, {l1, l3}, {l2, r1}, {r1, r2}}
const_Pairs == {top, right}
=============================================================================
