------------------------------- MODULE MCMseg -------------------------------
(* Images of three by two: the levels are marks of a ruler that measures     *)
(* every distance once, so that only edges to the two equal corners tie.     *)
EXTENDS Mseg
Marks == {0, 1, 4, 9, 11}
const_Images == {f \in [Pixels -> Marks] :
                   /\ f[5] = f[0]
                   /\ \A u, v \in 0 .. 4 : u # v => f[u] # f[v]}
=============================================================================
