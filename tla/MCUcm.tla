------------------------------- MODULE MCUcm -------------------------------
(* Five regions, the fourth in the middle; two pairs have a boundary of two  *)
(* contours.                                                                 *)
EXTENDS Ucm
const_partition ==
  LET rows == << <<0, 0, 1, 1>>,
                 <<2, 3, 3, 1>>,
                 <<2, 4, 4, 4>> >>
  IN  [v \in Pixels |-> rows[v[2] + 1][v[1] + 1]]

(* One contour of each of the two pairs is fixed, the others are absent,     *)
(* weak or strong, so that averages of one, two and three contours meet.     *)
const_Strengths ==
  {f \in [Contours -> {0, 1, 3}] : f[<<6, 3>>] = 1 /\ f[<<5, 4>>] = 0 /\ f[<<7, 4>>] # 1}
=============================================================================
