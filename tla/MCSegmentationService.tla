------------------------ MODULE MCSegmentationService ------------------------
(* Two pages: one of each of two users, or both of the same user.          *)
EXTENDS SegmentationService, TLC

CONSTANTS ana, bia, page, tab

EachOne == (page :> ana) @@ (tab :> bia)

MCLogins == [Sessions -> Users]
EachOneOnly == {EachOne}
OnePage == {page :> bia}

MCPayloads == SUBSET Images

Symmetry == Permutations(Users) \cup Permutations(Sessions)
=============================================================================
