----------------------- MODULE MCManualClassification -----------------------
(* A directory of a few images of a few pixels.                            *)
EXTENDS ManualClassification
=============================================================================
