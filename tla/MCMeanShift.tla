---------------------------- MODULE MCMeanShift ----------------------------
EXTENDS MeanShift
const_Images == [Pixels -> {0, 1, 3, 6}]
=============================================================================
