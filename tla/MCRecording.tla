---------------------------- MODULE MCRecording ----------------------------
EXTENDS Recording, TLC

Symmetry == Permutations(Sessions)
=============================================================================
