----------------------------- MODULE MCStorage -----------------------------
\* The persistent objects of two handles over a small image.
EXTENDS Storage, TLC

StorageSymmetry == Permutations(Handles) \cup Permutations(Paths) \cup Permutations(Data)
=============================================================================
