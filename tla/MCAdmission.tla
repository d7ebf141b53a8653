---------------------------- MODULE MCAdmission ----------------------------
EXTENDS Admission

Symmetry == Permutations(Messages) \cup Permutations(Clients)
=============================================================================
