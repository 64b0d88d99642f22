----------------------------- MODULE MCProvisioning -----------------------------
EXTENDS Provisioning, TLC

Symmetry == Permutations(Name) \cup Permutations(Row) \cup Permutations(Worker) \cup Permutations(Order) \cup Permutations(User)
=============================================================================
