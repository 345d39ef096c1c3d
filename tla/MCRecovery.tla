----------------------------- MODULE MCRecovery -----------------------------
EXTENDS RecoveryInvariant, TLC

Symmetry == Permutations(Conns)
=============================================================================
