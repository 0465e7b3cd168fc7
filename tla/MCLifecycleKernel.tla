------------------------- MODULE MCLifecycleKernel -------------------------
(***************************************************************************)
(* LifecycleKernel on small instances for TLC.                             *)
(***************************************************************************)
EXTENDS LifecycleKernel, TLC

Symmetry == Permutations(Domain) \cup Permutations(Transport)
            \cup Permutations(KernelAttempt)

=============================================================================
