-------------------------- MODULE MCHostedRegistry --------------------------
(* Instances of HostedRegistry for TLC. *)
EXTENDS HostedRegistry, TLC

RegistrySymmetry ==
    Permutations(Handlers) \cup Permutations(Keys) \cup Permutations(Bodies)
        \cup Permutations(Versions)
=============================================================================
