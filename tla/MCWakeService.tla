--------------------------- MODULE MCWakeService ---------------------------
(* The failure assumptions under which WakeService is model checked, and   *)
(* the symmetry of its three sets, each interchangeable in itself.         *)
EXTENDS WakeService, TLC

\* Docker does what it is asked, and nobody else touches the container.
Healthy == {}

\* Whatever may fail, does, and the container comes and goes by itself.
Hostile == FaultKinds

Symmetry ==
    Permutations(Requests) \union Permutations(Startups)
    \union Permutations(Addrs)
=============================================================================
