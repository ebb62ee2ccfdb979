------------------------------ MODULE MCUiServer ------------------------------
(***************************************************************************)
(* UiServer for TLC: the client threads, descriptors and peers are         *)
(* interchangeable, which the safety runs use.                             *)
(***************************************************************************)
EXTENDS UiServerInvariant, TLC

Symmetry ==
  Permutations(Threads) \cup Permutations(Fds) \cup Permutations(Peers)

=============================================================================
