----------------------------- MODULE MCSessions -----------------------------
(* Symmetry of the clients and captchas for the run of Sessions. *)
EXTENDS Sessions, TLC

Symmetry == Permutations(Clients) \cup Permutations(Captchas)

=============================================================================
