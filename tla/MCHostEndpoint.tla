--------------------------- MODULE MCHostEndpoint ---------------------------
EXTENDS HostEndpoint, TLC

(* Devices and addresses are interchangeable: the code only compares them. *)
Symmetry == {p @@ q : p \in Permutations(Devices), q \in Permutations(Addrs)}

=============================================================================
