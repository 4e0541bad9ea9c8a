--------------------------- MODULE MCAddressSpace ---------------------------
(* A small instance of AddressSpace. *)
EXTENDS AddressSpace, TLC

CONSTANTS h1, h2, h3, h4
Symmetric == Permutations(Handles)
=============================================================================
