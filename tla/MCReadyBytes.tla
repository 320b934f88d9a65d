---------------------------- MODULE MCReadyBytes ----------------------------
(* Eight priorities in five of the eight bytes, at both ends of a byte. *)
EXTENDS ReadyBytes

Corners == {0, 1, 7, 8, 30, 55, 56, 63}
=============================================================================
