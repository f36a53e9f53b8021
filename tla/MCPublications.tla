--------------------------- MODULE MCPublications ---------------------------
(* Small instances of Publications for TLC. *)
EXTENDS Publications
CONSTANTS d1, d2
TwoDocs == {d1, d2}
=============================================================================
