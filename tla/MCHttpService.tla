--------------------------- MODULE MCHttpService ----------------------------
(* Instances of HttpService for TLC. *)
EXTENDS HttpServiceInv

CONSTANTS s1, s2, s3

=============================================================================
