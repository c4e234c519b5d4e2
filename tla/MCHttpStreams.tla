--------------------------- MODULE MCHttpStreams ----------------------------
(* Instances of HttpStreams for TLC. *)
EXTENDS HttpStreams
=============================================================================
