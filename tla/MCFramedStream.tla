--------------------------- MODULE MCFramedStream ---------------------------
(* FramedStream for TLC, and the bugs its properties are tried against.    *)
EXTENDS FramedStream
=============================================================================
