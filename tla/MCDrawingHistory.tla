-------------------------- MODULE MCDrawingHistory --------------------------
(* Small instances of DrawingHistory; stroke ids are interchangeable. *)
EXTENDS DrawingHistory

CONSTANTS s1, s2, s3
=============================================================================
