------------------------- MODULE MCCursorPagination -------------------------
(* CursorPagination with four rows and milliseconds of two microseconds. *)
EXTENDS CursorPagination
=============================================================================
