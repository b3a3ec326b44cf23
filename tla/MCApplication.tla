--------------------------- MODULE MCApplication ----------------------------
(***************************************************************************)
(* An instance of Application for TLC.                                     *)
(***************************************************************************)
EXTENDS Application

CONSTANTS p1, h1, h2
=============================================================================
