------------------------------- MODULE MCBully -------------------------------
(***************************************************************************)
(* Instances of Bully for TLC.                                             *)
(***************************************************************************)
EXTENDS Bully

Three == 1 .. 3

=============================================================================
