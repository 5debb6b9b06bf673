------------------------------ MODULE MCEmacRx ------------------------------
(***************************************************************************)
(* Three descriptors, so that the ring wraps, fills up and runs out in the *)
(* middle of a frame; frames of one to three segments, one filling the     *)
(* ring alone.                                                             *)
(***************************************************************************)
EXTENDS EmacRx
=============================================================================
