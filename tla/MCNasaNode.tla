---------------------------- MODULE MCNasaNode ----------------------------
(* Two items: what the first leaves in download and in qs meets the second. *)
EXTENDS NasaNode
=============================================================================
