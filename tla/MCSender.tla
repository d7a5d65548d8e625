------------------------------ MODULE MCSender ------------------------------
(* Small instances of Sender for TLC; the values are in the configurations. *)
EXTENDS Sender
=============================================================================
