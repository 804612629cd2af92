---- MODULE MCPeriscope ----
(* Small instances of Periscope. *)
EXTENDS Periscope
====
