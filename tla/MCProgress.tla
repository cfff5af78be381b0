---- MODULE MCProgress ----
(* Small instance of Progress. *)
EXTENDS Progress, MCEntitlements
====
