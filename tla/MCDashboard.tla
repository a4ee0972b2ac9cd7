----------------------------- MODULE MCDashboard -----------------------------
(* Dashboard with two requests for the status at a time. *)
EXTENDS Dashboard
==============================================================================
