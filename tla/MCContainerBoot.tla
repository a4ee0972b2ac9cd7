--------------------------- MODULE MCContainerBoot ---------------------------
(* The script's ten looks and the four actions of Start are the code's own. *)
EXTENDS ContainerBoot
=============================================================================
