---------------------------- MODULE MCBirdManager ----------------------------
(* BirdManager with three daemons, so that two late ones can boot beside the *)
(* one that a Start launches.                                               *)
EXTENDS BirdManager
==============================================================================
