----------------------------- MODULE MCResources -----------------------------
(***************************************************************************)
(* Two rows of one key, two repositories, two requests and one fault.      *)
(* Seven tasks are as many as two requests and their follow-ups need.      *)
(***************************************************************************)
EXTENDS Resources
=============================================================================
