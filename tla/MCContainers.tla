---------------------------- MODULE MCContainers ----------------------------
(* One container name, with one or two rows: a create, its keys or image   *)
(* import, and what users, the expiry loop and the node do to it.          *)
EXTENDS Containers

MCTask == 1..4
=============================================================================
