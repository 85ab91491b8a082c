----------------------------- MODULE MCPlatform -----------------------------
(***************************************************************************)
(* Platform for TLC.  The parts share no state, so what can be said of one *)
(* part is seen when it alone moves: one part moves in a behaviour, chosen *)
(* at the start, and the instances add up and do not multiply.  The others *)
(* rest in one of their initial states.                                    *)
(***************************************************************************)
EXTENDS Platform, TLC

VARIABLE part \* the part that this behaviour is of

MCInit ==
  /\ part \in {"directories", "rules", "volumes", "hotMounts", "ports", "updates", "waits"}
  /\ Init
  /\ part # "volumes" => volume = FALSE
  /\ part # "hotMounts" => \A c \in DOMAIN linked : linked[c] = {}
  /\ part # "updates" => \A v \in DOMAIN kind_A : kind_A[v] = "works"

MCNext ==
  \/ /\ part = "directories" /\ D!Next
     /\ UNCHANGED <<part, rules, volumes, hotMounts, ports, updates, waits>>
  \/ /\ part = "rules" /\ S!Next
     /\ UNCHANGED <<part, directories, volumes, hotMounts, ports, updates, waits>>
  \/ /\ part = "volumes" /\ V!Next
     /\ UNCHANGED <<part, directories, rules, hotMounts, ports, updates, waits>>
  \/ /\ part = "hotMounts" /\ M!Next
     /\ UNCHANGED <<part, directories, rules, volumes, ports, updates, waits>>
  \/ /\ part = "ports" /\ P!Next
     /\ UNCHANGED <<part, directories, rules, volumes, hotMounts, updates, waits>>
  \/ /\ part = "updates" /\ A!Next
     /\ UNCHANGED <<part, directories, rules, volumes, hotMounts, ports, waits>>
  \/ /\ part = "waits" /\ E!Next
     /\ UNCHANGED <<part, directories, rules, volumes, hotMounts, ports, updates>>

MCSpec == MCInit /\ [][MCNext]_<<part, vars>>

Symmetry == Permutations(HostPort) \cup Permutations(NodePort)
=============================================================================
