--------------------------- MODULE MCStopChannel ---------------------------
(* Clients that send a stop message, and clients whose message is unknown. *)
EXTENDS StopChannel

CONSTANTS StopClients, OddClients

AllClients == StopClients \cup OddClients
Messages == [c \in AllClients |-> IF c \in StopClients THEN 1 ELSE 4]

=============================================================================
