-------------------------- MODULE MCStreamManager --------------------------
(* Two agents, one with a single slot, and three handlers that may ask for
   either: enough for a full agent, a lost compare-and-swap race, a refusal
   while another agent has room, and an acquire caught by the drain. *)
EXTENDS StreamManager, TLC

CONSTANTS a1, a2

MCMaxStreams == (a1 :> 1) @@ (a2 :> 2)
=============================================================================
