----------------------------- MODULE MCPeerKeys -----------------------------
(* PeerKeys on small instances: one peer starts over with a second device. *)
EXTENDS PeerKeysProps, TLC

CONSTANTS ann, bob, a1, a2, b1

TwoPeers == a1 :> ann @@ a2 :> ann @@ b1 :> bob
============================================================================
