------------------------------- MODULE MCHub --------------------------------
(* Small instances of Hub: one post on a channel and one on none.          *)
EXTENDS Hub, TLC

CONSTANTS a, b, broadcast, onA

MCChannels == {a, b}
MCPosts == {broadcast, onA}
MCChannelOf == (broadcast :> NoChannel) @@ (onA :> a)

Symmetry == Permutations(Flows) \cup Permutations(Posters)
=============================================================================
