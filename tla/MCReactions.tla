---------------------------- MODULE MCReactions ----------------------------
EXTENDS Reactions

CONSTANTS good, bad

MCPairs    == {good, bad}
MCBroken   == {bad}
MCSeenAt   == good :> 1 @@ bad :> 0
MCHorizons == <<1, 2>>
=============================================================================
