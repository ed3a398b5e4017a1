----------------------------- MODULE NodeLoopMC -----------------------------
(* Values of the constants of NodeLoop for model checking.                *)
EXTENDS NodeLoop

CONSTANTS ff, zero, one   \* bytes

W(h, l) == [hi |-> h, lo |-> l]
MCByte == {ff, zero, one}
MCFreqs == {W(zero, one), W(one, zero)}
MCDefaultFreq == W(zero, one)
MCPowerDown == W(one, zero)
MCLevels == {zero, one}
=============================================================================
