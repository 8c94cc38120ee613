----------------------------- MODULE MCDialGate -----------------------------
EXTENDS DialGate
CONSTANTS c1, c2, c3
MCCallers == {c1, c2, c3}
=============================================================================
