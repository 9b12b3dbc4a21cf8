-------------------------- MODULE MCSessionLifetime --------------------------
EXTENDS SessionLifetime
WithoutMaximum == [idle : 0 .. 3, max : {0}]
=============================================================================
