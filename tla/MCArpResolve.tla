---------------------------- MODULE MCArpResolve ----------------------------
EXTENDS ArpResolve
=============================================================================
