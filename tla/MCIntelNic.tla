---------------------------- MODULE MCIntelNic ----------------------------
EXTENDS IntelNic

MCPacket == 1 .. 8
=============================================================================
