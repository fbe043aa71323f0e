--------------------------- MODULE MCGuardSingle ---------------------------
EXTENDS GuardSingle

\* Little-endian: the first byte in memory holds bits 0 to 7.
LittleEndianFirstByte == 0 .. 7

\* Big-endian 64-bit: the first byte in memory holds bits 56 to 63.
BigEndianFirstByte == 56 .. 63
=============================================================================
