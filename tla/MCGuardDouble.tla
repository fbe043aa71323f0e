--------------------------- MODULE MCGuardDouble ---------------------------
EXTENDS GuardDouble

\* Little-endian: the first byte of init_word holds bits 0 to 7.
LittleEndianFirstByte == 0 .. 7

\* Big-endian: the first byte of init_word holds bits 24 to 31.
BigEndianFirstByte == 24 .. 31
=============================================================================
