---------------------------- MODULE MCSendBuffer ----------------------------
EXTENDS SendBuffer

CONSTANTS s1, s2

MCSenders == {s1, s2}
=============================================================================
