-------------------------- MODULE MCDeviceListener --------------------------
EXTENDS DeviceListener

CONSTANTS c1, c2, c3

MCClients == {c1, c2, c3}
MCClientsTwo == {c1, c2}
=============================================================================
