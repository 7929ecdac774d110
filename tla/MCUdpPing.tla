------------------------------ MODULE MCUdpPing ------------------------------
EXTENDS UdpPing
=============================================================================
