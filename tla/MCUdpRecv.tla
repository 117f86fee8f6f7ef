----------------------------- MODULE MCUdpRecv -----------------------------
EXTENDS UdpRecv
=============================================================================
