----------------------------- MODULE MCUdpSend -----------------------------
EXTENDS UdpSend
=============================================================================
