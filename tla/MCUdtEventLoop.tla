--------------------------- MODULE MCUdtEventLoop ---------------------------
EXTENDS UdtEventLoop
=============================================================================
