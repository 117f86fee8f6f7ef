----------------------------- MODULE MCTcpSock -----------------------------
EXTENDS TcpSock
=============================================================================
