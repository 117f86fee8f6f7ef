----------------------------- MODULE MCOutQueue -----------------------------
EXTENDS OutQueueMachine
=============================================================================
