----------------------------- MODULE MCUdpChannel -----------------------------
EXTENDS UdpChannel

\* Every session has an address of its own: Clients' names serve.
OwnAddress == [c \in Clients |-> c]
=============================================================================
