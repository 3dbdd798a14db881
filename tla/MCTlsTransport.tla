---------------------------- MODULE MCTlsTransport ----------------------------
EXTENDS TlsTransport
=============================================================================
