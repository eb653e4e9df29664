------------------------------ MODULE MCRpcDedup -------------------------------
EXTENDS RpcDedup

CONSTANTS h1, h2, h3, k1, p1, p2
=============================================================================
