---------------------------- MODULE MC_WalletFlush ---------------------------
EXTENDS WalletFlush

CONSTANTS w1, w2

MCWriters == {w1, w2}
=============================================================================
