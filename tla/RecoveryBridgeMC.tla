------------------------- MODULE RecoveryBridgeMC --------------------------
EXTENDS RecoveryBridge, TLC
=============================================================================
