---------------------------- MODULE MCPowerManager ----------------------------
EXTENDS PowerManager
=============================================================================
