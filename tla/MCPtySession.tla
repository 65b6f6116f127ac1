---------------------------- MODULE MCPtySession ----------------------------
EXTENDS PtySession
=============================================================================
