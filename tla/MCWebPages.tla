---------------------------- MODULE MCWebPages ----------------------------
EXTENDS WebPages
MCPages == AllPages
=============================================================================
