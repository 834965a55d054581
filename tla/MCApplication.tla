---------------------------- MODULE MCApplication ----------------------------
EXTENDS Application
=============================================================================
