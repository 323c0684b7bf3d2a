------------------------ MODULE MCProcessLifecycle -------------------------
EXTENDS ProcessLifecycle
=============================================================================
