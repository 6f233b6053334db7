------------------------ MODULE MCProcessLifecycle ------------------------
EXTENDS ProcessLifecycle
=============================================================================
