--------------------------- MODULE MCConfigStore ----------------------------
EXTENDS ConfigStore
=============================================================================
