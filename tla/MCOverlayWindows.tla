-------------------------- MODULE MCOverlayWindows --------------------------
\* Values of the constants for TLC: see the configurations.
EXTENDS OverlayWindows
=============================================================================
