---------------------------- MODULE MCOverrides ----------------------------
EXTENDS Overrides, TLC

\* Name 2 leaves the firmware with an update, or comes with one.
MCFirmwares == {{1, 2}, {1}}
Symmetric == Permutations(Sessions)
=============================================================================
