----------------------------- MODULE MCReadings -----------------------------
EXTENDS Readings

SmallSkews == {-1, 0}
=============================================================================
