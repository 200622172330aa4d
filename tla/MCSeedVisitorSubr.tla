------------------------- MODULE MCSeedVisitorSubr -------------------------
EXTENDS SeedVisitorSubr
=============================================================================
