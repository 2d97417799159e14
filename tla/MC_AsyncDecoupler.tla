------------------------- MODULE MC_AsyncDecoupler -------------------------
EXTENDS AsyncDecoupler

MCMaxCalls == 5

=============================================================================
