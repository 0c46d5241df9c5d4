------------------------- MODULE MCAsyncCacheWriter -------------------------
EXTENDS AsyncCacheWriter
=============================================================================
