--------------------------- MODULE MCCacheManager ---------------------------
EXTENDS CacheManager
=============================================================================
