---------------------------- MODULE MCIconFetcher ----------------------------
EXTENDS IconFetcher
=============================================================================
