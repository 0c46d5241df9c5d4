---------------------------- MODULE MCAsyncFile -----------------------------
EXTENDS AsyncFile
=============================================================================
