--------------------------- MODULE MCTextReaders ---------------------------
EXTENDS TextReaders
=============================================================================
