------------------------ MODULE MCResponseCollector ------------------------
EXTENDS ResponseCollector
=============================================================================
