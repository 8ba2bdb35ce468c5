-------------------------- MODULE MCExtractionQueue --------------------------
EXTENDS ExtractionQueue
==============================================================================
