-------------------------- MODULE MCSessionJournal --------------------------
EXTENDS SessionJournal
=============================================================================
