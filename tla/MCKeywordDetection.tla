------------------------- MODULE MCKeywordDetection -------------------------
EXTENDS KeywordDetection
=============================================================================
