--------------------------- MODULE MCRtmpListener ---------------------------
EXTENDS RtmpListener
=============================================================================
