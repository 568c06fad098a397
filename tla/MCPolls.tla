------------------------------ MODULE MCPolls ------------------------------
EXTENDS Polls
=============================================================================
