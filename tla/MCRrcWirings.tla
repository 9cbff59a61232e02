---------------------------- MODULE MCRrcWirings ----------------------------
EXTENDS RrcWirings, MCRrc

\* Idle, so that transfers are accepted.
MCVacancy == Garbage("IDLE", FALSE)
=============================================================================
