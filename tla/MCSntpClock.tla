----------------------------- MODULE MCSntpClock -----------------------------
EXTENDS SntpClock

\* An oscillator that loses, keeps or gains a millisecond in a second.
MCDrifts == {-1, 0, 1}
=============================================================================
