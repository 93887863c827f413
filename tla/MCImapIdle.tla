------------------------------ MODULE MCImapIdle ------------------------------
\* ImapIdle for TLC.  Accounts, calls, stops and connections are used only as
\* identities, and the run checks no liveness: they may be exchanged.
EXTENDS ImapIdle, TLC

Symmetry ==
  Permutations(Key) \cup Permutations(Call) \cup Permutations(Stop)
  \cup Permutations(Conn)
=============================================================================
