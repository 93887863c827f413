--------------------------- MODULE MCImapScheduler ---------------------------
\* Small instances of ImapScheduler for TLC.
EXTENDS ImapScheduler, TLC

\* Calls and objects are interchangeable.
CallsAndMutexesAlike == Permutations(Call) \cup Permutations(Mutex)
=============================================================================
