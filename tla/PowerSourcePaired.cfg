\* A host that was paired leaves: the flag that keeps the device unlocked during the
\* pairing procedure is still set.
SPECIFICATION FairSpec
CONSTANT MaxQueue = 1
INVARIANT PairedHostLocks
