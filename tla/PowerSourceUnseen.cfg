\* The cable is pulled with the screen off, and the user's activity comes before the
\* power routine has seen it.
SPECIFICATION UnseenSpec
CONSTANT MaxQueue = 1
INVARIANT LastHostLocks
