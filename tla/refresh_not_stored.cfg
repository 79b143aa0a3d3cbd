\* The Microsoft client while it fetches the attachments of a page: two workers,
\* a token that lapses, and a refreshed one whose store can fail.
CONSTANTS
    Workers = {w1, w2}
    NItems = 3
    MAX_REFRESHES_PER_RUN = 2
    MaxHiccups = 2
SPECIFICATION Spec
INVARIANT NothingDropped
CHECK_DEADLOCK FALSE
