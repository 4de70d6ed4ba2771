SPECIFICATION DraftSpec
CONSTANTS
    Editor = {e1}
    Cell = {c1}
    Target = {0, 1}
    MaxDraft = 3
    MaxCacheWrites = 0
CHECK_DEADLOCK FALSE
INVARIANTS
    ConflictIsObsolete
