SPECIFICATION MergeSpec
CONSTANTS
    Clones = {a, b}
    Workers = {w, x}
    NoWorker = nobody
    OpenPatches <- MCPatches
    OldTags = {t}
    Paragraphs = {p, q}
    MaxStamp = 2
    MaxOps = 2
INVARIANTS MergeCommutes
PROPERTIES NothingForgotten UncontestedKept
CHECK_DEADLOCK FALSE
