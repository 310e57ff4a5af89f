SPECIFICATION Spec
CONSTANTS
    None = None
    Conns = {a, b}
    Stored = {t}
    Notes = {n}
    MaxResumes = 2
    MaxTurns = 2
INVARIANTS AttachedIsLive NoteIsKept NoteIsForSession
CHECK_DEADLOCK FALSE
SYMMETRY Symmetry
