\* Every reply of up to three pieces, in chunks of any size.
CONSTANTS
    MaxPieces = 3
    None = None
SPECIFICATION Spec
INVARIANTS StreamedIsStored AnswerKept
