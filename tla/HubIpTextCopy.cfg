SPECIFICATION Spec
CONSTANTS
    Texts <- MCTexts
    NUL = "NUL"
    Cells = 5
INVARIANT CopyIsAHub
