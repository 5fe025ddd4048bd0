SPECIFICATION LogSpec
CONSTANTS
    MaxLen = 3
    MaxTerm = 2
    MaxTime = 1
    MaxAge = 1
INVARIANTS LogInv GetFromIsWindow
