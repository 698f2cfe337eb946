SPECIFICATION Spec
CONSTANTS
    Runners = {a, b, c}
    None = None
INVARIANTS
    AnswerWasGiven
    
    CheapAnswerIsVerified
    NoBranchWithoutPermission
SYMMETRY RunnerSymmetry
