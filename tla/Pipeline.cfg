SPECIFICATION Spec
CONSTANTS
    Inputs <- MCInputs
    NameOf <- MCNameOf
    ModulesOf <- MCModulesOf
    ShapeOf <- MCShapeOf
    Broken = {"i2"}
    InPlace = {"i2"}
    Options <- MCOptions
    MaySkip = {"dft2lntc", "svl", "bcg_min", "imc2ctmdpi", "bcg2tralab", "bcg2imca"}
    MaxRuns = 2
INVARIANTS TypeOK AnswerIsRight LabelsMatch NoAnswerForBroken
CHECK_DEADLOCK FALSE
