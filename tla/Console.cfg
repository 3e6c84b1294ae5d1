\* Two threads run scripts.
SPECIFICATION Spec
CONSTANTS
    Word <- Words
    Thread = {t1, t2}
    Ask <- SomeAsks
    ServerPath <- Path
    Code <- CodeName
    Printed = {"hi", "ho"}
    Wrong = "wrong"
SYMMETRY Threads
INVARIANTS
    TypeOK
    UndisturbedScriptAnswers
    OnlyOverlappingOutput
