\* Two threads serve requests and scripts that switch two names.
SPECIFICATION Spec
CONSTANTS
    Plugins <- AllPlugins
    Thread = {t1, t2}
    Requests <- SomeRequests
    ScriptPlugin = "call as function"
    ScriptName = {"get-comments", "set-user-data"}
SYMMETRY Threads
INVARIANTS
    TypeOK
    MostSpecificAnswers
PROPERTIES
    SwitchedOffNeverAnswers
