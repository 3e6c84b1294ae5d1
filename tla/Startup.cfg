\* Any file, and a process that may be killed between any two statements.
SPECIFICATION Spec
INVARIANTS
    TypeOK
    ServesCompleteFile
    SeededUnlessCut
PROPERTIES
    GoodFileKept
