\* with-handlers around bodies that return normally.
SPECIFICATION Spec
CONSTANTS
    Half = 536870912
    Programs <- UnraisedPrograms
    TailLoops = {}
    TailLoopHeight = 0
INVARIANT AgreesWithTheInterpreter
