\* Input that holds the byte 255.
SPECIFICATION Spec
CONSTANTS
    Half = 536870912
    Programs <- BytePrograms
    TailLoops = {}
    TailLoopHeight = 0
INVARIANT AgreesWithTheInterpreter
