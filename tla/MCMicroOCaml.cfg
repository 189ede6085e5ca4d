\* Every kind of expression in every surrounding, exceptions, loops by tail calls.
SPECIFICATION Spec
CONSTANTS
    Half = 536870912
    Programs <- CompiledPrograms
    TailLoops <- LoopIndices
    TailLoopHeight = 22
INVARIANTS
    AgreesWithTheInterpreter
    PrintsTheAnswer
    PrimitivesWorkOnBits
    ParsesWhatIsWritten
    TailCallsKeepTheStack
PROPERTY EveryProgramEnds
