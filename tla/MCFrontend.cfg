SPECIFICATION Spec
CONSTANT Inputs <- MCInputs
INVARIANT ExpansionIsMeant  InstructionsRunAsWritten SymbolsFindInstructions
CHECK_DEADLOCK FALSE
