SPECIFICATION Spec
CONSTANT Texts <- MCTexts
CONSTANT Inputs <- MCInputs
CHECK_DEADLOCK FALSE
INVARIANT JoinCarriesRtx
