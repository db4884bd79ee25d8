SPECIFICATION Spec
CONSTANT Texts <- MCTexts
CONSTANT Inputs <- MCInputs
\* publish ends, or throws.
CHECK_DEADLOCK FALSE
INVARIANT TypeOK
INVARIANT MatchedAsAnnounced
INVARIANT PublishAgrees
