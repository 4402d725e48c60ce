SPECIFICATION FairSpec
CONSTANT MaxTyped = 4
INVARIANT InStep
PROPERTY PromptReturns
