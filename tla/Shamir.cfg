SPECIFICATION Spec
CONSTANTS
    Pems <- MCPems
    Draws <- MCDraws
    Redraws <- MCRedraws
INVARIANT TypeOK
INVARIANT GfMulIsMultiplication
INVARIANT DivisionUndoesMultiplication
INVARIANT AnyTwoSharesReconstruct
INVARIANT OneShareSaysNothing
INVARIANT OldSharesDoNotFit
PROPERTY RecoveryKeepsKey
