SPECIFICATION Spec
CONSTANTS
    ByteMax = 3
    SwapLists <- MCSwapLists
    UserCodices <- MCUserCodices
    Keys <- MCKeys
    Digest <- MCDigest
INVARIANT Involution
INVARIANT WithKeyExact
INVARIANT OneShotExactIfInvolution
CHECK_DEADLOCK FALSE
