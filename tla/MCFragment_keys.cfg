SPECIFICATION Spec
CONSTANTS
    Calls <- MCCalls
    Noise = {0, 11}
    U32Max = 6
    Readers <- MCReaders
    Custom <- CustomFragments
INVARIANT RoundTrip
INVARIANT NeverPanics
