\* Every conversion into buffers of three sizes, and three strings into an
\* up-buffer of the probe through a buffer of three characters.
CONSTANTS
    BufferSize = 12
    SizeMax = 20
    ShortSize = 8
    CharSize = 4
    Denominator = 20
    Directives <- SomeDirectives
    BufferLengths = {0, 3, 16}
    RttBufferSize = 3
SPECIFICATION Spec
INVARIANTS Truncates NumbersReadBack SentInOrder
CHECK_DEADLOCK FALSE
