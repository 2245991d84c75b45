\* Two tasks write to a terminal buffer of five bytes that a probe reads, or
\* fill and read the other buffers.
CONSTANTS
    Tasks = {t1, t2}
    None = None
    Chars = {"a", "b"}
    Terminals = {"0", "1"}
    Texts <- SomeTexts
    MaxNumBuffers = 2
    BufferSizeUp = 5
    BufferSizeDown = 2
    ExtraSize = 3
    TerminalModes = {"SKIP", "TRIM", "BLOCK"}
    OtherModes = {"TRIM"}
    Uses <- SomeUses
    Local <- LocalBuffers
SPECIFICATION FairSpec
INVARIANTS RingsIntact OnItsTerminal NoBlockNeverWaits
PROPERTY WritersFinish
CHECK_DEADLOCK FALSE
