SPECIFICATION Spec
CONSTANTS
    IntBits = 5
    NarrowBits = 3
    MantissaBits = 3
    MaxReal = 100
    ConvertTo <- To
    NulStrings = {3}
    VariantCells = {"v", "w"}
    OutcomeCells = {"o", "p"}
    ErrorOrCells = {"r", "s"}
    HandleCells = {"h"}
    ScopedCells = {"i", "j"}
    Contents = {1, 2}
    Limits = {0, 1, 2, 3, 4, 5, 6, 7, 8, 9, 10, 11, 12, 13, 14, 15}
    MsgTypeCodes = {0, 1, 2, 3, 64, 127}
CHECK_DEADLOCK FALSE
INVARIANTS OrderIsStrictWeak ConversionRoundTrip BadArgumentsAnswered CodecRoundTrip FrameSurvives MessagesFit
PROPERTY ImplementsValueCells
