CONSTANTS
    Bytes = {"esc", "[", "A", "enter", "backspace"}
    MAX_INPUT_BYTES = 2
    MaxLength = 2
    FrameBytes = 3
SPECIFICATION Spec
INVARIANTS
    TypeOK
    KeysAreDecoded
    TextIsDecoded
    NamesAreVisible
    ScreenIsCurrent
