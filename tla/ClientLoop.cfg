CONSTANTS
    Frames = 2
    Keys = 2
    UpCap = 1
    DownCap = 2
SPECIFICATION Spec
INVARIANTS
    StreamInStep
    ScriptIsTyped
PROPERTIES
    FramesAreDrawn
    EmulatorEnds
    SignalIsObeyed
