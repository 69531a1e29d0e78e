SPECIFICATION FairSpec
CONSTANTS
    Beams = {b1, b2}
    FirstBeam = b1
    Client = client
    Commands <- AllCommands
    Selects = {0}
    num_directions = 1
    num_mics = 2
    mic_size = 2
    SampleCount = 1
    SleepClocks = 1
    NoWord = noword
PROPERTY
    CaptureEnds
