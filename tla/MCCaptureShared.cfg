SPECIFICATION Spec
CONSTANTS
    Beams = {b1}
    FirstBeam = b1
    Client = client
    Commands = {"set_mic_sel"}
    Selects = {1}
    num_directions = 1
    num_mics = 1
    mic_size = 4
    SampleCount = 5
    SleepClocks = 1
    NoWord = noword
INVARIANTS
    DoneMeansComplete
    CaptureInv
