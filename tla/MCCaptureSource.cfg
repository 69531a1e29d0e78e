SPECIFICATION Spec
CONSTANTS
    Beams = {b1}
    FirstBeam = b1
    Client = client
    Commands = {}
    Selects = {0}
    num_directions = 4
    num_mics = 1
    mic_size = 4
    SampleCount = 5
    SleepClocks = 3
    NoWord = noword
INVARIANT
    DirectionSelectsSource
