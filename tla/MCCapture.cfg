SPECIFICATION Spec
CONSTANTS
    Beams = {b1}
    FirstBeam = b1
    Client = client
    Commands = {"get_mic_ith", "set_led_sel"}
    Selects = {0}
    num_directions = 3
    num_mics = 2
    mic_size = 3
    SampleCount = 4
    SleepClocks = 1
    NoWord = noword
INVARIANTS
    TypeOK
    BeamIsSteered
    SteeringInv
