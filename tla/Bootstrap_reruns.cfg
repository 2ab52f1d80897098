SPECIFICATION BootSpec
CONSTANTS
    MaxGen = 2
    MaxFaults = 2
    Options <- MCOptions
    Contained <- MCContained
    Broken = {2}
INVARIANT AcceptedIsProvisioned
 
