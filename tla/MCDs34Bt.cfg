SPECIFICATION Spec
CONSTANTS
    None = None
    Ds3 = {c3}
    Ds4 = {c4}
    Pads = {0, 1}
    Enabled = {0}
    MaxEvents = 2
INVARIANTS PadsFollowTheirLinks PressOnlyFromRunningPad
PROPERTIES PlayerKeepsThePad
