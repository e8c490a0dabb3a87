\* The API process boots twice.
SPECIFICATION Spec
CONSTANTS
    Server = api
    Commands = {c1}
    MaxEdits = 0
    MaxPrompts = 1
    MaxFaults = 1
    MaxKeys = 2
PROPERTIES
    KeyOnce
