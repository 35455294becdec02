\* Two processes serving one database.
SPECIFICATION Spec
CONSTANTS
    Keys = {k1, k2}
    Servers = {s1, s2}
    Nothing = Nothing
    MaxQueue = 1
    MaxRestarts = 1
SYMMETRY Symmetry
PROPERTIES
    UsableLostToRaceOnly
CHECK_DEADLOCK FALSE
