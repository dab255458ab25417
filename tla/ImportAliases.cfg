SPECIFICATION Spec
CONSTANTS
    i1 = i1
    i2 = i2
    s1 = s1
    NoFile = NoFile
    Imports = {i1}
    Settings = {s1}
    Found <- MCFound
    Saved <- MCSaved
    Start <- MCStart
PROPERTIES ImportKeepsItLoading
CHECK_DEADLOCK FALSE
