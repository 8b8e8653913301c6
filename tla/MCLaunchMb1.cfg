CONSTANTS
    LArchs = {"x86", "arm"}
    LProtos = {"mb2", "mb1", "lgc"}
    LItems <- MCItems
    Mb1Arm = TRUE
    LDevices = {d1}
    LBehind = {}
    MaxEvents = 1
    LSizes = {1}
    LImages <- MCImages
SPECIFICATION LaunchSpec
INVARIANTS
    ParametersExact
CHECK_DEADLOCK FALSE
