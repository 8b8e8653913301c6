CONSTANTS
    Threads = {t1, t2}
    Vcpus = {v1, v2}
    FpuEcs = {t1, v1}
    OffsVcpus = {v1}
    NoEc = NoEc
    Values = {0, 1}
    NmIntercept = {FALSE}
    AThreads = {t1}
    AVcpus = {v1, v2}
    AFpuEcs = {t1, v1}
    AOffsVcpus = {v1}
    NoA = NoA
    AValues = {0, 1}
    UKinds = {"exc", "vmx", "svm", "arm", "armvm"}
    ManagedXcr = {"X87", "SSE", "AVX", "A512a", "A512b"}
    Gicv2 = TRUE
    c0 = c0
    c1 = c1
    KCpus = {c0, c1}
    KScs = {k1, k2}
    NumL3 <- MCNumL3
    NumL2 <- MCNumL2
    NumMb <- MCNumMb
    HcbL3 <- MCHcbL3
    HcbL2 <- MCHcbL2
    DelMb <- MCDelMb
    SupCfg <- MCSupCfg
    ICpus = {c0, c1}
    IKinds = {"pin", "msi", "spi", "gst"}
    MaxCount = 2
    GCpus = {c0, c1}
    GBoot = c1
    Spis = {s1, s2, s3}
    SmmuSpis = {s3}
    GNone = GNone
    MaxAssign = 1
    MaxSuspend = 1
    LArchs = {"x86", "arm"}
    LProtos = {"mb2", "mb1", "lgc"}
    LItems <- MCItems
    Mb1Arm = FALSE
    LDevices = {d1, d2}
    LBehind = {d1}
    MaxEvents = 2
    LSizes = {2, 3}
    LImages <- MCImages
    u1 = u1
    u2 = u2
    u3 = u3
    NoUnit = NoUnit
    Firmwares <- MCFirmwares
    MaxTables = 6
    MaxCpus = 2
    MaxGsi = 4
    DevNum = 2
    FnNum = 2
SPECIFICATION MachinesSpec
INVARIANTS
    FpuExact
    GuestReady
    VcpuExact
    Transparent
    RunsLegal
    ClassInForce
    NoLostInterrupt
    GicExact
    LaunchRight
    DiscoveryExact
CHECK_DEADLOCK FALSE
