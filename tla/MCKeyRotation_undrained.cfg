SPECIFICATION RotationSpec
CONSTANTS
    i1 = i1
    i2 = i2
    probe = probe
    keyA = keyA
    keyB = keyB
    keyC = keyC
    Absent = Absent
    NoConfig = NoConfig
    NoResponse = NoResponse
    Invocations <- MCInvocations
    Texts <- MCTexts
    Writable <- MCWritable
    RsaKey <- MCRsaKey
    Keys <- MCKeys
    ClientIDs <- MCClientIDs
    Installations <- MCInstallations
    Installation <- MCInstallation
    FormatInt <- MCFormatInt
    Names <- MCNames
    Targets <- MCTargets
    LogLevel = "info"
    MaxChanges = 4
    RotatedApp = "app"
    OldPem = "pemA"
    NewPem = "pemB"
    Uploads <- MCUploads
    Probe = probe
    Faults = {}
    Drain = FALSE
SYMMETRY CallerSymmetry
INVARIANTS
    NoDowntime
