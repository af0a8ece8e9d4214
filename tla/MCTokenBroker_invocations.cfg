SPECIFICATION MCSpec
CONSTANTS
    i1 = i1
    i2 = i2
    keyA = keyA
    keyB = keyB
    Absent = Absent
    NoConfig = NoConfig
    NoResponse = NoResponse
    Texts <- MCTexts
    Writable <- MCWritable
    RsaKey <- MCRsaKey
    Keys <- MCKeys
    ClientIDs <- MCClientIDs
    Installations <- MCInstallations
    Installation <- MCInstallation
    FormatInt <- MCFormatInt
    Names <- MCNames
    Targets <- MCTargets
    Invocations <- MCInvocations
    LogLevel = "info"
    Faults = {"ssm", "network", "timeout"}
    MaxChanges = 2
INVARIANTS
    TypeOK
    IInv
    TokenScope
    ResponseTruthful
    OneTokenPerInvocation
    ConfigIsFresh
    OrphansOnlyByTransport
    SteadyInvocationSucceeds
    MintLineMeansToken
PROPERTIES
    AnswersAreFinal
    ImplementsMintService
    EveryInvocationAnswered
    SteadyInvocationMints
