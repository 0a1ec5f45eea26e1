CONSTANTS
    GroundTruth = GroundTruth
    SensorView = SensorView
    gt = gt
    sv = sv
    None = None
    Unknown = Unknown
    Paths <- ChannelPaths
    FileAt <- ChannelFiles
    NameOf <- MCNames
    Codes <- MCCodes
    CodeType <- MCCodeType
    Stamps = {"20260101T000000Z"}
    Numbers = {"100"}
    Lower <- MCLower
    MaxFrames = 2
    Wants <- MCWants
    ChannelIds <- Ids
    SchemaIds <- MCSchemaIds
    Topics = {gt, sv}
    MessageTypes = {GroundTruth, SensorView}
    Expectations <- MCExpectations
    ConvertedType = GroundTruth
    OutputNames <- Outputs
SPECIFICATION ClientsSpec
INVARIANTS
    ConvertTypeOK
    NoOrphanedFile
    ResolvedAsAsked
    OnlyItsChannel
    AllOfItsChannel
    OnlyTheirChannels
    ConvertedAll
