CONSTANTS
    GroundTruth = GroundTruth
    SensorView = SensorView
    gt = gt
    sv = sv
    None = None
    Unknown = Unknown
    Paths <- MCPaths
    FileAt <- MCFiles
    ChannelIds <- Ids
    SchemaIds <- MCSchemaIds
    Topics = {gt, sv}
    MessageTypes = {GroundTruth, SensorView}
    Expectations <- MCExpectations
SPECIFICATION FairSpec
INVARIANTS
    TypeOK
    BoundToOpenFile
    InOrder
    Accounted
    DecodedBySchema
PROPERTIES
    ContractSpec
    Drains
