CONSTANTS
    GroundTruth = GroundTruth
    SensorView = SensorView
    version = version
    moving = moving
    mounting = mounting
    GtName = GtName
    PlainName = PlainName
    MessageTypes = {GroundTruth, SensorView}
    Unknown = Unknown
    None = None
    Fields = {version, moving, mounting}
    FieldsOf <- MCFieldsOf
    Singular = {version, mounting}
    Garbled = Garbled
    Messages <- MCMessages
    Paths = {GtName, PlainName}
    TxthPaths = {GtName}
    TypeOfName <- MCTypeOfName
    Disks <- MCDisks
    MaxItems = 3
SPECIFICATION FileSpec
INVARIANTS
    TextTypeOK
    FlagAgrees
    Conserved
    ReadsBackDelimited
PROPERTY TextDrains
