CONSTANTS
    GroundTruth = GroundTruth
    SensorView = SensorView
    empty = empty
    short = short
    long = long
    GtName = GtName
    PlainName = PlainName
    TextName = TextName
    MessageTypes = {GroundTruth, SensorView}
    Unknown = Unknown
    None = None
    Messages = {empty, short, long}
    SizeOf <- MCSizeOf
    TypeOf <- MCTypeOf
    Garbage = Garbage
    HeaderSize = 2
    MaxExpectedMessageSize = 2
    Paths = {GtName, PlainName, TextName}
    OsiPaths = {GtName, PlainName}
    TypeOfName <- MCTypeOfName
    Disks <- MCDisks
    Targets = {GtName}
    MaxBytes = 5
SPECIFICATION ExchangeSpec
INVARIANTS
    ExchangeTypeOK
    HasNextExact
    ReadsBack
    StreamReadsBack
PROPERTIES
    Drains
    StreamDrains
