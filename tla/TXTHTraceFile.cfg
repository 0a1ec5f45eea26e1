CONSTANTS
    GroundTruth = GroundTruth
    SensorView = SensorView
    version = version
    moving = moving
    comment = comment
    GtName = GtName
    PlainName = PlainName
    OtherName = OtherName
    MessageTypes = {GroundTruth, SensorView}
    Unknown = Unknown
    None = None
    Blank = Blank
    Fragment = Fragment
    Lines = {version, moving, comment, Blank, Fragment}
    Messages <- MCMessages
    Paths = {GtName, PlainName, OtherName}
    TxthPaths = {GtName, PlainName}
    TypeOfName <- MCTypeOfName
    Disks <- MCDisks
    Targets = {GtName}
    MaxLines = 3
SPECIFICATION FileSpec
INVARIANTS
    TxthTypeOK
    LinesInPlace
    ReadsBackDelimited
PROPERTY TxthDrains
