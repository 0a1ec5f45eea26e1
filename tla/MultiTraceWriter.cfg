CONSTANTS
    GroundTruth = GroundTruth
    SensorView = SensorView
    aGt = aGt
    aSv = aSv
    mcapPath = mcapPath
    textPath = textPath
    MessageTypes = {GroundTruth, SensorView}
    None = None
    Topics = {t1, t2}
    Messages = {aGt, aSv}
    TypeOf <- MCTypeOf
    OsiVersions = {v1}
    Paths = {mcapPath, textPath}
    McapPaths = {mcapPath}
    MaxMessages = 2
    MaxMetadata = 2
SPECIFICATION WriterSpec
INVARIANTS
    RegistryMirrors
    AcceptedOnTopic
