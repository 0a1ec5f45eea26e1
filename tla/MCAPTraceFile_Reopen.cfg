CONSTANTS
    GroundTruth = GroundTruth
    SensorView = SensorView
    aGt = aGt
    aSv = aSv
    t1 = t1
    t2 = t2
    MessageTypes = {GroundTruth, SensorView}
    None = None
    Topics = {t1, t2}
    Messages = {aGt, aSv}
    TypeOf <- MCTypeOf
    MaxMessages = 2
    MaxOpens = 2
    Paths = {"trace", "other"}
    Target = "trace"
    Disks <- MCDisks
    GivenTopics = {t2}
SPECIFICATION FileSpec
INVARIANT EveryFileMetadata
