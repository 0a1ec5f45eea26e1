CONSTANTS
    GroundTruth = GroundTruth
    SensorView = SensorView
    gtOld = gtOld
    gtNew = gtNew
    aSv = aSv
    v1 = v1
    v2 = v2
    mcapPath = mcapPath
    osiPath = osiPath
    t1 = t1
    MessageTypes = {GroundTruth, SensorView}
    None = None
    Topics = {t1}
    Messages = {gtOld, gtNew, aSv}
    TypeOf <- MCTypeOf
    VersionOf <- MCVersionOf
    Stem <- MCStem
    OsiVersions = {v1, v2}
    Paths = {mcapPath, osiPath}
    McapPaths = {mcapPath}
    MaxMessages = 3
    MaxMetadata = 1
    Helpers = {h1, h2}
    HelperTopics = {t1, GroundTruth}
    MaxHelped = 2
SPECIFICATION HelperSpec
INVARIANTS
    TypeOK
    OneChannel
    SpecificationTrue
    TakenInFile
    HelpersApart
