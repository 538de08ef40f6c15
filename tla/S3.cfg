SPECIFICATION S3Spec
CONSTANTS
    w1 = w1
    w2 = w2
    nobody = nobody
    notext = notext
    DocsRoot <- MCDocsRoot
    SyncDest <- MCSyncDest
    SyncFiles <- MCSyncFiles
    Workers = {w1, w2}
    Calls = {"ls", "read", "write", "edit", "grep", "glob"}
    Paths <- MCPaths
    Texts <- MCTexts
    Words = {"x"}
    Olds <- MCOlds
    News <- MCNews
    Garbled = {"z"}
    Resends = 1
    Objects0 <- MCObjects0
    NoWorker = nobody
    NoText = notext
SYMMETRY Symmetric
INVARIANTS
    S3TypeOK
    RootIsolated
    FoundIsReadable
    WalkFindsAll
    EditsDerive
    AnswerTells
    GrepTruthful
