SPECIFICATION Spec
CONSTANTS
    MostLines = 12
    Types <- MCTypes
    DimsOf <- MCDims
    MaxRank = 3
    MaxDim = 9
    Sources <- MCSources
    Streams <- MCStreams
INVARIANTS RoundTrip NeighboursKept TokensStandAlone CommentsCover LinesStandAlone
PROPERTY MovesForward
