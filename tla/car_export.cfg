SPECIFICATION ExportFairSpec
CONSTANTS
    Blocks <- MCBlocks
    Root = "r"
    Links <- MCLinks
    Identity = {"i"}
    Lookahead = 2
    MaxBuffered = 1
    Streams <- MCStreams
CHECK_DEADLOCK FALSE
INVARIANT CanonicalOrder
INVARIANT GapFreeMeansStreamed
PROPERTY ExportSettles
