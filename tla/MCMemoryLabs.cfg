SPECIFICATION MSpec
CONSTANTS
    Chunks = 2
    ChunkPages = 2
    MaxFailures = 2
INVARIANTS
    ReportsAsTold
    DiesOnlyUnchecked
    MappingsReturned
    MonitorRows
PROPERTIES
    MonitorStops
