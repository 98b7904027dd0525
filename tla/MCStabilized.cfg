CONSTANTS
  MaxNodes = 2
  MaxEdges = 2
  MaxVersion = 2
SPECIFICATION Spec
INVARIANTS TypeOK CountersExact NoTombstoneSkipped EndpointsKept NoResurrection PurgeKeepsLive
PROPERTY RefinesMultigraph
