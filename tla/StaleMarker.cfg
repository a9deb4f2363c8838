SPECIFICATION Spec
CONSTANTS
    d1 = d1  d2 = d2  d3 = d3  n1 = n1  n2 = n2  v1 = v1  v2 = v2  z1 = z1  z2 = z2
    NoDisk = NoDisk  NoName = NoName  NoZone = NoZone
    Kibi = 2
    IntLimit = 32
    MinimumBlockSize = 2
    MaximumBlockSize = 4
    DefaultBlockSize = 2
    MaxSizePerBlockByte = 2
    MinimumVolumeSize = 2
    DefaultVolumeSize = 3
    Zones = {z1, z2}
    DiskIds = {d1}
    Nodes = {n1}
    Names = {v1}
    Requests <- ResizeRequests
    InitialVolumes <- OneVolume
    StrictCloud = TRUE
    OneCallPerVolume = FALSE
    Disruptions = {"callFails"}
    MaxDisruptions = 1
INVARIANT MarkerMeansOwed
