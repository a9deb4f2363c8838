SPECIFICATION LiveSpec
CONSTANTS
    c1 = c1  c2 = c2
    Calls = {c1, c2}
    Info = c1
    Machines <- ThreeMachines
    MaxOwn = 6
    Disruptions = {"signal", "killed", "metadata", "listen", "grpcBreaks", "httpBreaks", "apiFails", "foreign"}
    MaxDisruptions = 3
INVARIANTS PluginInv ReadyMeansServing
PROPERTIES RunWaitsForHandlers StopsWhenAsked ServesInTheEnd RegistersInTheEnd OwnDisksDoNotCount AdmittedFits
