CONSTANTS
    Hosts = {h1, h2}
    Rank <- MCRank
    Mux = Mux
    Names <- MCNames
    Missing = Missing
    Partial = Partial
    NameRank <- MCNameRank
    FreshName <- MCFresh
    DefaultName = "memory"
    Installed = {}
    MaxServices = 2
    MaxEdits = 1
    Scenes <- MCScenes
    MaxCuts = 1
SPECIFICATION Spec
INVARIANTS
    TypeOK
    AllRecoverable
    CommandsAgree
    FormBelongsToSelected
PROPERTIES
    SavesNoPendingEdit
    HostsAfterMux
CHECK_DEADLOCK FALSE
