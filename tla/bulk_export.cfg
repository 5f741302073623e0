SPECIFICATION FairSpec
CONSTANTS
    Exports = {1, 2}
    Items = {1, 2, 3, 4}
    Types = {1, 2}
    TypeOf <- MCTypeOf
    Limit = 2
    Retries = 2
    AtFirst = {1, 3}
    MaxChanges = 1
    MaxKills = 1
CHECK_DEADLOCK FALSE
INVARIANTS
    ExportTypeOK
    Complete
    DownloadExists
    OnlyOffered
PROPERTIES
    ExportEnds
    
