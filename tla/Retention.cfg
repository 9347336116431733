SPECIFICATION FairSpec
CONSTANTS
    Run = {1, 2}
    Lifetime = 1
    Batch = 1
    Refused = {1}
    Deleter = {d1, d2}
    Purger = {purge}
    Reader = {reader}
    MaxFaults = 1
INVARIANTS
    NoLostDocument
PROPERTIES
    NothingComesBack
    DocumentsGo
