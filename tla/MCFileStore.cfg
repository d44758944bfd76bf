\* Saves in place, torn by crashes and failed writes, against a concurrent reader.
SPECIFICATION FileStoreSpec
CONSTANTS
    Parts = {"a", "b", "c", "d", "e"}
    Records <- StoredRecords
INVARIANTS
    FileStoreTypeOK
    LoadIsGenuine
    AckedIsWhole
PROPERTY QuietLoadSucceeds
