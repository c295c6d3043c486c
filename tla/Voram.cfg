CONSTANTS
    InitialLevels = 1
    MaxLevels = 2
    Room = 3
    Header = 1
    Leaves <- MCLeaves
    MaxBlobs <- MCMaxBlobs
    MaxReads = 2
    Contents <- MCContents
SPECIFICATION Spec
INVARIANTS TypeOK NoFault KeyChain
PROPERTIES StashWaitsForRoom ImplementsBlobSpec
