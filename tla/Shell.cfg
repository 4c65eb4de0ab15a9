\* Two shells, paths of up to three components, in an array of four.
SPECIFICATION Spec
CONSTANTS
    Entries <- Tree
    Programs <- Binaries
    KAI_TOKENS_MAX = 4
    Cap = 2
    Null = Null
    Words <- Typed
    MaxShells = 2
INVARIANTS PwdIsDirectory ChildSeesArgs UtilitiesFollowPwd
PROPERTIES CdFollowsEntries
CHECK_DEADLOCK FALSE
