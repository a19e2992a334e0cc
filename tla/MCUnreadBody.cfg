SPECIFICATION Spec
CONSTANTS
    Uploaded = 4
    UnsatLimit = 4
    Reserve = 5000
    Ids <- MCIds
    PageSize = 1
    MaxBookmarkPages = 2
    Downloading = 2
    Addresses <- MCAddresses
    Prompt = TRUE
    FirstSites <- MCTwoBookmarks
    Changing = {}
    ClientLists <- MCListed
    MaxDisturbances = 1
INVARIANTS RefusedByMam
CHECK_DEADLOCK FALSE
