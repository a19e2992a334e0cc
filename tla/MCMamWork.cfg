SPECIFICATION Spec
CONSTANTS
    Uploaded = 4
    UnsatLimit = 3
    Reserve = 5000
    Ids <- MCIds
    PageSize = 1
    MaxBookmarkPages = 2
    Downloading = 2
    Addresses <- MCAddresses
    Prompt = TRUE
    FirstSites <- MCSites
    Changing = {"t"}
    ClientLists <- MCLists
    MaxDisturbances = 1
INVARIANTS WedgeOnce NoSecondSale UnsatisfiedKept UseFoundAgain
PROPERTIES NotFreeSettles PurchaseSettles
CHECK_DEADLOCK FALSE
