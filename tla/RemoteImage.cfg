SPECIFICATION FairImageSpec
CONSTANTS
    Urls = {u1, u2, u3}
    NoUrl = NoUrl
    MaxDownloads = 2
INVARIANTS
    OwnImage
    ShowsOrWaits
PROPERTY ImageArrives
CHECK_DEADLOCK FALSE
