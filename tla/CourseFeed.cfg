SPECIFICATION FairSpec
CONSTANTS
    Courses = {c1, c2, c3}
    Imageless = {c3}
    NoCourse = NoCourse
    MaxViews = 2
    MaxQueue = 2
INVARIANTS
    FeedInv
    FrontShowsFeed
    StopsOnlyAfterTakeBack
PROPERTIES
    CoursesStay
    CoursesArrive
