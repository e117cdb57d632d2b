SPECIFICATION Spec
CONSTANTS
    m1 = m1
    m2 = m2
    p1 = p1
    p2 = p2
    p3 = p3
    v1 = v1
    v2 = v2
    Moment = {m1, m2}
    First = {m1}
    Album = m1
    Days = {1, 2}
    Now = 17
    Zone = 9
    View = {v1, v2}
    Home = v2
    In <- Views
    Photo = {p1, p2, p3}
    Old = {p1, p2}
    Located = {p1, p2}
    Results <- Answers
    MaxLinks = 2
    MaxNotifications = 2
    MaxArrivals = 4
    Assets <- Names
    MaxFaults = 1
INVARIANTS
    CreatedIsListed
    DayIsPicked
    MapShowsItsView
    PlaceIsNamed
    LinkIsOfTarget
    NewestAreKept
CHECK_DEADLOCK FALSE
