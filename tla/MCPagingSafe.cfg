\* Lists of up to five items, three pages, two changes on the way; searches of
\* three results.  One walk: its end is no deadlock.
SPECIFICATION Spec
CONSTANTS
    Item = {1, 2, 3, 4, 5}
    Time = {1, 2}
    PageSize = 2
    MaxRanked = 3
    MaxPage = 3
    MaxChanges = 2
    MaxText = 4
INVARIANTS WalkSeesAll NeverAnEmptyPage NeighboursMatchList  RoutesHighlightAlike
PROPERTY WalkEnds
CHECK_DEADLOCK FALSE
