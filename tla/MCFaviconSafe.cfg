\* Two goroutines, files lost at any time, one restart.  Liveness: no symmetry.
SPECIFICATION FairSpec
CONSTANTS
    a = a
    b = b
    site1 = site1
    other = other
    png = png
    gif = gif
    Feed = {a, b}
    Host = {site1, other}
    Url = {png, gif}
    Ext = {"png", "gif"}
    Proc = {p1, p2}
    None = None
    Offers <- OffersOf
    ExtOf <- ExtOfUrl
    FeedHost <- Elsewhere
    SiteHost <- SiteHostOf
    MaxCrashes = 1
INVARIANTS FaviconInv AtMostOneFile
PROPERTY LostFileComesBack
