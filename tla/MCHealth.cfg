CONSTANTS
  Slots = {p1, p2}
  None = None
SPECIFICATION FairSpec
INVARIANT BannerIsRight
PROPERTY BannerSettles
