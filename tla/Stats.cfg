SPECIFICATION Spec
CONSTANTS
  Deprecated = {1}
  Themes <- MCThemes
  KnownThemes = {"neonpuff", "soulpuff", "monochrome", "hexagram", "signal", "custom"}
  Scans = {"indexed"}
  MaxListed = 2
  MaxRows = 1
  MaxFetches = 2
  MaxVisits = 1
INVARIANTS BlankMeansCold UnmarkedIsFresh
PROPERTIES KeepsShowing DashboardSettles
CHECK_DEADLOCK FALSE
