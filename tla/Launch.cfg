SPECIFICATION Spec
CONSTANTS
  Wallets = {w1, w2}
  Nobody = Nobody
  Arts = {a, b}
  NoArt = NoArt
  MaxLaunches = 2
  MaxUploads = 2
  MaxRecent = 1
INVARIANTS
  AnnouncedWithItsArt
  UploadStaysOffered
PROPERTIES
  SubmissionsEnd
