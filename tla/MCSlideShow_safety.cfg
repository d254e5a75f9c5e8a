SPECIFICATION Spec
CONSTANTS
  library = library
  uploads = uploads
  LibrarySize = 3
  Album <- MCAlbum
  Uploads = uploads
  Photos <- MCPhotos
  MaxPhotos = 3
  MaxShows = 2
  MaxRequests = 3
  MaxFaults = 0
INVARIANTS
  PictureMatchesNumber
  NextIsComing
  StopIsNotLost
