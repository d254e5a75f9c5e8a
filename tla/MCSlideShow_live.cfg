SPECIFICATION FairSpec
CONSTANTS
  library = library
  uploads = uploads
  LibrarySize = 2
  Album <- MCAlbum
  Uploads = uploads
  Photos <- MCPhotos
  MaxPhotos = 2
  MaxShows = 2
  MaxRequests = 2
  MaxFaults = 1
PROPERTIES
  ShowGoesOn
  StoppedShowEnds
