SPECIFICATION Spec
CONSTANTS
  Fields = {avatar, phone}
  Photo = avatar
  Contents = {v1}
  Before = v0
  MaxRequests = 2
  Viewed <- NewPhoto
  MaxStarts = 5
  Calls = {c1, c2}
  Endpoints <- Everything
INVARIANT TypeOK
INVARIANT ProfileBacked
INVARIANT ShowsItsPhotos
SYMMETRY CallSymmetry
CHECK_DEADLOCK FALSE
