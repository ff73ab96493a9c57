SPECIFICATION Spec
CONSTANTS
  u1 = u1
  u2 = u2
  u3 = u3
  u4 = u4
  u5 = u5
  d1 = d1
  e1 = e1
  e2 = e2
  x1 = x1
  Null = Null
  NoAsset = NoAsset
  Upload <- Uploads
  ImageOf <- Images
  ByteSize <- Sizes
  MaxAssets = 2
  MaxBytes = 3
  Dispatch <- OneDispatch
  Edit <- TwoEdits
  Deletion <- OneDeletion
SYMMETRY Symmetry
INVARIANTS
  AssetsInUseAreStored
PROPERTIES
  UploadsStayWithinTheBrief
CHECK_DEADLOCK FALSE
