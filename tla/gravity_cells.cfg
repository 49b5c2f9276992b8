SPECIFICATION GravitySpec
CONSTANTS
  s1 = s1
  s2 = s2
  s3 = s3
  LeafCount = 4
  Below <- MCBelow
  FarTests <- MCFarTests
  Periodics = {TRUE, FALSE}
  Spheres <- MCSpheres
  MasslessSets <- MCMasslessSets
INVARIANTS
  GravityTypeOK
  ListsCoverOnce
  ListsFit
  EverySphereFeltOnce
SYMMETRY SphereSymmetry
