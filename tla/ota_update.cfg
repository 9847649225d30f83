SPECIFICATION FairSpec
CONSTANTS
  Releases <- TestReleases
  Broken <- TestBroken
  FactoryImage = factory
  NoRelease = none
  NoIntent = nothing
  ReleaseLimit = 2
  img1 = img1
  img2 = img2
  img3 = img3
INVARIANTS OtaTypeOK AlwaysBootable ConfirmedIsRunning DeclinedMeansInstalled
PROPERTIES NeverDowngrades UpdateSettles
