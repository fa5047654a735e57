\* Two models of different widths, a stamped store, a clip, a live enrolment and two pulls.
CONSTANTS
  ecapa = ecapa
  resnet = resnet
  Models = {ecapa, resnet}
  EnvModel = ecapa
  Dim <- DimByModel
  Clips = {c1}
  Live = {l1}
  Pulls = {p1, p2}
  FirstStamp = ecapa
  Patches = {"int"}
  None = None
SYMMETRY Interchangeable
SPECIFICATION Spec
INVARIANTS
  StoreInOneSpace
  NoVoiceLost
  CatalogIsHonest
