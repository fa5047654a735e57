\* A patch may store what does not read back.
CONSTANTS
  ecapa = ecapa
  resnet = resnet
  Models = {ecapa, resnet}
  EnvModel = ecapa
  Dim <- DimByModel
  Clips = {c1}
  Live = {l1}
  Pulls = {p1}
  FirstStamp = ecapa
  Patches = {"int", "float"}
  None = None
SPECIFICATION Spec
INVARIANT
  AcceptedIsReadable
