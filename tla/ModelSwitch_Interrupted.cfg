\* A store from before stamping.
CONSTANTS
  ecapa = ecapa
  resnet = resnet
  Models = {ecapa, resnet}
  EnvModel = ecapa
  Dim <- DimByModel
  Clips = {c1}
  Live = {l1}
  Pulls = {p1}
  FirstStamp = None
  Patches = {"int"}
  None = None
SPECIFICATION Spec
INVARIANT
  InterruptingIsSafe
