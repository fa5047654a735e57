\* A stamped store with a clip that failed after its rows were written.
CONSTANTS
  ecapa = ecapa
  resnet = resnet
  Models = {ecapa, resnet}
  EnvModel = ecapa
  Dim <- DimByModel
  Clips = {c1}
  Live = {l1}
  Pulls = {p1}
  FirstStamp = ecapa
  Patches = {"int"}
  None = None
SPECIFICATION Spec
INVARIANT
  EveryVoiceAccounted
