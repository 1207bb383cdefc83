\* One model on two devices, one of which this machine lacks; two callers.
\* Manifest and files change and the cache is cleared, twice in all.
SPECIFICATION Spec
CONSTANTS
  ModelId = {m}
  Path = {w, t}
  WeightsPath = {w}
  Content = {x, y}
  Details = {"qwen3"}
  None = None
  Caller = {c1, c2}
  Session = {s1, s2, s3}
  Device = {"auto", "cuda"}
  Accelerators = {"metal"}
  Cores = 16
  ThreadSetting = None
  Absent = Absent
  MaxChange = 2
SYMMETRY Symmetric
INVARIANTS TypeOK ServesPublishedWeights LoadedAsVerified SessionOfItsKey
