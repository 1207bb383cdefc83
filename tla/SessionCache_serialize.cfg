\* Two callers of one model whose session is not cached yet.
SPECIFICATION Spec
CONSTANTS
  ModelId = {m}
  Path = {w, t}
  WeightsPath = {w}
  Content = {x}
  Details = {"qwen3"}
  None = None
  Caller = {c1, c2}
  Session = {s1, s2, s3}
  Device = {"cpu"}
  Accelerators = {}
  Cores = 8
  ThreadSetting = None
  Absent = Absent
  MaxChange = 0
INVARIANT SameModelSerializes
