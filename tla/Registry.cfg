\* One model, two processes, a weights file that changes.
SPECIFICATION CommandSpec
CONSTANTS
  m1 = m1
  bad = bad
  s1 = s1
  w = w
  t = t
  d1 = d1
  ModelId = {m1, bad}
  ValidId = {m1}
  Stem = {s1}
  FileStem <- OneStem
  Path = {w, t}
  GgufPath = {w}
  SafetensorsPath = {}
  MutablePath = {w}
  Content = {c1, c2}
  Details = {d1}
  Proc = {p1, p2}
  Inode = {i1, i2}
  None = None
  Absent = Absent
  Blank = Blank
  Garbled = Garbled
  PullArgs <- Args
  Exclusive = TRUE
SYMMETRY Symmetric
INVARIANTS TypeOK PublishedWhole ReadersNeverFail
PROPERTIES PublishesItsOwnManifest AtomicRegister PullReportsWhatItLeft
