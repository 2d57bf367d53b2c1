\* Two settings that fit together when neither value is long, a program of
\* two entries, a picture of one sector, one rewrite cut short.
CONSTANTS
  Name = {n1, n2}
  Value = {short, long}
  Long = {long}
  Absent = Absent
  Capacity = 2
  Slot = {1, 2}
  Entry = {e1}
  PictureSectors = 1
  FaultBound = 1
SPECIFICATION FairSpec
INVARIANTS CacheCoherent PrivateKept MirrorsAgree
PROPERTIES RewritesExactly ImplementsConfigStore PictureEnds
