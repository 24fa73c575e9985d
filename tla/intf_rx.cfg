SPECIFICATION Spec
CONSTANTS
  Ids = {i1, i2, i3}
  MaxFp = 2
  MinLag = 4
  MaxLag = 5
  OffsetBd = 6
  MaxBd = 8
  Numbers = {0, 1, 2, 4, 5, 6, 8}
  Ports = {0, 1, 3}
  Vifs = {1, 2, 4}
  Bds = {0, 1}
  NoVif = NoVif
SYMMETRY Symmetry
INVARIANTS ActiveIsLinked OnlyLinkedGetIt LinkedIsServed
