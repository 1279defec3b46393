\* Three maps on two layouts, four operations, a reader up to two commands
\* behind, one failing write.
SPECIFICATION Spec
SYMMETRY Symmetry
CONSTANTS
  Maps = {m1, m2, m3}
  Layouts = {l1, l2}
  Shapes = {s1, s2}
  Values = {v1, v2, w}
  Sparse = {w}
  Descs = {1, 2, 3, 4, 5}
  MaxChanges = 4
  MaxStream = 2
  MaxFaults = 1
  None = None
INVARIANTS TypeOK NeverRefused Mirror NoLayoutLeaks
PROPERTIES LostOnlyByOverflow ImplementsReplica
