SPECIFICATION GroupsSpec
CONSTANTS
  p1 = p1
  p2 = p2
  h1 = h1
  h2 = h2
  h3 = h3
  f1 = f1
  f2 = f2
  NoHandle = NoHandle
  Proc = {p1, p2}
  Handle = {h1, h2, h3}
  FieldHandle = {f1, f2}
  MaxFailures = 3
SYMMETRY symmetry
INVARIANTS GroupsTypeOK OneGroupPerFailure FieldGroupsFreed OwnGroup
