SPECIFICATION Spec
CONSTANTS
  u1 = u1  s1 = s1  t1 = t1  o1 = o1
  c1 = c1  c2 = c2  w1 = w1  p1 = p1  i1 = i1
  Users = {u1}
  Services = {s1}
  Teams = {t1}
  Objects = {o1}
  Mappings = {i1}
  Procs = {p1}
  Checks = {c1, c2}
  Writers = {w1}
  MaxVersion = 1
SYMMETRY Symmetry
INVARIANTS
  AnswerFresh
  DelegatedNeedsBoth
CHECK_DEADLOCK FALSE
