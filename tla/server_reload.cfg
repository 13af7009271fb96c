SPECIFICATION Spec
CONSTANTS
  r1 = r1
  r2 = r2
  r3 = r3
  r4 = r4
  q1 = q1
  q2 = q2
  u1 = u1
  u2 = u2
  None = None
  Runtimes = {r1, r2, r3, r4}
  Requests = {q1, q2}
  Units = {u1, u2}
  MaxSource = 2
  MaxEnv = 2
SYMMETRY Symmetry
INVARIANT WholeProgram
PROPERTY ServedProgram
CHECK_DEADLOCK FALSE
