\* Two posting threads; a broken connection may be replaced; empty payloads;
\* send() that fails for no lasting reason.
SPECIFICATION Spec
CONSTANTS
  Threads = {t1, t2}
  Lens = {0, 1, 2}
  Reconnectable = TRUE
  MaxPosts = 3
SYMMETRY ThreadSymmetry
INVARIANTS   StaysUsable NeverSendsUnconnected
  UnitsInOrder
\* no more than MaxPosts calls
CHECK_DEADLOCK FALSE
