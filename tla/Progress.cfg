\* One part of the control plane at a time, under fair scheduling.
SPECIFICATION FairSpec
CONSTANTS
  j1 = j1
  j2 = j2
  k1 = k1
  q1 = q1
  q2 = q2
  r1 = r1
  w1 = w1
  t1 = t1
  t2 = t2
  c1 = c1
  l1 = l1
  l2 = l2
  Free = Free
  s1 = s1
  h1 = h1
PROPERTIES RegisteredEndsHandled ControllersFinish
CHECK_DEADLOCK FALSE
