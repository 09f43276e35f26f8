CONSTANTS
  w1 = w1
  w2 = w2
  r1 = r1
  o1 = o1
  o2 = o2
  s1 = s1
  Workers = {w1, w2}
  Referees = {r1}
  Orders = {o1, o2}
  Submissions = {s1}
  MaxAmount = 2
  MaxRows = 3
  MaxFaults = 1
SPECIFICATION Spec
SYMMETRY Symmetry
INVARIANTS
  RewardsArePaid
  ReviewsAgree
  RewardedOnce
  NeverOverdrawn
CHECK_DEADLOCK FALSE
