SPECIFICATION FairSpecReads
CONSTANTS
  u = u
  Loaders = {l1}
  Students = {s1, s2}
  MaxVersion = 2
  MaxLoads = 2
  Requests = {r1}
  Users = {u}
  UserOf <- MCUserOf
CHECK_DEADLOCK FALSE
PROPERTIES
  
  AnswersNeverGoBack
  
