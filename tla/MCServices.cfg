SPECIFICATION ServicesSpec
CONSTANTS
  Posts = {m1, m2}
  Requests = {r1, r2}
  NoPost = NoPost
  MaxPosts = 2
  Calls = {c1, c2, c3}
  Certain = {c1}
  Local = {c2}
  Workers = {w1, w2}
  Capacity = 2
  NoCall = NoCall
  MaxMishaps = 2
INVARIANTS NothingLeftBehind StopsInOrder GivenUpIsLetGo
PROPERTIES EveryPostAnswered NotRunTwice CallsEnd
CHECK_DEADLOCK FALSE
