SPECIFICATION FairSpec
CONSTANTS
  c1 = c1
  c2 = c2
  main = main
  jthread = jthread
  Connections = {c1, c2}
  Workers = {main, jthread}
  Main = main
  Keys = {"U", "R"}
  MaxFaults = 2
  MaxPosts = 4
CHECK_DEADLOCK FALSE
INVARIANTS
  StrandHoldsTheQueued
  SettledDogObeys
PROPERTIES
  PostsEnd
