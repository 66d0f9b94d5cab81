SPECIFICATION FairSpec
CONSTANTS
  m = m  w1 = w1  w2 = w2
  Threads = {m, w1, w2}
  Master = m
  DequeSize = 2
  NTasks = 3
  Programs <- MCPrograms
INVARIANTS NothingLeft TiedTasksNest EachTaskOnce
PROPERTIES TaskwaitWaits EveryoneLeaves
