SPECIFICATION Spec
CONSTANTS
  Conns = {c1, c2}
  NReactors = 1
  NAcceptors = 2
  Timed = {1}
  Modes = {"tcp", "https", "parts", "thread"}
  Kinds = {"ipv46", "ipv4", "uds"}
  PortTaken = TRUE
  MaxStarts = 2
CHECK_DEADLOCK FALSE
INVARIANTS NoneForgotten ReactorsServe CountIsOfHandlers
PROPERTIES CallsReturn BacklogServed
