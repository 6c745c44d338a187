SPECIFICATION PresenceSpec
CONSTANTS
  Messages <- MCMessages
  StatusOf <- MCStatusOf
  TimeOf <- MCTimeOf
  DevidOf <- MCDevidOf
  Devids <- MCDevids
  NoDevid = NoDevid
  UserTimes = {0, 2}
  Handlers = {h1, h2}
  NoMessage = NoMessage
CHECK_DEADLOCK FALSE
SYMMETRY HandlerSymmetry
INVARIANT PresenceIsLatest
