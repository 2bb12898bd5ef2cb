CONSTANTS
  Agents = {a1}
  Callers = {h1, s1}
  Users = {u1}
  Staff = {u1}
  BotListed = TRUE
  Handlers = {h1}
  Window = 1
  Allowance = 1
  Sessions = {s1}
SPECIFICATION OperatorsFairSpec
PROPERTIES
  SuccessWasTaken
  LimitLifts
  ClickIsAnswered
CHECK_DEADLOCK FALSE
