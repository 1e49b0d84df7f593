\* One gateway instance, one message, two commands, two expiries.
SPECIFICATION FairSpec
CONSTANTS
  Garbage = Garbage
  TheSession = s1
  Sessions = {s1}
  Messages = {m1}
  Commands = {c1, c2}
  Addressees <- MCAddressees
  WantsAck = {m1}
  MaxExpiries = 2
INVARIANTS AnswersAgree
PROPERTIES HandlerReturns ImplementsAtMostOnce
