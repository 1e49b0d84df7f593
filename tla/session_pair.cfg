\* Two gateway instances that share Redis, one message and one command.
SPECIFICATION Spec
CONSTANTS
  Garbage = Garbage
  Sessions = {s1, s2}
  Messages = {m1}
  Commands = {c1}
  Addressees <- MCAddressees
  WantsAck = {m1}
  MaxExpiries = 1
SYMMETRY Symmetry
INVARIANTS OncePerWindow AckedIsPublished LossNeedsMishap MarkedWasSent
