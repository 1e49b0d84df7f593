\* Every type of packet, command and value; one byte damaged, or a cut.
SPECIFICATION Spec
CONSTANTS
  CommandTypeName <- MCName
  Packets <- MCPackets
  Builders <- MCBuilders
  Messages <- MCMessages
  Damage <- MCDamage
  Cuts <- MCCuts
INVARIANTS DamageShows CleanIsComplete EchoShows RoundTrip CommandKeepsType
