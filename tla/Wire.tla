--------------------------------- MODULE Wire ---------------------------------
(***************************************************************************)
(* The two formats of protocol_parser on a line that may damage what it    *)
(* carries: packets of devices for the parser, commands and messages for   *)
(* Message::fromBinary, and commands that come back to the parser.         *)
(***************************************************************************)
EXTENDS Packet, CommandMessage

CONSTANTS
  Packets,      (* what devices send                                         *)
  Builders,     (* command builders: type, IMEI, sequence, parameters        *)
  Messages,     (* other messages that are written                           *)
  Damage,       (* bound: the bytes that another byte may turn into          *)
  Cuts          (* bound: the lengths a packet may be cut to                 *)

ASSUME WireAssumption ==
  /\ \A p \in Packets : p \in Seq(Byte) /\ Len(p) > 0
  /\ CommandTypeName \in Seq(Byte)
  /\ \A b \in Builders : /\ b.type \in 1..7 /\ b.imei \in Seq(Byte) /\ b.sequence \in Nat
                        /\ IsFieldMap(b.parameters)
  /\ \A m \in Messages : IsMessage(m)
  /\ Damage \subseteq Byte /\ Cuts \subseteq Nat

VARIABLES
  stage,      (* idle, flight, parsed or decoded                             *)
  from,       (* what is under way: a packet, a command or a message         *)
  sent,       (* the message it was written from, of a command or a message  *)
  original,   (* its bytes when they were sent                               *)
  wire,       (* its bytes now                                               *)
  damage,     (* none, byte or cut                                           *)
  got,       (* the result of Parse or FromBinary                            *)
  lastError   (* Parser::lastError_: is there one                            *)

vars == <<stage, from, sent, original, wire, damage, got, lastError>>

Nothing == [thrown |-> TRUE]

Init ==
  /\ stage = "idle" /\ from = "packet" /\ sent = Nothing
  /\ original = <<>> /\ wire = <<>> /\ damage = "none"
  /\ got = Nothing /\ lastError = FALSE

Launch(kind, message, bytes) ==
  /\ stage = "idle" /\ stage' = "flight"
  /\ from' = kind /\ sent' = message
  /\ original' = bytes /\ wire' = bytes /\ damage' = "none"
  /\ UNCHANGED <<got, lastError>>

SendPacket == \E p \in Packets : Launch("packet", Nothing, p)

(* The fields leave the map in any order. *)
Orders(m) == {[m EXCEPT !.fields = [i \in DOMAIN m.fields |-> m.fields[o[i]]]] :
                o \in {f \in [DOMAIN m.fields -> DOMAIN m.fields] :
                         \A i, j \in DOMAIN m.fields : f[i] = f[j] => i = j}}

SendCommand ==
  \E b \in Builders :
    /\ Len(b.imei) = 15
    /\ \E m \in Orders(Build(b)) :
         Launch("command", [type |-> b.type, message |-> m], ToBinary(m))

SendMessage ==
  \E m \in Messages : \E o \in Orders(m) : Launch("message", [message |-> o], ToBinary(o))

(* Bound: the bytes of packets only; fromBinary does not look at the        *)
(* checksum, and nothing is claimed of a damaged command.                   *)
DamageByte ==
  /\ stage = "flight" /\ damage = "none" /\ from = "packet"
  /\ \E i \in 1..Len(wire), b \in Damage :
       b # wire[i] /\ wire' = [wire EXCEPT ![i] = b]
  /\ damage' = "byte"
  /\ UNCHANGED <<stage, from, sent, original, got, lastError>>

Cut ==
  /\ stage = "flight" /\ damage = "none"
  /\ \E n \in Cuts : n < Len(wire) /\ wire' = SubSeq(wire, 1, n)
  /\ damage' = "cut"
  /\ UNCHANGED <<stage, from, sent, original, got, lastError>>

(* Parser::parse refuses an empty packet before it touches lastError_. *)
ParseWire ==
  /\ stage = "flight" /\ from \in {"packet", "command"}
  /\ stage' = "parsed"
  /\ got' = Parse(wire)
  /\ lastError' = IF wire = <<>> THEN lastError ELSE Parse(wire).thrown
  /\ UNCHANGED <<from, sent, original, wire, damage>>

DecodeWire ==
  /\ stage = "flight" /\ from \in {"command", "message"}
  /\ stage' = "decoded"
  /\ got' = FromBinary(wire)
  /\ UNCHANGED <<from, sent, original, wire, damage, lastError>>

Finish ==
  /\ stage \in {"parsed", "decoded"}
  /\ stage' = "idle" /\ from' = "packet" /\ sent' = Nothing
  /\ original' = <<>> /\ wire' = <<>> /\ damage' = "none" /\ got' = Nothing
  /\ UNCHANGED lastError

Next ==
  \/ SendPacket \/ SendCommand \/ SendMessage
  \/ DamageByte \/ Cut
  \/ ParseWire \/ DecodeWire \/ Finish

Spec == Init /\ [][Next]_vars
-----------------------------------------------------------------------------
TypeOK ==
  /\ stage \in {"idle", "flight", "parsed", "decoded"}
  /\ from \in {"packet", "command", "message"}
  /\ damage \in {"none", "byte", "cut"}
  /\ from = "packet" => original \in Seq(Byte) /\ wire \in Seq(Byte)
  /\ lastError \in BOOLEAN

(* A packet that the parser takes without an error is not taken so after    *)
(* one of its bytes, whichever and whatever to, has changed.                *)
DamageShows ==
  stage = "parsed" /\ from = "packet" /\ damage = "byte" /\ Clean(Parse(original)) => ~Clean(got)

(* What the parser takes without an error the validator takes too, but for  *)
(* values out of range, types without rules, and the versions that only the *)
(* validator knows are not there.                                           *)
CleanIsComplete ==
  stage = "parsed" /\ Clean(got) =>
    \A complaint \in ValidateMessage(got) :
      \/ complaint[2] \in {"value", "strict"}
      \/ complaint = <<"version", "support">>
           /\ (got.header.major = 0 \/ (got.header.major = 1 /\ got.header.minor > 1))

(* A command that comes back to the parser is never taken for a packet of a *)
(* device without an error: the two formats differ, and only the magic      *)
(* bytes and the checksum agree.                                            *)
EchoShows ==
  stage = "parsed" /\ from = "command" /\ damage = "none" => ~Clean(got)

(* The values that fromBinary reads back as they were written.  An absent   *)
(* value is lost, and after one of another type, or a name of 256 bytes or  *)
(* more, what is read is noise.                                             *)
Known == {Bool, Int8, UInt8, Float, Text}
Kept(field) == field[2].type \in Known /\ Len(field[2].data) < 256
InStep(field) == Len(field[1]) < 256 /\ (Kept(field) \/ field[2].type = 0)

(* A message read back has the header it was written with, and every field  *)
(* that was announced before the first that puts the reader out of step, in *)
(* any order of the map.  An IMEI of 15 characters that are not all digits  *)
(* does not become one.                                                     *)
RoundTrip ==
  stage = "decoded" /\ damage = "none" =>
    LET m == sent.message
    IN  /\ ~got.thrown
        /\ got.type = m.type /\ got.major = m.major /\ got.minor = m.minor
        /\ got.sequence = LittleEndian(m.sequence)
        /\ IsImei(m.imei) => got.imei = m.imei
        /\ Len(m.imei) = 15 /\ ~IsImei(m.imei) => ~IsImei(got.imei)
        /\ \A i \in 1..(Len(m.fields) % 256) :
             (\A j \in 1..i : InStep(m.fields[j])) /\ Kept(m.fields[i]) =>
               m.fields[i][1] \in DOMAIN got.fields /\ got.fields[m.fields[i][1]] = m.fields[i][2]

(* The reader, in step or not, can come upon the name of the type field     *)
(* with a value behind it of a type that it knows.                          *)
NameReadable(bytes) ==
  \E i \in 1..Len(bytes) :
    /\ i + bytes[i] < Len(bytes)
    /\ SubSeq(bytes, i + 1, i + bytes[i]) = CommandTypeName
    /\ bytes[i + bytes[i] + 1] \in Known

(* The type field is read last, after fields that keep the reader in step. *)
TypeFieldLast ==
  LET fields == sent.message.fields
      N == Len(fields)
  IN  /\ N \in 1..255
      /\ fields[N][1] = CommandTypeName /\ fields[N][2].type = UInt32
      /\ Len(CommandTypeName) < 256
      /\ \A j \in 1..N - 1 : InStep(fields[j])

(* A command read back is asked for its type: the four types that have a    *)
(* message type of their own are recovered and the other three arrive as a  *)
(* reboot, although the field that says the type is never read, and though  *)
(* it and numbers of 16, 32 or 64 bits among the parameters make noise of   *)
(* what follows.  Not so when the noise can spell the name of the field     *)
(* with a value: a parameter has that name, or a text has it inside and the *)
(* reader is not known to pass over it in step.                             *)
CommandKeepsType ==
  stage = "decoded" /\ from = "command" /\ damage = "none" /\ (~NameReadable(wire) \/ TypeFieldLast) =>
    GetType(got.type, got.fields) = IF sent.type \in 1..4 THEN sent.type ELSE CommandTypes.REBOOT
=============================================================================
