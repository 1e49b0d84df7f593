---------------------------- MODULE CommandMessage ----------------------------
(***************************************************************************)
(* protocol_parser::CommandBuilder, Message::toBinary, Message::fromBinary *)
(* and Command: how a command is built, written and read back.             *)
(*                                                                         *)
(* A message keeps its fields in an unordered map, so toBinary writes them *)
(* in any order: here a message has a sequence of <<name, value>> pairs,   *)
(* and a value its type on the wire and its bytes.  The characters of an   *)
(* IMEI are their distances from '0', modulo 256.                          *)
(***************************************************************************)
EXTENDS Integers, Sequences, FiniteSets, SequencesExt

CONSTANT CommandTypeName   (* the bytes of the name "command_type" *)

(* The types of a value on the wire. *)
Bool == 1   Int8 == 2   UInt8 == 3   UInt32 == 7   Float == 10   Text == 12   Binary == 13

(* The bytes of a value, by its type; a text and binary data have any       *)
(* number, and integers of 64 bits none that are written.                   *)
Width == <<0, 1, 1, 1, 2, 2, 4, 4, 0, 0, 4, 8>>
IsValue(value) ==
  /\ value.type = Bool => value.data \in {<<0>>, <<1>>}
  /\ value.type \notin {Text, Binary} => Len(value.data) = Width[value.type + 1]

(* The fields of a message: no name is there twice. *)
Fields == Seq(Seq(0..255) \X [type : 0..13, data : Seq(0..255)])
IsFieldMap(fields) ==
  /\ fields \in Fields
  /\ \A i \in DOMAIN fields : IsValue(fields[i][2])
  /\ \A i, j \in DOMAIN fields : fields[i][1] = fields[j][1] => i = j

IsMessage(m) ==
  /\ m \in [type : 0..255, major : 0..255, minor : 0..255, imei : Seq(0..255),
            sequence : Nat, fields : Fields]
  /\ IsFieldMap(m.fields)

CommandTypes == [REBOOT |-> 1, SUBSCRIBE |-> 2, UNSUBSCRIBE |-> 3, UPDATE_CONFIG |-> 4,
                 GET_STATUS |-> 5, SET_INTERVAL |-> 6, FACTORY_RESET |-> 7]

(* The message type of a command type, and the way back. *)
MessageTypeOf(command) == IF command \in 1..4 THEN command + 4 ELSE 5
CommandTypeOf(type) == IF type \in 5..8 THEN type - 4 ELSE 1

(* An IMEI of another length is refused before there is a message; one with *)
(* other characters is not.                                                 *)
IsImei(imei) == Len(imei) = 15 /\ \A i \in 1..15 : imei[i] \in 0..9

LittleEndian(n) == <<n % 256, (n \div 256) % 256, (n \div 65536) % 256, n \div 16777216>>

(* CommandBuilder::build, for parameters given as a sequence of pairs: the  *)
(* type of the command is a field like the parameters, unless a parameter   *)
(* has its name.                                                            *)
Build(builder) ==
  LET typed == IF \E i \in DOMAIN builder.parameters : builder.parameters[i][1] = CommandTypeName
                 THEN <<>>
                 ELSE <<<<CommandTypeName, [type |-> UInt32, data |-> LittleEndian(builder.type)]>>>>
  IN  [type |-> MessageTypeOf(builder.type), major |-> 1, minor |-> 0, imei |-> builder.imei,
       sequence |-> builder.sequence, fields |-> typed \o builder.parameters]
-----------------------------------------------------------------------------
(* Integers of 64 bits are left out altogether, with their type. *)
WriteValue(value) ==
  CASE value.type \in {8, 9} -> <<>>
    [] value.type \in {Text, Binary} -> <<value.type, Len(value.data) % 256>> \o value.data
    [] OTHER -> <<value.type>> \o value.data

WriteField(field) == <<Len(field[1]) % 256>> \o field[1] \o WriteValue(field[2])

Xor(bytes) ==
  LET bit(weight) ==
        IF Cardinality({i \in 1..Len(bytes) : (bytes[i] \div weight) % 2 = 1}) % 2 = 1 THEN weight ELSE 0
  IN  bit(1) + bit(2) + bit(4) + bit(8) + bit(16) + bit(32) + bit(64) + bit(128)

(* Mutant: the sequence number is written in the other order. *)
ToBinaryBigEndian(m) ==
  LET imei == [i \in 1..15 |-> IF i <= Len(m.imei) THEN m.imei[i] ELSE 0]
      body == <<170, 187, m.type, m.major, m.minor>> \o imei \o Reverse(LittleEndian(m.sequence))
                \o <<Len(m.fields) % 256>> \o FlattenSeq([i \in DOMAIN m.fields |-> WriteField(m.fields[i])])
  IN  Append(body, Xor(body))

(* Mutant: the version is written before the type, where the parser has it. *)
ToBinaryVersionFirst(m) ==
  LET imei == [i \in 1..15 |-> IF i <= Len(m.imei) THEN m.imei[i] ELSE 0]
      body == <<170, 187, m.major, m.minor, m.type>> \o imei \o LittleEndian(m.sequence)
                \o <<Len(m.fields) % 256>> \o FlattenSeq([i \in DOMAIN m.fields |-> WriteField(m.fields[i])])
  IN  Append(body, Xor(body))

(* Message::toBinary. *)
ToBinary(m) ==
  LET imei == [i \in 1..15 |-> IF i <= Len(m.imei) THEN m.imei[i] ELSE 0]
      body == <<170, 187, m.type, m.major, m.minor>> \o imei \o LittleEndian(m.sequence)
                \o <<Len(m.fields) % 256>> \o FlattenSeq([i \in DOMAIN m.fields |-> WriteField(m.fields[i])])
  IN  Append(body, Xor(body))
-----------------------------------------------------------------------------
(* std::to_string of a byte. *)
Decimal(b) ==
  IF b < 10 THEN <<b>> ELSE IF b < 100 THEN <<b \div 10, b % 10>>
  ELSE <<b \div 100, (b \div 10) % 10, b % 10>>

(* The value at an offset, with the offset behind it, or behind as much of  *)
(* it as was read.  A type that is not known is skipped without its bytes.  *)
ReadValue(data, offset) ==
  LET type == data[offset + 1]
      left == Len(data) - (offset + 1)
      width == IF type = Float THEN 4 ELSE 1
      bytes == SubSeq(data, offset + 2, offset + 1 + width)
  IN  CASE type \in {Int8, UInt8, Float} /\ left >= width ->
             [offset |-> offset + 1 + width, value |-> {[type |-> type, data |-> bytes]}]
        [] type = Bool /\ left >= 1 ->
             [offset |-> offset + 2,
              value |-> {[type |-> Bool, data |-> IF bytes = <<0>> THEN <<0>> ELSE <<1>>]}]
        [] type = Text /\ left >= 1 ->
             LET length == bytes[1]
             IN  IF length < left
                   THEN [offset |-> offset + 2 + length,
                         value |-> {[type |-> Text,
                                     data |-> SubSeq(data, offset + 3, offset + 2 + length)]}]
                   ELSE [offset |-> offset + 2, value |-> {}]
        [] OTHER -> [offset |-> offset + 1, value |-> {}]

(* addField: a name that is there keeps its value. *)
AddField(fields, name, value) ==
  IF name \in DOMAIN fields \/ value = {} THEN fields
  ELSE [n \in DOMAIN fields \cup {name} |->
          IF n = name THEN CHOOSE v \in value : TRUE ELSE fields[n]]

(* One turn of the loop over the fields. *)
ReadField(data, sofar) ==
  LET nameEnd == sofar.offset + 1 + data[sofar.offset + 1]
      read == ReadValue(data, nameEnd)
  IN  IF sofar.stop \/ sofar.offset >= Len(data) - 1 \/ nameEnd >= Len(data)
        THEN [sofar EXCEPT !.stop = TRUE]
        ELSE [stop |-> FALSE, offset |-> read.offset,
              fields |-> AddField(sofar.fields, SubSeq(data, sofar.offset + 2, nameEnd), read.value)]

(* The reader after each of its turns, one for every field announced. *)
ReadFields(data) ==
  LET turn[i \in 0..data[25]] ==
        IF i = 0 THEN [stop |-> FALSE, offset |-> 25, fields |-> [n \in {} |-> 0]]
        ELSE ReadField(data, turn[i - 1])
  IN  turn

(* Message::fromBinary; the checksum is not looked at. *)
FromBinary(data) ==
  IF Len(data) < 25 \/ data[1] # 170 \/ data[2] # 187 THEN [thrown |-> TRUE]
  ELSE [thrown |-> FALSE, type |-> data[3], major |-> data[4], minor |-> data[5],
        imei |-> FlattenSeq([i \in 1..15 |-> Decimal(data[i + 5])]),
        sequence |-> SubSeq(data, 21, 24),
        fields |-> ReadFields(data)[data[25]].fields]

(* Mutant: the type of the message is not asked. *)
GetTypeFromField(type, fields) ==
  IF CommandTypeName \in DOMAIN fields /\ fields[CommandTypeName].type \in {Bool, Int8, UInt8, UInt32}
    THEN fields[CommandTypeName].data[1]
    ELSE CommandTypes.REBOOT

(* Command::getType.  The field decides when it is there and a number; what *)
(* becomes of a number with a fraction is left out.                         *)
GetType(type, fields) ==
  IF CommandTypeName \in DOMAIN fields /\ fields[CommandTypeName].type \in {Bool, Int8, UInt8, UInt32}
    THEN fields[CommandTypeName].data[1]
    ELSE CommandTypeOf(type)
=============================================================================
