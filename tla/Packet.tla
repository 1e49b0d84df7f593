-------------------------------- MODULE Packet --------------------------------
(***************************************************************************)
(* protocol_parser::Parser and protocol_parser::Validator: what a device   *)
(* sends, read byte by byte, and the rules its message has to meet.  The   *)
(* parser's options are never read, the validator has its default ones.    *)
(*                                                                         *)
(* A packet is a sequence of bytes.  A number is kept in the unit it has   *)
(* on the wire; one of four bytes is the signed number of its bits.        *)
(***************************************************************************)
EXTENDS Integers, Sequences, FiniteSets, SequencesExt

Byte == 0..255

MINIMUM_PACKET_SIZE == 25
HEADER_SIZE == 19
CHECKSUM_SIZE == 1
-----------------------------------------------------------------------------
Weight == <<1, 2, 4, 8, 16, 32, 64, 128>>

Bit(b, k) == (b \div Weight[k]) % 2

(* Bit k of the exclusive or of the first n bytes: it is set when it is set *)
(* in an odd number of them.                                                *)
Parity(p, n, k) == Cardinality({i \in 1..n : Bit(p[i], k) = 1}) % 2

Verified(p) == \A k \in 1..8 : Parity(p, Len(p) - 1, k) = Bit(p[Len(p)], k)

Unsigned(bytes) == FoldRight(LAMBDA b, high : b + 256 * high, bytes, 0)

Signed(bytes) ==
  FoldRight(LAMBDA b, high : b + 256 * high, bytes, IF Last(bytes) >= 128 THEN -1 ELSE 0)
-----------------------------------------------------------------------------
(* The digits of the IMEI, two to a byte; what is no digit is left out. *)
Imei(p) ==
  LET nibble == [i \in 1..15 |-> IF i % 2 = 1 THEN p[6 + (i - 1) \div 2] % 16
                                              ELSE p[6 + (i - 1) \div 2] \div 16]
  IN  SelectSeq(nibble, LAMBDA d : d <= 9)

ParseHeader(p) ==
  [major |-> p[3], minor |-> p[4], type |-> p[5], imei |-> Imei(p),
   sequence |-> Signed(SubSeq(p, 14, 17))]

HeaderErrors(h) ==
  {e \in {"version", "messageType", "imei"} :
     \/ e = "version" /\ (h.major > 2 \/ (h.major = 2 /\ h.minor > 0))
     \/ e = "messageType" /\ (h.type = 0 \/ h.type > 10)
     \/ e = "imei" /\ Len(h.imei) # 15}

(* Where the fields of a payload are: name, first byte, width, signed. *)
At(name, first, width, signed) ==
  [name |-> name, first |-> first, width |-> width, signed |-> signed]

Read(data, layout) ==
  [name \in {f.name : f \in layout} |->
     LET f == CHOOSE g \in layout : g.name = name
         bytes == SubSeq(data, f.first + 1, f.first + f.width)
     IN  IF f.signed THEN Signed(bytes) ELSE Unsigned(bytes)]

With(fields, name, value) ==
  [n \in DOMAIN fields \cup {name} |-> IF n = name THEN value ELSE fields[n]]

None == [n \in {} |-> 0]
Refused(what) == [fields |-> None, errors |-> {what}]
Taken(fields) == [fields |-> fields, errors |-> {}]

ParseGPSUpdate(data) ==
  IF Len(data) < 32 THEN Refused("gps_payload")
  ELSE Taken(Read(data,
         {At("latitude", 0, 4, TRUE), At("longitude", 4, 4, TRUE), At("altitude", 8, 2, TRUE),
          At("speed", 10, 2, FALSE), At("heading", 12, 2, FALSE), At("satellites", 14, 1, FALSE),
          At("hdop", 15, 2, FALSE), At("fix_type", 17, 1, FALSE),
          At("gps_timestamp", 18, 4, TRUE)}))

StatusFlags == <<"is_charging", "is_moving", "gps_enabled", "panic_button">>

ParseStatusUpdate(data) ==
  IF Len(data) < 8 THEN Refused("status_payload")
  ELSE LET plain == Read(data, {At("battery_level", 0, 1, FALSE), At("signal_strength", 1, 1, TRUE),
                                At("temperature", 2, 2, TRUE), At("voltage", 4, 2, FALSE),
                                At("status_flags", 6, 1, FALSE)})
       IN  Taken([n \in DOMAIN plain \cup ToSet(StatusFlags) |->
                    IF n \in DOMAIN plain THEN plain[n]
                    ELSE Bit(plain["status_flags"], CHOOSE k \in 1..4 : StatusFlags[k] = n)])

(* Data that does not fit is left out, and the timestamp read in its place. *)
ParseEventNotification(data) ==
  IF Len(data) < 2 THEN Refused("event_payload")
  ELSE LET length == data[2]
           fits == 2 + length <= Len(data)
           next == IF fits THEN 2 + length ELSE 2
           typed == Read(data, {At("event_type", 0, 1, FALSE)})
           full == IF fits THEN With(typed, "event_data", SubSeq(data, 3, 2 + length)) ELSE typed
       IN  Taken(IF next + 4 > Len(data) THEN full
                 ELSE With(full, "event_timestamp", Signed(SubSeq(data, next + 1, next + 4))))

(* Mutant: a short acknowledgment is left without its fields and without    *)
(* an error.                                                                *)
ParseCommandAckSilent(data) ==
  IF Len(data) < 6 THEN Taken(None)
  ELSE Taken(Read(data, {At("original_sequence", 0, 4, TRUE), At("result_code", 4, 1, FALSE)}))

ParseCommandAck(data) ==
  IF Len(data) < 6 THEN Refused("ack_payload")
  ELSE LET plain == Read(data, {At("original_sequence", 0, 4, TRUE), At("result_code", 4, 1, FALSE)})
           length == data[6]
       IN  Taken(IF 6 + length <= Len(data) /\ length > 0
                   THEN With(plain, "error_message", SubSeq(data, 7, 6 + length)) ELSE plain)

ParsePayload(data, type) ==
  CASE type = 1 -> ParseGPSUpdate(data)
    [] type = 2 -> ParseStatusUpdate(data)
    [] type = 3 -> ParseEventNotification(data)
    [] type = 4 -> ParseCommandAck(data)
    [] OTHER -> Taken([n \in {"raw_payload"} |-> data])

Thrown == [thrown |-> TRUE]

(* Mutant: the checksum is not looked at. *)
ParseUnchecked(p) ==
  IF Len(p) < MINIMUM_PACKET_SIZE \/ p[1] # 170 \/ p[2] # 187 THEN Thrown
  ELSE LET header == ParseHeader(p)
           body == ParsePayload(SubSeq(p, HEADER_SIZE + 1, Len(p) - CHECKSUM_SIZE), header.type)
       IN  [thrown |-> FALSE, header |-> header, fields |-> body.fields,
            errors |-> HeaderErrors(header) \cup body.errors]

(* Parser::parse. *)
Parse(p) ==
  IF Len(p) < MINIMUM_PACKET_SIZE \/ p[1] # 170 \/ p[2] # 187 THEN Thrown
  ELSE LET header == ParseHeader(p)
           body == ParsePayload(SubSeq(p, HEADER_SIZE + 1, Len(p) - CHECKSUM_SIZE), header.type)
       IN  [thrown |-> FALSE, header |-> header, fields |-> body.fields,
            errors |-> HeaderErrors(header) \cup body.errors
                         \cup (IF Verified(p) THEN {} ELSE {"checksum"})]

Clean(message) == ~message.thrown /\ message.errors = {}
-----------------------------------------------------------------------------
(* The validator's complaints: what is wrong with which part of a message. *)

ValidateHeader(h) ==
  {e \in {<<"imei", "format">>, <<"messageType", "range">>, <<"version", "support">>} :
     \/ e[1] = "imei" /\ Len(h.imei) # 15
     \/ e[1] = "messageType" /\ h.type \notin 1..10
     \/ e[1] = "version" /\ ~(h.major = 1 /\ h.minor <= 1) /\ ~(h.major = 2 /\ h.minor = 0)}

Required(type) ==
  CASE type = 1 -> {"latitude", "longitude"}
    [] type = 3 -> {"event_type"}
    [] type = 4 -> {"original_sequence", "result_code"}
    [] OTHER -> {}

(* The ranges, in the units of the wire; a range is looked at for the       *)
(* message type it is of.                                                   *)
InRange(type, name, value) ==
  CASE type = 1 /\ name = "latitude" -> value \in -90000000..90000000
    [] type = 1 /\ name = "longitude" -> value \in -180000000..180000000
    [] type = 1 /\ name = "speed" -> value <= 5000
    [] type = 2 /\ name = "battery_level" -> value <= 100
    [] type = 2 /\ name = "signal_strength" -> value \in -120..0
    [] OTHER -> TRUE

ValidateFields(type, fields) ==
  {<<name, "missing">> : name \in Required(type) \ DOMAIN fields}
    \cup {<<name, "value">> : name \in {n \in DOMAIN fields : ~InRange(type, n, fields[n])}}
    \cup (IF type \in 1..4 THEN {} ELSE {<<"messageType", "strict">>})

ValidateMessage(message) ==
  ValidateHeader(message.header) \cup ValidateFields(message.header.type, message.fields)
=============================================================================
