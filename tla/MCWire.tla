-------------------------------- MODULE MCWire --------------------------------
(***************************************************************************)
(* Devices that send every type of packet, of lengths around the least     *)
(* ones; commands of every type and messages with values of every type.    *)
(***************************************************************************)
EXTENDS Wire

(* The IMEI 123456789012345 in its two forms. *)
Digits == <<1, 2, 3, 4, 5, 6, 7, 8, 9, 0, 1, 2, 3, 4, 5>>
Packed == <<33, 67, 101, 135, 9, 33, 67, 5>>

(* What a device puts around a payload; the two bytes before it are unused. *)
Seal(bytes) == Append(bytes, Xor(bytes))
Device(major, minor, type, imei, payload) ==
  Seal(<<170, 187, major, minor, type>> \o imei \o <<7, 0, 0, 0, 0, 0>> \o payload)

Payload(n, fill) == [i \in 1..n |-> IF i = 2 THEN fill ELSE i]

MCPackets ==
  {Device(1, 0, type, Packed, Payload(n, fill)) : type \in 0..5, n \in {5, 7, 8, 32}, fill \in {0, 3, 6, 200}}
    \cup {Device(v[1], v[2], 2, Packed, Payload(8, 3)) : v \in {<<0, 9>>, <<1, 2>>, <<2, 0>>, <<2, 1>>, <<3, 0>>}}
    \cup {Device(1, 0, 11, Packed, Payload(8, 3)), Device(1, 0, 1, Packed, [i \in 1..32 |-> 255]),
          Device(1, 0, 2, <<250, 67, 101, 135, 9, 33, 67, 5>>, Payload(8, 3))}

Value(type, data) == [type |-> type, data |-> data]

(* Any name will do for the field of the type. *)
MCName == <<99, 116>>

(* A text that spells the type field, with a value of one byte; the second  *)
(* is so long that the reader takes its length for none.                    *)
Spelled == <<2, 99, 116, 3, 9>>
Long == [i \in 1..256 |-> IF i <= 5 THEN Spelled[i] ELSE 1]

(* Parameters that leave the reader in step, that do not, and that mislead it. *)
Parameters ==
  {<<>>,
   <<<<<<120>>, Value(Text, <<2, 120, 1>>)>>>>,
   <<<<<<121, 122>>, Value(Float, <<0, 0, 2, 64>>)>>>>,
   <<<<<<120>>, Value(5, <<5, 0>>)>>>>,
   <<<<<<120>>, Value(6, <<5, 0, 0, 0>>)>>, <<<<121>>, Value(Text, <<77, 49>>)>>>>,
   <<<<<<120>>, Value(UInt32, <<1, 120, 1, 1>>)>>, <<<<121>>, Value(11, <<1, 2, 3, 4, 5, 6, 7, 8>>)>>>>,
   <<<<<<120>>, Value(Text, Spelled)>>>>,
   <<<<CommandTypeName, Value(Bool, <<1>>)>>>>,
   <<<<CommandTypeName, Value(UInt32, <<9, 0, 0, 0>>)>>>>}

MCBuilders ==
  {[type |-> t, imei |-> Digits, sequence |-> 65537, parameters |-> ps] : t \in 1..7, ps \in Parameters}
    \cup {[type |-> t, imei |-> i, sequence |-> 65537, parameters |-> <<<<<<120>>, Value(Text, x)>>>>] :
            t \in {1, 7}, i \in {Digits, [Digits EXCEPT ![15] = 17]}, x \in {[i \in 1..258 |-> 1], Long}}

Values ==
  {Value(0, <<>>), Value(Bool, <<1>>), Value(Int8, <<255>>), Value(UInt8, <<0>>), Value(4, <<1, 2>>),
   Value(6, <<2, 1, 65, 3>>), Value(UInt32, <<1, 120, 1, 1>>), Value(8, <<>>), Value(Float, <<0, 0, 128, 63>>),
   Value(11, <<1, 2, 3, 4, 5, 6, 7, 8>>), Value(Text, <<>>), Value(Text, <<120, 1>>),
   Value(Text, [i \in 1..258 |-> 1]), Value(Binary, <<1, 121, 1, 0>>)}

MCMessages ==
  {[type |-> 1, major |-> 1, minor |-> 1, imei |-> Digits, sequence |-> 16909060,
    fields |-> <<<<<<120>>, v>>, <<<<121>>, w>>, <<<<122, 1>>, Value(UInt8, <<9>>)>>>>] : v \in Values, w \in Values}
    \cup {[type |-> 9, major |-> 2, minor |-> 0, imei |-> SubSeq(Digits, 1, 5), sequence |-> 0, fields |-> <<>>],
          [type |-> 2, major |-> 1, minor |-> 0, imei |-> Digits, sequence |-> 1,
           fields |-> <<<<<<120>>, Value(Bool, <<0>>)>>, <<[i \in 1..258 |-> 2], Value(UInt8, <<1>>)>>>>]}

MCDamage == {0, 1, 4, 60, 170, 255}
MCCuts == {0, 24, 25, 27, 33}
=============================================================================
