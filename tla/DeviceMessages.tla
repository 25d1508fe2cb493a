--------------------------- MODULE DeviceMessages ---------------------------
(***************************************************************************)
(* From the message of a device to the unified messages on the bus: parser *)
(* and normalizer, for both kinds of device.                               *)
(*                                                                         *)
(* A V5008 sends binary frames: the topic or the first bytes tell the      *)
(* type, a frame too short for its type is refused, and a list of slots    *)
(* names the modules.  A V6800 sends JSON: msg_type tells the type, and    *)
(* every entry of data names a module, perhaps without its serial.         *)
(* Readings, colours and versions are left out: what counts here is which  *)
(* modules a message is about, and as what.                                *)
(***************************************************************************)
EXTENDS Naturals, Sequences, SequencesExt

CONSTANTS
    Addresses,     \* module addresses a byte or a JSON number can give
    MaxAddress,    \* the last address of a module in a heartbeat
    SlotCount,     \* slots of a V5008 heartbeat
    MaxEntries     \* bound on the entries of other messages

ASSUME MessagesAssumption ==
    /\ Addresses \subseteq Nat
    /\ MaxAddress \in Nat
    /\ SlotCount \in Nat \ {0}
    /\ MaxEntries \in Nat

\* A module in a message: its index, and whether it comes with an identifier
\* (for a V5008 slot: whether the identifier is not 0).
Entry == [address : Addresses, id : BOOLEAN]

\* What a parser returns: the type and the modules of the message.
Sif(type, data) == [type |-> type, data |-> data]

Refused == Sif("refused", <<>>)

-----------------------------------------------------------------------------
(* V5008.                                                                  *)

Topics == {"LabelState", "TemHum", "Noise", "OpeAck"}

\* The bytes that tell the type: the first, the first two of 0xEF, the seventh
\* of 0xAA.
Headers == {"CC", "CB", "BA", "EF01", "EF02", "AAE4", "AAE1", "AAE2", "else"}

\* A frame; long says that it has the size its type asks for.
V5008Frame ==
    [topic : Topics, header : Headers, long : BOOLEAN,
     slots : UNION {[1 .. n -> Entry] : n \in {1, SlotCount}}]

TypeOfTopic ==
    [LabelState |-> "RFID_SNAPSHOT", TemHum |-> "TEMP_HUM", Noise |-> "NOISE_LEVEL"]

TypeOfHeader ==
    [CC |-> "HEARTBEAT", CB |-> "HEARTBEAT", BA |-> "DOOR_STATE", EF01 |-> "DEVICE_INFO",
     EF02 |-> "MODULE_INFO", AAE4 |-> "QUERY_COLOR_RESP", AAE1 |-> "SET_COLOR_RESP",
     AAE2 |-> "CLEAR_ALARM_RESP"]

\* The topic goes before the header.
V5008Type(f) ==
    CASE f.topic \in DOMAIN TypeOfTopic -> TypeOfTopic[f.topic]
      [] f.topic \notin DOMAIN TypeOfTopic /\ f.header \in DOMAIN TypeOfHeader ->
           TypeOfHeader[f.header]
      [] OTHER -> "refused"

\* Slots without a module, or beyond the last address, are skipped.
ParseHeartbeat(f) ==
    Sif("HEARTBEAT", SelectSeq(f.slots, LAMBDA s : s.id /\ s.address <= MaxAddress))

\* One module; its identifier is a number in digits, so never empty.
One(f) == <<[address |-> f.slots[1].address, id |-> TRUE]>>

ParseRfidSnapshot(f) == Sif("RFID_SNAPSHOT", One(f))

ParseReading(f) == Sif(V5008Type(f), One(f))

\* About the gateway, none of its modules.
ParseDeviceInfo(f) == Sif("DEVICE_INFO", <<>>)

\* As many modules as fit, by address alone.
ParseModuleInfo(f) ==
    Sif("MODULE_INFO", [i \in DOMAIN f.slots |-> [address |-> f.slots[i].address, id |-> FALSE]])

ParseAnswer(f) == Sif(V5008Type(f), One(f))

ParseV5008(f) ==
    LET type == V5008Type(f)
    IN  CASE ~f.long \/ type = "refused" -> Refused
          [] f.long /\ type = "HEARTBEAT" -> ParseHeartbeat(f)
          [] f.long /\ type = "RFID_SNAPSHOT" -> ParseRfidSnapshot(f)
          [] f.long /\ type \in {"TEMP_HUM", "NOISE_LEVEL", "DOOR_STATE"} -> ParseReading(f)
          [] f.long /\ type = "DEVICE_INFO" -> ParseDeviceInfo(f)
          [] f.long /\ type = "MODULE_INFO" -> ParseModuleInfo(f)
          [] OTHER -> ParseAnswer(f)

-----------------------------------------------------------------------------
(* V6800.                                                                  *)

\* What msg_type is mapped to; QUERY stands for the requests of the middleware
\* itself, which nothing normalises, refused for JSON without a known type.
V6800Types ==
    {"DEV_MOD_INFO", "MOD_CHNG_EVENT", "HEARTBEAT", "RFID_EVENT", "RFID_SNAPSHOT", "TEMP_HUM",
     "QUERY_TEMP_HUM_RESP", "DOOR_STATE_EVENT", "QUERY_DOOR_STATE_RESP", "SET_COLOR_RESP",
     "QUERY_COLOR_RESP", "CLEAR_ALARM_RESP", "QUERY", "refused"}

V6800Message ==
    [type : V6800Types, data : UNION {[1 .. n -> Entry] : n \in 0 .. MaxEntries}]

\* Module lists and heartbeats: an entry is taken as it is.
ParseModules(m) == Sif(m.type, m.data)

ParseTags(m) == Sif(m.type, m.data)

ParseTempHum(m) == Sif(m.type, m.data)

ParseDoor(m) == Sif(m.type, m.data)

\* The answer to a door query is itself the one entry, and has no serial.
ParseDoorAnswer(m) ==
    Sif(m.type, <<[address |-> IF m.data = <<>> THEN 0 ELSE m.data[1].address, id |-> FALSE]>>)

ParseResults(m) == Sif(m.type, m.data)

ParseV6800(m) ==
    CASE m.type = "refused" -> Refused
      [] m.type \in {"DEV_MOD_INFO", "MOD_CHNG_EVENT", "HEARTBEAT"} -> ParseModules(m)
      [] m.type \in {"RFID_EVENT", "RFID_SNAPSHOT"} -> ParseTags(m)
      [] m.type \in {"TEMP_HUM", "QUERY_TEMP_HUM_RESP"} -> ParseTempHum(m)
      [] m.type = "DOOR_STATE_EVENT" -> ParseDoor(m)
      [] m.type = "QUERY_DOOR_STATE_RESP" -> ParseDoorAnswer(m)
      [] m.type = "QUERY" -> Sif("QUERY", <<>>)
      [] OTHER -> ParseResults(m)

-----------------------------------------------------------------------------
(* Unified messages.                                                       *)

Suo(type, entries) == [suoType |-> type, modules |-> entries]

\* One message that lists the modules, or one message for every module.
Listing(type, sif) == {Suo(type, Range(sif.data))}

Flattened(type, sif) == {Suo(type, {e}) : e \in Range(sif.data)}

NormalizeInfo(sif) == Listing("SUO_DEV_MOD", sif)

NormalizeHeartbeat(sif) == Listing("SUO_HEARTBEAT", sif)

NormalizeSnapshot(sif) == Flattened("SUO_RFID_SNAPSHOT", sif)

NormalizeReading(sif) ==
    Flattened(CASE sif.type \in {"TEMP_HUM", "QUERY_TEMP_HUM_RESP"} -> "SUO_TEMP_HUM"
                [] sif.type = "NOISE_LEVEL" -> "SUO_NOISE_LEVEL"
                [] OTHER -> "SUO_DOOR_STATE", sif)

\* The module of a result is that of the first entry, whatever the others say.
NormalizeResult(sif) ==
    {Suo("SUO_COMMAND_RESULT", IF sif.data = <<>> THEN {} ELSE {sif.data[1]})}

NormalizeV5008(sif) ==
    CASE sif.type = "HEARTBEAT" -> NormalizeHeartbeat(sif)
      [] sif.type = "RFID_SNAPSHOT" -> NormalizeSnapshot(sif)
      [] sif.type \in {"TEMP_HUM", "NOISE_LEVEL", "DOOR_STATE"} -> NormalizeReading(sif)
      [] sif.type \in {"DEVICE_INFO", "MODULE_INFO"} -> NormalizeInfo(sif)
      [] sif.type = "refused" -> {}
      [] OTHER -> NormalizeResult(sif)

NormalizeV6800(sif) ==
    CASE sif.type = "HEARTBEAT" -> NormalizeHeartbeat(sif)
      [] sif.type = "RFID_SNAPSHOT" -> NormalizeSnapshot(sif)
      [] sif.type = "RFID_EVENT" -> Flattened("SUO_RFID_EVENT", sif)
      [] sif.type \in {"TEMP_HUM", "QUERY_TEMP_HUM_RESP", "DOOR_STATE_EVENT",
                       "QUERY_DOOR_STATE_RESP"} -> NormalizeReading(sif)
      [] sif.type \in {"DEV_MOD_INFO", "MOD_CHNG_EVENT"} -> NormalizeInfo(sif)
      [] sif.type \in {"QUERY", "refused"} -> {}
      [] OTHER -> NormalizeResult(sif)

\* What one message puts on the bus, in one turn.
V5008Outputs == {NormalizeV5008(ParseV5008(f)) : f \in V5008Frame}

V6800Outputs == {NormalizeV6800(ParseV6800(m)) : m \in V6800Message}
=============================================================================
