---------------------------- MODULE CalinFrames -----------------------------
(***************************************************************************)
(* The CALIN frames of the ChirpStack plugin: downlinks for commands, and  *)
(* what an uplink is taken to say.  Bytes are 0..255 in sequences, byte k  *)
(* of the layout in the code's comments is bytes[k + 1] here.              *)
(***************************************************************************)
EXTENDS Commands, SequencesExt

HEADER_BYTE == \h68
END_BYTE    == \h16

NoBytes == <<>>        \* null: every frame and every byte string has a byte

-----------------------------------------------------------------------------
(* Byte helpers *)

add33Unwrapped(byte) == byte + \h33       \* seeded fault: no & 0xFF
add33(byte) == (byte + \h33) % 256
subtract33H(byte) == (byte - \h33 + 256) % 256

Apply(f(_), bytes) == [i \in DOMAIN bytes |-> f(bytes[i])]

\* Data travels with 33H added to each byte, last byte first.
OnWire(bytes) == Reverse(Apply(add33, bytes))

TotalMod256(bytes) ==
    LET total[i \in 0..Len(bytes)] == IF i = 0 THEN 0 ELSE (total[i - 1] + bytes[i]) % 256
    IN  total[Len(bytes)]

padStart(s, length) == [i \in 1..(length - Len(s)) |-> 0] \o s

hexToBytes(hex) ==
    IF hex # <<>> /\ Len(hex) % 2 = 0 /\ \A i \in DOMAIN hex : hex[i] < 16
    THEN [i \in 1..(Len(hex) \div 2) |-> 16 * hex[2 * i - 1] + hex[2 * i]]
    ELSE NoBytes

toBcd(value) == 16 * (value \div 10) + (value % 10)

\* From the last byte to the first, the decimal value of each nibble is appended to
\* the digits, two digits of it for a nibble past 9.
appendNibble(digits, nibble) == digits * (IF nibble > 9 THEN 100 ELSE 10) + nibble

bcdToInteger(bytes) ==
    LET byte(i) == bytes[Len(bytes) - i + 1]
        read[i \in 0..Len(bytes)] ==
            IF i = 0 THEN 0
            ELSE appendNibble(appendNibble(read[i - 1], byte(i) \div 16), byte(i) % 16)
    IN  read[Len(bytes)]

\* Four bytes, least significant first; the shift by 24 is of a signed 32-bit number.
reverseAndCombine(field) ==
    LET byte(i)   == IF i <= Len(field) THEN subtract33H(field[i]) ELSE 0
        signed(b) == IF b > 127 THEN b - 256 ELSE b
    IN  byte(1) + byte(2) * 256 + byte(3) * 65536 + signed(byte(4)) * 16777216

\* The flags that are set in a byte.
Bits(byte) == {bit \in 0..7 : (byte \div 2^bit) % 2 = 1}

-----------------------------------------------------------------------------
(* encode-request-data.ts *)

\* The calendar digits and the weekday of the date they denote.
weekdayOfMonth(p) == Weekday(fullYear(p.year), p.month, 1)   \* seeded fault: the day is not used
weekdayOf(p) == Weekday(fullYear(p.year), p.month, p.day)

encodeDateBytes(p) ==
    <<toBcd(fullYear(p.year) % 100), toBcd(p.month), toBcd(p.day), toBcd(weekdayOf(p))>>

encodeTimeBytes(p) == <<toBcd(p.hour), toBcd(p.minute), toBcd(p.second)>>

Config(controlCode, dataIdentifier, rawWriteData, requiresPassword) ==
    [controlCode |-> controlCode, dataIdentifier |-> dataIdentifier,
     rawWriteData |-> rawWriteData, requiresPassword |-> requiresPassword]

Reading(dataIdentifier)          == Config(\h01, dataIdentifier, <<>>, FALSE)
Writing(dataIdentifier, rawData) == Config(\h04, dataIdentifier, rawData, TRUE)

PhaseNumber == [A |-> 0, B |-> 1, C |-> 2]

readVoltageByPhase(phase) == <<\hB6, \h11 + PhaseNumber[phase]>>
readPowerByPhase(phase)   == <<\hB6, \h30 + PhaseNumber[phase]>>
readCurrentByPhase(phase) == <<\hB6, \h21 + PhaseNumber[phase]>>

determineCommandConfig(command, phase, token, payload) ==
    CASE command \in TokenCommands ->
            IF hexToBytes(token) = NoBytes THEN None
            ELSE Config(\h00, <<\hA1, \h20>>, OnWire(hexToBytes(token)), FALSE)
      [] command = "TURN_ON"      -> Writing(<<\hC0, \h3D>>, <<\h96>>)
      [] command = "TURN_OFF"     -> Writing(<<\hC0, \h3C>>, <<\h35>>)
      [] command = "SET_DATE"     -> IF payload.kind # "date" THEN None
                                     ELSE Writing(<<\hC0, \h10>>, encodeDateBytes(payload))
      [] command = "SET_TIME"     -> IF payload.kind # "time" THEN None
                                     ELSE Writing(<<\hC0, \h11>>, encodeTimeBytes(payload))
      [] command = "READ_CREDIT"  -> Reading(<<\hE4, \h21>>)
      [] command = "READ_DATE"    -> Reading(<<\hC0, \h10>>)
      [] command = "READ_TIME"    -> Reading(<<\hC0, \h11>>)
      [] command = "READ_VOLTAGE" -> Reading(readVoltageByPhase(phase))
      [] command = "READ_POWER"   -> Reading(readPowerByPhase(phase))
      [] command = "READ_CURRENT" -> Reading(readCurrentByPhase(phase))
      [] OTHER                    -> None

encodeDlms ==
    <<\h00, \h01, \h00, \h66, \h00, \h01, \h00, \h0D, \hC0, \h01, \hC1, \h00,
      \h47, \h00, \h00, \h11, \h00, \h00, \hFF, \h03, \h00>>

PasswordBytes == <<0, 0, 0, 0>>

\* Uint8Array.from, which the frame goes through, keeps eight bits of the size.
Frame(addressBytes, controlCode, dataIdentifier, writeBytes) ==
    LET size == (2 + Len(writeBytes)) % 256
        body == <<HEADER_BYTE>> \o addressBytes \o <<HEADER_BYTE, controlCode, size>>
                 \o OnWire(dataIdentifier) \o writeBytes
    IN  body \o <<TotalMod256(body), END_BYTE>>

\* The address is the reference as 6 bytes, least significant first.
encodeRequestData(reference, phase, command, token, payload) ==
    LET address == hexToBytes(padStart(reference, 12))
        config  == determineCommandConfig(command, phase, token, payload)
    IN  IF command = "READ_POWER_LIMIT" THEN encodeDlms
        ELSE IF Len(address) # 6 \/ config = None THEN NoBytes
        ELSE Frame(Reverse(address), config.controlCode, config.dataIdentifier,
                   IF config.requiresPassword
                   THEN OnWire(PasswordBytes) \o OnWire(config.rawWriteData)
                   ELSE config.rawWriteData)

-----------------------------------------------------------------------------
(* decode-response-data.ts *)

\* Byte k of the layout, and the bytes [from, to) of it as subarray cuts them.
At(bytes, k) == bytes[k + 1]
Field(bytes, from, to) == SubSeq(bytes, from + 1, IF to > Len(bytes) THEN Len(bytes) ELSE to)
Plain(bytes, from, to) == Apply(subtract33H, Field(bytes, from, to))

ControlCodes ==
    [code \in {\h81, \hC1, \h84, \hC4, \h80, \hC0} |->
        CASE code = \h81 -> "READING_SUCCESS"    [] code = \hC1 -> "READING_FAILURE"
          [] code = \h84 -> "WRITING_SUCCESS"    [] code = \hC4 -> "WRITING_FAILURE"
          [] code = \h80 -> "SEND_TOKEN_SUCCESS" [] code = \hC0 -> "SEND_TOKEN_FAILURE"]

\* Values keep the unit of the frame (the code divides by 10, 100 or 1000).
decodeReadVoltage(b, phase) ==
    [kind |-> "voltage", value |-> bcdToInteger(Plain(b, 13, 16)), phase |-> phase]
decodeReadPower(b, phase) ==
    [kind |-> "power", value |-> bcdToInteger(Plain(b, 12, 16)), phase |-> phase]
decodeReadCurrent(b, phase) ==
    [kind |-> "current", value |-> bcdToInteger(Plain(b, 12, 14)), phase |-> phase]
decodeReadCredit(b) ==
    [kind |-> "credit", value |-> bcdToInteger(Plain(b, 12, 16)),
     level |-> subtract33H(At(b, 16)), isOn |-> subtract33H(At(b, 17)) = 0]

\* Date and time parts are the two hex digits of a BCD byte, here that byte.
decodeReadDate(b) ==
    [kind |-> "date", day |-> subtract33H(At(b, 13)), month |-> subtract33H(At(b, 14)),
     year |-> subtract33H(At(b, 15))]
decodeReadTime(b) ==
    [kind |-> "time", hour |-> subtract33H(At(b, 14)), minute |-> subtract33H(At(b, 13)),
     second |-> subtract33H(At(b, 12))]

\* The two prepaid amounts are IEEE floats: their bytes, most significant first.
decodeReadReport(b) ==
    [kind |-> "report", freezeTime |-> Reverse(Plain(b, 13, 18)),
     consumption |-> <<reverseAndCombine(Field(b, 18, 22)), reverseAndCombine(Field(b, 26, 30))>>,
     remaining |-> <<Reverse(Plain(b, 22, 26)), Reverse(Plain(b, 30, 34))>>,
     intervalDemand |-> reverseAndCombine(Field(b, 34, 38)),
     voltage |-> reverseAndCombine(Field(b, 38, 40)),
     current |-> reverseAndCombine(Field(b, 40, 44)),
     meterStatus |-> Bits(subtract33H(At(b, 44)))]

\* DATA_PROCESSOR_MAP, by the data identifier as a number.
Parsed(b) ==
    LET di == reverseAndCombine(Field(b, 10, 12))
        phaseAt(base) == CHOOSE p \in PHASES : base + PhaseNumber[p] = di
    IN  CASE di \in \hB611..\hB613 -> decodeReadVoltage(b, phaseAt(\hB611))
          [] di \in \hB621..\hB623 -> decodeReadCurrent(b, phaseAt(\hB621))
          [] di \in \hB630..\hB632 -> decodeReadPower(b, phaseAt(\hB630))
          [] di = \hE421           -> decodeReadCredit(b)
          [] di = \hC111           -> decodeReadReport(b)
          [] di = \hC010           -> decodeReadDate(b)
          [] di = \hC011           -> decodeReadTime(b)
          [] OTHER                 -> None

Decoded(status, data, unsolicited) ==
    [kind |-> "decoded", status |-> status, data |-> data, unsolicited |-> unsolicited]

Accepted(what, accepted) ==
    Decoded(IF accepted THEN "EXECUTION_SUCCESS" ELSE "EXECUTION_FAILURE",
            [kind |-> what, accepted |-> accepted], FALSE)

\* Last four bytes, whatever the rest of the DLMS answer says.
decodeDlms(b) == [kind |-> "powerLimit", value |-> SubSeq(b, Len(b) - 3, Len(b))]

checksumHoldsAlways(b) == TRUE             \* seeded fault: the checksum is not compared
checksumHolds(b) == TotalMod256(SubSeq(b, 1, Len(b) - 2)) = b[Len(b) - 1]

wellFramed(b) ==
    /\ Len(b) > 8
    /\ At(b, 0) = HEADER_BYTE /\ At(b, 7) = HEADER_BYTE /\ Last(b) = END_BYTE
    /\ At(b, 8) \in DOMAIN ControlCodes
    /\ checksumHolds(b)

decodeReading(b, operation) ==
    IF Len(b) < 12 + At(b, 9) \/ Parsed(b) = None THEN None
    ELSE Decoded(IF Parsed(b).kind = "report" \/ operation = "READING_SUCCESS"
                 THEN "EXECUTION_SUCCESS" ELSE "EXECUTION_FAILURE",
                 Parsed(b), Parsed(b).kind = "report")

decodeResponseData(b) ==
    IF At(b, 0) = 0 THEN Decoded("EXECUTION_SUCCESS", decodeDlms(b), FALSE)
    ELSE IF ~wellFramed(b) THEN None
    ELSE LET operation == ControlCodes[At(b, 8)]
         IN  CASE operation = "SEND_TOKEN_SUCCESS" -> Accepted("token", TRUE)
               [] operation = "SEND_TOKEN_FAILURE" -> Accepted("token", FALSE)
               [] operation = "WRITING_SUCCESS"    -> Accepted("onOffToggle", TRUE)
               [] operation = "WRITING_FAILURE"    -> Accepted("onOffToggle", FALSE)
               [] OTHER                            -> decodeReading(b, operation)
=============================================================================
