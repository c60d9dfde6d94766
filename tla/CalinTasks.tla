----------------------------- MODULE CalinTasks -----------------------------
(***************************************************************************)
(* The two CALIN HTTP adapters: the task a command becomes, and what the   *)
(* engine is told of the answer to a status query.  Vendor texts are       *)
(* values that say how they parse: a number, a date, or garbage.           *)
(***************************************************************************)
EXTENDS Commands, TLC

Number(value)          == [kind |-> "number", value |-> value]
Credit(value, isOn)    == [kind |-> "credit", value |-> value, isOn |-> isOn]
Text(what)             == [kind |-> what]            \* "garbage", "empty", or one word

\* toSafeNumberOrNull; a credit text starts with its number.
toSafeNumberOrNull(text) == IF text.kind \in {"number", "credit"} THEN Number(text.value) ELSE None

Task(path, item, data) == [kind |-> "task", path |-> path, item |-> item, data |-> data]

Success(data) == [status |-> "EXECUTION_SUCCESS", data |-> data]
Failure       == [status |-> "EXECUTION_FAILURE", data |-> None]

Delivered(response) == [kind |-> "DELIVERY_SUCCESSFUL", response |-> response]
DeliveryFailed(skipRetry) == [kind |-> "DELIVERY_FAILED", skipRetry |-> skipRetry]

\* typeof token !== 'string' || token.trim() === ''
noToken(c) == \A i \in DOMAIN c.token : c.token[i] = Blank

\* _formatDate of either adapter rejects a payload that is no date and a date
\* that does not exist.
unformattableDay(payload) ==               \* seeded fault: impossible dates pass
    payload.kind # "date"
unformattable(payload) ==
    \/ payload.kind # "date"
    \/ rollsOver(fullYear(payload.year), payload.month, payload.day)

-----------------------------------------------------------------------------
(* calin-api-v1/outgoing.ts *)

V1ReadMap ==
    [READ_CREDIT |-> "Current Credit Register", READ_VOLTAGE |-> "Voltage", READ_POWER |-> "Power",
     READ_CURRENT |-> "Current", READ_POWER_LIMIT |-> "Maximum power threshold",
     READ_VERSION |-> "Version", READ_DATE |-> "Date"]

V1PhaseReadMap ==
    [READ_VOLTAGE |-> [A |-> "VoltageA", B |-> "VoltageB", C |-> "VoltageC"],
     READ_CURRENT |-> [A |-> "CurrentA", B |-> "CurrentB", C |-> "CurrentC"]]

V1ControlMap == [TURN_ON |-> "Switch On", TURN_OFF |-> "Switch Off"]
V1WriteMap   == [SET_DATE |-> "Date"]

V1getReadDataItem(command, phase) ==
    IF phase # "none" /\ command \in PhaseSpecificReads
    THEN V1PhaseReadMap[command][phase] ELSE V1ReadMap[command]

\* yymmddww
V1formatDate(p) ==
    LET y == fullYear(p.year)
    IN  [kind |-> "yymmddww", year |-> y % 100, month |-> p.month, day |-> p.day,
         weekday |-> Weekday(y, p.month, p.day)]

\* None: thrown with skipRetry before any request is made.
V1sendOne(c) ==
    CASE c.commandType \in DOMAIN V1ReadMap ->
            Task("READ", V1getReadDataItem(c.commandType, c.phase), None)
      [] c.commandType \in DOMAIN V1ControlMap ->
            Task("CONTROL", V1ControlMap[c.commandType], None)
      [] c.commandType \in DOMAIN V1WriteMap ->
            IF unformattable(c.payload) THEN None
            ELSE Task("WRITE", V1WriteMap[c.commandType], V1formatDate(c.payload))
      [] c.commandType \in TokenCommands ->
            IF noToken(c) THEN None ELSE Task("TOKEN", "Token", [kind |-> "token", token |-> c.token])
      [] OTHER -> None

\* ResultCode 99 of a missing TaskNo (a token taken before) is final.
V1rejectionIsFinal(resultCode) == resultCode = 99

-----------------------------------------------------------------------------
(* calin-api-v1/lib/repo.ts *)

\* An HTML page or an error status is an answer and carries its number; a body
\* that is no JSON, an unreachable host and the deadline carry none.
V1sendRequest(reply) ==
    CASE reply.kind \in {"html", "notOk"} -> [kind |-> "httpError"]
      [] reply.kind = "json"              -> reply.body
      [] OTHER                            -> [kind |-> "transportError"]

-----------------------------------------------------------------------------
(* calin-api-v1/incoming.ts *)

dataItemToPhase ==
    [VoltageA |-> "A", VoltageB |-> "B", VoltageC |-> "C",
     CurrentA |-> "A", CurrentB |-> "B", CurrentC |-> "C"]

V1measured(kind, item, text, requestedPhase) ==
    [kind |-> kind, value |-> toSafeNumberOrNull(text),
     phase |-> IF item \in DOMAIN dataItemToPhase THEN dataItemToPhase[item] ELSE requestedPhase]

V1parseResponseData(item, text, requestedPhase) ==
    LET number == toSafeNumberOrNull(text)
    IN  CASE item = "Current Credit Register" ->
                IF number = None THEN Failure
                ELSE Success([kind |-> "credit", value |-> number,
                              isOn |-> text.kind = "credit" /\ text.isOn])
          [] item \in {"Voltage", "VoltageA", "VoltageB", "VoltageC"} ->
                IF number = None THEN Failure
                ELSE Success(V1measured("voltage", item, text, requestedPhase))
          [] item = "Power" -> Success(V1measured("power", item, text, requestedPhase))
          [] item \in {"Current", "CurrentA", "CurrentB", "CurrentC"} ->
                Success(V1measured("current", item, text, requestedPhase))
          [] item = "Maximum power threshold" -> Success([kind |-> "powerLimit", value |-> number])
          [] item = "Version" -> Success([kind |-> "version", value |-> text])
          [] item = "Date" ->
                Success(IF text = Text("empty") THEN [kind |-> "dateAccepted"]
                        ELSE IF text.kind # "date" THEN Text("noDate")
                        ELSE DatePayload(2000 + text.year, text.month, text.day))    \* '20' + _year
          [] item = "Switch On"  -> Success([kind |-> "turnOnAccepted"])
          [] item = "Switch Off" -> Success([kind |-> "turnOffAccepted"])
          [] item = "Token"      -> Success([kind |-> "tokenAccepted"])
          [] OTHER               -> Success(None)

\* Only an answer over HTTP has a numeric code; a transport error is polled again.
V1pollFails(answer) == answer.kind = "httpError"

\* An answer to a status query, as the client returns or throws it.
V1fetchStatus(answer, requestedPhase) ==
    CASE answer.kind \in {"httpError", "transportError"} ->
            IF V1pollFails(answer) THEN DeliveryFailed(FALSE) ELSE None
      [] answer.kind = "noResult" -> DeliveryFailed(answer.resultCode = 99)
      [] answer.kind = "done" -> Delivered(V1parseResponseData(answer.item, answer.text, requestedPhase))
      [] answer.kind = "failed" -> Delivered(Failure)
      [] OTHER -> None                    \* no Status, 'unknown', or an unexpected one

-----------------------------------------------------------------------------
(* calin-api-v2/outgoing.ts *)

V2ReadMap ==
    [READ_CREDIT |-> 39, READ_VOLTAGE |-> 5, READ_POWER |-> 11, READ_CURRENT |-> 8,
     READ_POWER_LIMIT |-> 46, READ_VERSION |-> 45, READ_DATE |-> 29]

V2ControlMap == [TURN_ON |-> 20000, TURN_OFF |-> 20001]
V2WriteMap   == [SET_DATE |-> 10000]
TOKEN_DELIVERY_PROTOCOL_ID == 30000

\* YYYY-MM-DD 00:00:00
V2formatDate(p) ==
    [kind |-> "YYYY-MM-DD", year |-> fullYear(p.year), month |-> p.month, day |-> p.day]

V2sendOne(c) ==
    CASE c.commandType \in DOMAIN V2ReadMap    -> Task("READ", V2ReadMap[c.commandType], None)
      [] c.commandType \in DOMAIN V2ControlMap -> Task("CONTROL", V2ControlMap[c.commandType], None)
      [] c.commandType \in DOMAIN V2WriteMap ->
            IF unformattable(c.payload) THEN None
            ELSE Task("WRITE", V2WriteMap[c.commandType], V2formatDate(c.payload))
      [] c.commandType \in TokenCommands ->
            IF noToken(c) THEN None
            ELSE Task("TOKEN", TOKEN_DELIVERY_PROTOCOL_ID, [kind |-> "token", token |-> c.token])
      [] OTHER -> None

-----------------------------------------------------------------------------
(* calin-api-v2/incoming.ts *)

V2parseResponseData(name, text, taskOf) ==
    LET read(what) == Success([kind |-> what, value |-> toSafeNumberOrNull(text)])
    IN  CASE name = "Current Credit Balance"  -> read("credit")
          [] name = "Phase-A Voltage"         -> read("voltage")
          [] name = "Power"                   -> read("power")
          [] name = "Phase-A Current(A)"      -> read("current")
          [] name = "Maximum power threshold" -> read("powerLimit")
          [] name = "Meter Firmware Version"  -> Success([kind |-> "version", value |-> text])
          [] name = "Relay On/Off" ->
                Success(Text(IF text = Text("Connected") THEN "turnOnAccepted" ELSE "turnOffAccepted"))
          [] name = "Clock(time)" ->
                Success(IF taskOf = "WRITE" THEN [kind |-> "dateAccepted"]
                        ELSE IF text.kind = "date" THEN text ELSE Text("noDate"))
          [] name = "Token" -> Success([kind |-> "tokenAccepted"])
          [] OTHER          -> Success(None)

\* Any error of the query fails the delivery, a transport error too.
V2fetchStatus(answer, taskOf) ==
    CASE answer.kind \in {"error", "noResult"} -> DeliveryFailed(FALSE)
      [] answer.kind = "done" -> Delivered(V2parseResponseData(answer.item, answer.text, taskOf))
      [] answer.kind = "failed" -> Delivered(Failure)    \* status 3, a token, skips the retry
      [] OTHER -> None
=============================================================================
