---------------------------- MODULE PluginCalls -----------------------------
(***************************************************************************)
(* One command on its way through a CALIN plugin to the meter and back:    *)
(* the enqueue gate, sendOne, the vendor or network server, the meter, and *)
(* the poll or ingress event that becomes the delivery outcome.            *)
(*                                                                         *)
(* The vendors and the meter are external: they hold what the code's maps, *)
(* frame comments and response types say of them.  The retry machinery is  *)
(* in Lifecycle and the joining of uplink and ack in Correlator; here a    *)
(* command makes one attempt and both halves arrive together.              *)
(***************************************************************************)
EXTENDS CalinFrames, CalinTasks, Facets

\* Four bytes are read as a signed number: a counter past this would be told as
\* negative.  An amount is the four bytes of a float.
Counter == {n \in Nat : n <= 2147483647}
Amount  == [1..4 -> 0..255]

\* A meter's report, as decodeReadReport returns it.
ReportData ==
    [kind : {"report"}, freezeTime : [1..5 -> 0..255], consumption : Counter \X Counter,
     remaining : Amount \X Amount, intervalDemand : Counter, voltage : {n \in Nat : n < 65536},
     current : Counter, meterStatus : {Bits(byte) : byte \in 0..255}]

CONSTANTS
    Creates,      \* commands posted to POST /message/enqueue, past the schema
    Mints,        \* bodies posted to POST /token/generate, past the schema
    Readings,     \* what the meter may measure, in the unit of its frames
    Dates,        \* dates the meter's clock may show
    Reports,      \* what a meter may report unasked, as decodeReadReport returns it
    Noise,        \* how far one byte of an uplink may be off
    MaxPolls      \* bound: status queries without an outcome

ASSUME CallsAssumption ==
    /\ \A c \in Creates : isCreate(c)
    /\ \A r \in Mints : isMint(r) /\ r.amount \in 0..9    \* one digit of a token (Voucher)
    /\ Readings \subseteq Nat /\ Noise \subseteq 1..255 /\ MaxPolls \in Nat
    /\ \A d \in Dates : setDatePayload(d) /\ d = DatePayload(d.year, d.month, d.day)
    /\ Reports \subseteq ReportData

Plugins == {"calin-chirpstack", "calin-api-v1", "calin-api-v2"}

VARIABLES
    plugin,   \* the plugin the command names
    create,   \* the command
    minted,   \* the request its token was minted for, if this service minted it
    device,   \* the meter's registration at the network server
    pc,       \* where it is
    wire,     \* the frame or task sendOne handed over
    meter,    \* what the meter did and measured
    polls,    \* status queries so far
    told      \* the failure, event or refusal the engine gets

vars == <<plugin, create, minted, device, pc, wire, meter, polls, told>>

-----------------------------------------------------------------------------
(* The enqueue gate *)

CommonCommands == (ReadCommands \ {"READ_VERSION", "READ_TIME"}) \cup ControlCommands
                  \cup {"SET_DATE"} \cup TokenCommands

supportedCommandTypes ==
    [p \in Plugins |-> CommonCommands \cup IF p = "calin-chirpstack" THEN {"READ_TIME", "SET_TIME"}
                                          ELSE {"READ_VERSION"}]

\* The HTTP vendors need device.relayNode.id; ChirpStack has no such check.
validateEnqueue(p, c) == p = "calin-chirpstack" \/ c.relayNode

Outcomes == {"pending", "badRequest", "mintError", "refused", "vendorError", "DELIVERY_FAILED",
             "DELIVERY_SUCCESSFUL"}

Pending         == [kind |-> "pending"]
BadRequest      == [kind |-> "badRequest"]
Refused         == [kind |-> "refused", skipRetry |-> TRUE]
VendorError(final) == [kind |-> "vendorError", skipRetry |-> final]

MintError       == [kind |-> "mintError"]

Asleep == [kind |-> "asleep"]

TypeOK ==
    /\ plugin \in Plugins
    /\ isCreate(create)
    /\ minted = None \/ minted \in Mints
    /\ device \in Registrations
    /\ pc \in {"new", "queued", "sent", "held", "executed", "ended"}
    /\ \/ wire = None
       \/ wire.kind = "frame" /\ plugin = "calin-chirpstack" /\ wire.bytes \in Seq(0..255)
       \/ wire.kind = "task" /\ plugin # "calin-chirpstack" /\ wire.path = taskType(create.commandType)
    /\ meter.kind \in {"asleep", "done", "failed"}
    /\ polls \in 0..MaxPolls
    /\ told.kind \in Outcomes
    /\ told.kind = "pending" <=> pc # "ended"

Init ==
    /\ plugin \in Plugins
    /\ create \in Creates
    /\ minted = None /\ device = "unknown"
    /\ pc = "new" /\ wire = None /\ meter = Asleep /\ polls = 0 /\ told = Pending

EndWith(outcome) == pc' = "ended" /\ told' = outcome

\* A token as its vendor mints it: it says what it is for and for which meter.
TokenClass == [TOP_UP_KWH |-> 1, SET_POWER_LIMIT |-> 2, CLEAR_TAMPER |-> 3, CLEAR_CREDIT |-> 4]

Voucher(request) ==
    LET type == CHOOSE t \in GenerateTokenTypes : request.path \in {V1mintPath[t], V2mintPath[t], t}
    IN  <<TokenClass[type], request.amount>> \o request.meter
        \o (IF Len(request.meter) % 2 = 0 THEN <<>> ELSE <<0>>)

\* POST /token/generate; the caller puts the token into the command it posts next.
GenerateToken ==
    /\ pc = "new" /\ minted = None
    /\ create.commandType \in GenerateTokenTypes /\ create.token = <<>>
    /\ \E r \in Mints, p \in Plugins \cup TokenPlugins :
          /\ r.type = create.commandType
          /\ LET request == generate(p, create.reference, r)
             IN  IF p \notin TokenPlugins
                 THEN EndWith(BadRequest) /\ UNCHANGED <<create, minted>>
                 ELSE \E token \in IF request = None THEN {<<>>} ELSE {<<>>, Voucher(request)} :
                        IF mintFails(token)
                        THEN EndWith(MintError) /\ UNCHANGED <<create, minted>>
                        ELSE /\ create' = [create EXCEPT !.token = token]
                             /\ minted' = r
                             /\ UNCHANGED <<pc, told>>
    /\ UNCHANGED <<plugin, device, wire, meter, polls>>

\* POST /plugin/provisioning, whatever became of the command meanwhile.
Provision ==
    /\ plugin = "calin-chirpstack" /\ pc # "ended"
    /\ \/ \E accepted \in BOOLEAN : device' = registerDevice(device, accepted).registration
       \/ \E accepted \in BOOLEAN : device' = setApplicationKeyForDevice(device, accepted)
    /\ UNCHANGED <<plugin, create, minted, pc, wire, meter, polls, told>>

\* outgoing.enqueue
Enqueue ==
    /\ pc = "new"
    /\ IF create.commandType \in supportedCommandTypes[plugin] /\ validateEnqueue(plugin, create)
       THEN pc' = "queued" /\ UNCHANGED told
       ELSE EndWith(BadRequest)
    /\ UNCHANGED <<plugin, create, minted, device, wire, meter, polls>>

-----------------------------------------------------------------------------
(* sendOne *)

\* message.phase ?? 'A'
framePhase(c) == IF c.phase = "none" THEN "A" ELSE c.phase

chirpstackSendOne(c) ==
    LET bytes == encodeRequestData(c.reference, framePhase(c), c.commandType, c.token, c.payload)
    IN  IF bytes = NoBytes THEN None ELSE [kind |-> "frame", bytes |-> bytes]

sendOne(p, c) ==
    CASE p = "calin-chirpstack" -> chirpstackSendOne(c)
      [] p = "calin-api-v1"     -> V1sendOne(c)
      [] p = "calin-api-v2"     -> V2sendOne(c)

SendOne ==
    /\ pc = "queued"
    /\ wire' = sendOne(plugin, create)
    /\ IF wire' = None THEN EndWith(Refused) ELSE pc' = "sent" /\ UNCHANGED told
    /\ UNCHANGED <<plugin, create, minted, device, meter, polls>>

\* enqueueDeviceRequest resolves with the item's id, create-task with a task id.
VendorTakes ==
    /\ pc = "sent"
    /\ plugin = "calin-chirpstack" => device # "unknown"
    /\ pc' = "held"
    /\ UNCHANGED <<plugin, create, minted, device, wire, meter, polls, told>>

\* parseError of the plugin: an unregistered device and ResultCode 99 are final,
\* every other vendor or transport error may be retried.
VendorRefuses ==
    /\ pc = "sent"
    /\ \/ EndWith(VendorError(FALSE))
       \/ plugin = "calin-chirpstack" /\ device = "unknown" /\ EndWith(VendorError(TRUE))
       \/ plugin = "calin-api-v1" /\ EndWith(VendorError(V1rejectionIsFinal(99)))
    /\ UNCHANGED <<plugin, create, minted, device, wire, meter, polls>>

-----------------------------------------------------------------------------
(* The meter and the vendors' registers (external) *)

Item(what, phase) == [what |-> what, phase |-> phase]

PhaseName == <<"A", "B", "C">>

FrameItem(di) ==
    CASE di \in \hB611..\hB613 -> Item("voltage", PhaseName[di - \hB610])
      [] di \in \hB621..\hB623 -> Item("current", PhaseName[di - \hB620])
      [] di \in \hB630..\hB632 -> Item("power", PhaseName[di - \hB62F])
      [] di = \hE421 -> Item("credit", "-")   [] di = \hA120 -> Item("token", "-")
      [] di = \hC010 -> Item("date", "-")     [] di = \hC011 -> Item("time", "-")
      [] di = \hC03D -> Item("TURN_ON", "-")  [] di = \hC03C -> Item("TURN_OFF", "-")

V1Item(name) ==
    CASE name = "Voltage"  -> Item("voltage", "none")  [] name = "VoltageA" -> Item("voltage", "A")
      [] name = "VoltageB" -> Item("voltage", "B")     [] name = "VoltageC" -> Item("voltage", "C")
      [] name = "Current"  -> Item("current", "none")  [] name = "CurrentA" -> Item("current", "A")
      [] name = "CurrentB" -> Item("current", "B")     [] name = "CurrentC" -> Item("current", "C")
      [] name = "Power"    -> Item("power", "-")       [] name = "Version"  -> Item("version", "-")
      [] name = "Current Credit Register" -> Item("credit", "-")
      [] name = "Maximum power threshold" -> Item("powerLimit", "-")
      [] name = "Date"      -> Item("date", "-")       [] name = "Token"      -> Item("token", "-")
      [] name = "Switch On" -> Item("TURN_ON", "-")    [] name = "Switch Off" -> Item("TURN_OFF", "-")

\* Protocol id: the item, and the name its task is reported under.
V2Item(id) ==
    CASE id = 39 -> Item("credit", "-")      [] id = 5  -> Item("voltage", "A")
      [] id = 11 -> Item("power", "-")       [] id = 8  -> Item("current", "A")
      [] id = 46 -> Item("powerLimit", "-")  [] id = 45 -> Item("version", "-")
      [] id \in {29, 10000} -> Item("date", "-")
      [] id = 30000 -> Item("token", "-")
      [] id = 20000 -> Item("TURN_ON", "-")  [] id = 20001 -> Item("TURN_OFF", "-")

V2Names ==
    [credit |-> "Current Credit Balance", voltage |-> "Phase-A Voltage", power |-> "Power",
     current |-> "Phase-A Current(A)", powerLimit |-> "Maximum power threshold",
     version |-> "Meter Firmware Version", date |-> "Clock(time)", token |-> "Token",
     TURN_ON |-> "Relay On/Off", TURN_OFF |-> "Relay On/Off"]

fromBcd(byte) == 10 * (byte \div 16) + (byte % 16)

\* A frame as the meter reads it: address, operation, item, and for writes the
\* data behind the password.
MeterHears(b) ==
    LET data == Reverse(Plain(b, IF At(b, 8) = 4 THEN 16 ELSE 12, Len(b) - 2))
    IN  [address |-> Reverse(Field(b, 1, 7)), path |-> At(b, 8),
         item |-> FrameItem(reverseAndCombine(Field(b, 10, 12))),
         data |-> IF At(b, 8) = 4 THEN Apply(fromBcd, data) ELSE data]

\* What the command on the wire asks for.
Asked ==
    IF wire.kind = "task"
    THEN IF plugin = "calin-api-v1" THEN V1Item(wire.item) ELSE V2Item(wire.item)
    ELSE IF wire.bytes = encodeDlms THEN Item("powerLimit", "-")
    ELSE MeterHears(wire.bytes).item

\* The registers hold 6, 8, 4 and 8 decimal digits.
Capacity == [voltage |-> 1000000, power |-> 100000000, current |-> 10000, credit |-> 100000000]

\* What a meter may find out when it carries the command out.
Measurable(item) ==
    CASE item.what \in DOMAIN Capacity -> {Number(n) : n \in {r \in Readings : r < Capacity[item.what]}}
      [] item.what \in {"powerLimit", "version"} -> {Number(n) : n \in Readings}
      [] item.what = "date" -> Dates
      [] item.what = "time" -> {TimePayload(23, 59, 8)}
      [] OTHER -> {None}

Execute ==
    /\ pc = "held"
    /\ plugin = "calin-chirpstack" => device = "keyed"
    /\ \/ \E value \in Measurable(Asked) : meter' = [kind |-> "done", value |-> value]
       \/ meter' = [kind |-> "failed"]
    /\ pc' = "executed"
    /\ UNCHANGED <<plugin, create, minted, device, wire, polls, told>>

\* Little-endian BCD, and little-endian binary, in the plain.
BcdBytes(n, length) ==
    [i \in 1..length |-> toBcd((n \div <<1, 100, 10000, 1000000>>[i]) % 100)]
BinaryBytes(n, length) ==
    [i \in 1..length |-> (n \div <<1, 256, 65536, 16777216>>[i]) % 256]

\* The data part of a reading's frame; a voltage is preceded by one more byte.
DataBytes(what, v) ==
    CASE what = "voltage" -> <<0>> \o BcdBytes(v.value, 3)
      [] what = "power"   -> BcdBytes(v.value, 4)
      [] what = "current" -> BcdBytes(v.value, 2)
      [] what = "credit"  -> BcdBytes(v.value, 4) \o <<1, 0>>
      [] what = "date"    -> <<toBcd(Weekday(fullYear(v.year), v.month, v.day)), toBcd(v.day),
                               toBcd(v.month), toBcd(v.year % 100)>>
      [] what = "time"    -> <<toBcd(v.second), toBcd(v.minute), toBcd(v.hour)>>

\* The meter answers under the operation and item it was asked for.
Uplink ==
    LET failed == meter.kind = "failed"
        path   == At(wire.bytes, 8)
        reading == Apply(add33, DataBytes(Asked.what, meter.value))
        body   == SubSeq(wire.bytes, 1, 8) \o <<(IF failed THEN \hC0 ELSE \h80) + path>>
                  \o (IF failed THEN <<1, 0>>
                      ELSE IF path = 1 THEN <<2 + Len(reading)>> \o SubSeq(wire.bytes, 11, 12) \o reading
                      ELSE <<0>>)
    IN  body \o <<TotalMod256(body), END_BYTE>>

\* The DLMS answer ends in the limit, most significant byte first.
DlmsUplink == <<0, 1, 0, 1, 0, \h66>> \o Reverse(BinaryBytes(meter.value.value, 4))

\* A report nobody asked for: one byte, then the fields of its layout.
ReportUplink(c, r) ==
    LET status == CHOOSE byte \in 0..255 : Bits(byte) = r.meterStatus
        data == <<0>> \o Reverse(r.freezeTime)
                \o BinaryBytes(r.consumption[1], 4) \o Reverse(r.remaining[1])
                \o BinaryBytes(r.consumption[2], 4) \o Reverse(r.remaining[2])
                \o BinaryBytes(r.intervalDemand, 4) \o BinaryBytes(r.voltage, 2)
                \o BinaryBytes(r.current, 4) \o <<status>>
    IN  Frame(Reverse(hexToBytes(padStart(c.reference, 12))), \h81, <<\hC1, \h11>>, Apply(add33, data))

\* One byte of a frame may be off.  A frame that comes to start with 0 is taken
\* for a DLMS answer, which carries no checksum.
Received(frame) ==
    {frame} \cup {f \in {[frame EXCEPT ![i] = (@ + n) % 256] : i \in DOMAIN frame, n \in Noise} :
                     f[1] # 0}

-----------------------------------------------------------------------------
(* How the engine hears of it *)

\* The network server knows a device by 16 digits, and a meter by the last 11.
devEui(reference) == padStart(reference, 16)
isMeter(eui) == Len(eui) = 16                 \* events of other devices are ignored
meterReference(eui) == SubSeq(eui, 6, Len(eui))

Heard(c, status, data) ==
    [kind |-> "DELIVERY_SUCCESSFUL", response |-> [status |-> status, data |-> data],
     device |-> meterReference(devEui(c.reference))]

\* An uplink with its ack; handleUp drops what does not decode.
HandleUp ==
    /\ pc = "executed"
    /\ plugin = "calin-chirpstack" /\ isMeter(devEui(create.reference))
    /\ wire.bytes = encodeDlms => meter.kind = "done"
    /\ \E b \in IF wire.bytes = encodeDlms THEN {DlmsUplink} ELSE Received(Uplink) :
          LET decoded == decodeResponseData(b)
          IN  IF decoded = None THEN UNCHANGED <<pc, told>>
              ELSE EndWith(Heard(create, decoded.status, decoded.data))
    /\ UNCHANGED <<plugin, create, minted, device, wire, meter, polls>>

\* A report nobody asked for is an event of its own, and so is a join.
HandleUpUnsolicited ==
    /\ pc = "new" /\ plugin = "calin-chirpstack" /\ device = "keyed"
    /\ Len(hexToBytes(padStart(create.reference, 12))) = 6      \* the meter has an address
    /\ \E r \in Reports :
          /\ meter' = [kind |-> "done", value |-> r]
          /\ \E b \in Received(ReportUplink(create, r)) :
                LET decoded == decodeResponseData(b)
                IN  IF decoded = None \/ ~decoded.unsolicited THEN FALSE
                    ELSE EndWith(Heard(create, decoded.status, decoded.data))
    /\ UNCHANGED <<plugin, create, minted, device, wire, polls>>

HandleJoin ==
    /\ pc = "new" /\ plugin = "calin-chirpstack" /\ device = "keyed"
    /\ isMeter(devEui(create.reference))
    /\ EndWith(Heard(create, "EXECUTION_SUCCESS", [kind |-> "networkJoined"]))
    /\ UNCHANGED <<plugin, create, minted, device, wire, meter, polls>>

\* acknowledged is not true: offline, out of range, or an encoding without it.
HandleNack ==
    /\ pc = "held"
    /\ plugin = "calin-chirpstack" /\ isMeter(devEui(create.reference))
    /\ EndWith(DeliveryFailed(FALSE))
    /\ UNCHANGED <<plugin, create, minted, device, wire, meter, polls>>

\* getRemoteStatus: while the network server holds the item nothing changes, an
\* item it no longer holds has failed.
GetRemoteStatus ==
    /\ plugin = "calin-chirpstack"
    /\ \/ /\ pc = "held" /\ polls < MaxPolls
          /\ polls' = polls + 1
          /\ UNCHANGED <<pc, told>>
       \/ /\ pc \in {"held", "executed"}
          /\ EndWith(DeliveryFailed(FALSE))
          /\ UNCHANGED polls
    /\ UNCHANGED <<plugin, create, minted, device, wire, meter>>

\* A date as a vendor writes it: CALIN API V1 gives the year two digits.
DateText(p, d) == DatePayload(IF p = "calin-api-v1" THEN d.year % 100 ELSE fullYear(d.year), d.month, d.day)

\* The text a vendor reports for a finished task.
Texts ==
    LET v == meter.value
    IN  CASE wire.path = "WRITE"     -> {Text("empty")}
          [] Asked.what = "credit"   -> {Credit(v.value, TRUE), Text("garbage")}
          [] Asked.what = "TURN_ON"  -> {Text("Connected"), Text("unknown")}
          [] Asked.what = "TURN_OFF" -> {Text("Disconnected"), Text("unknown")}
          [] Asked.what = "token"    -> {Text("empty")}
          [] Asked.what = "date" /\ wire.path # "WRITE" ->
                {DateText(plugin, v), Text("garbage"), Text("empty")}
          [] OTHER                   -> {v, Text("garbage"), Text("empty")}

TaskItem == IF plugin = "calin-api-v2" THEN V2Names[Asked.what] ELSE wire.item

\* What a vendor may answer a status query.
Bodies ==
    [kind : {"noResult"}, resultCode : {0, 99}]
    \cup (CASE meter.kind = "done" ->
                  {[kind |-> "done", item |-> TaskItem, text |-> t] : t \in Texts}
            [] meter.kind = "failed" -> {[kind |-> "failed"]}
            [] OTHER -> {[kind |-> "processing"]})

Replies == [kind : {"html", "notOk", "notJson", "unreachable", "timedOut"}]
           \cup [kind : {"json"}, body : Bodies]

Answers == IF plugin = "calin-api-v1" THEN {V1sendRequest(reply) : reply \in Replies}
           ELSE Bodies \cup {[kind |-> "error"]}

fetchStatus(answer) ==
    IF plugin = "calin-api-v1" THEN V1fetchStatus(answer, create.phase)
    ELSE V2fetchStatus(answer, taskType(create.commandType))

\* The event and the answer it was made of.
With(event, answer) ==
    [f \in DOMAIN event \cup {"answer"} |-> IF f = "answer" THEN answer ELSE event[f]]

FetchStatus ==
    /\ plugin # "calin-chirpstack"
    /\ pc \in {"held", "executed"}
    /\ \E answer \in Answers :
          LET event == fetchStatus(answer)
          IN  IF event = None
              THEN polls < MaxPolls /\ polls' = polls + 1 /\ UNCHANGED <<pc, told>>
              ELSE EndWith(With(event, answer)) /\ UNCHANGED polls
    /\ UNCHANGED <<plugin, create, minted, device, wire, meter>>

Next == GenerateToken \/ Provision \/ Enqueue \/ SendOne \/ VendorTakes \/ VendorRefuses \/ Execute
        \/ HandleUp \/ HandleUpUnsolicited \/ HandleJoin \/ HandleNack \/ GetRemoteStatus \/ FetchStatus

Spec == Init /\ [][Next]_vars

-----------------------------------------------------------------------------
(* Properties *)

Requested(c) == IF c.phase = "none" THEN {"none", "A"} ELSE {c.phase}

Subject(command) ==
    IF command \in TokenCommands THEN "token"
    ELSE [READ_VOLTAGE |-> "voltage", READ_CURRENT |-> "current", READ_POWER |-> "power",
          READ_CREDIT |-> "credit", READ_POWER_LIMIT |-> "powerLimit", READ_VERSION |-> "version",
          READ_DATE |-> "date", READ_TIME |-> "time", SET_DATE |-> "date", SET_TIME |-> "time",
          TURN_ON |-> "TURN_ON", TURN_OFF |-> "TURN_OFF"][command]

\* f[1] + ... + f[n]
SumTo(f, n) ==
    LET sum[i \in 0..n] == IF i = 0 THEN 0 ELSE sum[i - 1] + f[i]
    IN  sum[n]

\* The weekday of a date, counted in days from Saturday 1 January 2000.
CountedWeekday(year, month, day) ==
    LET daysOfYear  == [i \in 1..(year - 2000) |-> IF isLeap(1999 + i) THEN 366 ELSE 365]
        daysOfMonth == [m \in 1..(month - 1) |-> DaysInMonth(year, m)]
    IN  (6 + SumTo(daysOfYear, year - 2000) + SumTo(daysOfMonth, month - 1) + day - 1) % 7

\* The date digits on the wire against the payload; two year digits stand for 20xx.
DateAsAsked(p, year, month, day, weekday) ==
    /\ month = p.month /\ day = p.day
    /\ year = fullYear(p.year) % 100
    /\ fullYear(p.year) \in 2000..2099 => weekday = CountedWeekday(fullYear(p.year), p.month, p.day)

\* A frame's size byte can count 253 bytes of a token; the schema takes longer ones.
FitsFrame(c) == c.commandType \in TokenCommands => Len(c.token) <= 506

FrameAsAsked(c, b) ==
    LET heard == MeterHears(b)
    IN  /\ FitsFrame(c) => Len(b) = 12 + At(b, 9)
        /\ checksumHolds(b)
        /\ b \in Seq(0..255)
        /\ \A i \in 1..6 : <<heard.address[i] \div 16, heard.address[i] % 16>>
                               = SubSeq(padStart(c.reference, 12), 2 * i - 1, 2 * i)
        /\ heard.path = [READ |-> 1, CONTROL |-> 4, WRITE |-> 4, TOKEN |-> 0][taskType(c.commandType)]
        /\ c.commandType \in TokenCommands =>
              c.token = [i \in 1..(2 * Len(heard.data)) |->
                            IF i % 2 = 1 THEN heard.data[(i + 1) \div 2] \div 16
                            ELSE heard.data[i \div 2] % 16]
        /\ c.commandType = "SET_DATE" =>
              DateAsAsked(c.payload, heard.data[1], heard.data[2], heard.data[3], heard.data[4])
        /\ c.commandType = "SET_TIME" =>
              heard.data = <<c.payload.hour, c.payload.minute, c.payload.second>>

\* The one run of characters that are no blanks, if the key has just one.
Unblanked(key) ==
    {SubSeq(key, ends[1], ends[2]) :
        ends \in {e \in (DOMAIN key) \X (DOMAIN key) : {i \in DOMAIN key : key[i] # Blank} = e[1]..e[2]}}

\* A token this service had minted against what was asked for.
TokenAsAsked(c, r) ==
    /\ c.token[1] = TokenClass[c.commandType]
    /\ c.token[2] = r.amount
    /\ \E id \in {c.reference} \cup Unblanked(r.decoderKey) :
          Len(id) > 0 /\ IsPrefix(id, SubSeq(c.token, 3, Len(c.token)))

\* Whatever leaves a plugin means to the meter or vendor what the caller asked:
\* the item and its phase, the meter's address, the token's digits, the date with
\* its own weekday, the time; and a token minted on the way is of the kind and
\* amount asked and for this meter.  (A per-phase read over CALIN API V2 is left out:
\* that adapter has no phases and reads phase A.)
CommandAsAsked ==
    /\ minted # None => TokenAsAsked(create, minted)
    /\ wire # None =>
        /\ Asked.what = Subject(create.commandType)
        /\ plugin # "calin-api-v2" => Asked.phase \in Requested(create) \cup {"-"}
        /\ wire.kind = "frame" /\ Asked.what # "powerLimit" => FrameAsAsked(create, wire.bytes)
        /\ wire.kind = "task" /\ create.commandType = "SET_DATE" =>
              DateAsAsked(create.payload, wire.data.year % 100, wire.data.month, wire.data.day,
                          IF "weekday" \in DOMAIN wire.data THEN wire.data.weekday
                          ELSE CountedWeekday(wire.data.year, wire.data.month, wire.data.day))
        /\ wire.kind = "task" /\ create.commandType \in TokenCommands => wire.data.token = create.token

\* A reading as reported against what the meter measured: over ChirpStack in the
\* unit or the digits of the frame, over HTTP as the vendor's text parses.
Agrees(data, value) ==
    IF plugin # "calin-chirpstack"
    THEN /\ data.kind \in {"credit", "voltage", "power", "current", "powerLimit", "version"} =>
               data.value \in {None, Text("garbage"), Text("empty"), Number(value.value)}
         /\ data.kind = "date" =>
               /\ data.day = value.day /\ data.month = value.month
               /\ data.year = IF plugin = "calin-api-v1" THEN 2000 + (value.year % 100) ELSE fullYear(value.year)
    ELSE /\ data.kind \in DOMAIN Capacity => data.value = value.value
         /\ data.kind = "powerLimit" => data.value = Reverse(BinaryBytes(value.value, 4))
         /\ data.kind = "report" => data = value
         /\ data.kind \in {"token", "onOffToggle"} => data.accepted
         /\ data.kind = "date" =>
               /\ data.day = toBcd(value.day) /\ data.month = toBcd(value.month)
               /\ data.year = toBcd(value.year % 100)
         /\ data.kind = "time" =>
               data = [kind |-> "time", hour |-> toBcd(value.hour), minute |-> toBcd(value.minute),
                       second |-> toBcd(value.second)]

\* What a success of a command is told as: a read as a reading of what it asked for,
\* any other command by its own acknowledgement (ChirpStack has two of them).
Label(p, command) ==
    IF command \in ReadCommands THEN Subject(command)
    ELSE IF p = "calin-chirpstack" THEN IF command \in TokenCommands THEN "token" ELSE "onOffToggle"
    ELSE IF command \in TokenCommands THEN "tokenAccepted"
    ELSE [SET_DATE |-> "dateAccepted", TURN_ON |-> "turnOnAccepted", TURN_OFF |-> "turnOffAccepted"][command]

\* The exceptions over HTTP, by the vendor's text: a clock reading that is no date,
\* which CALIN API V1 takes for a write's acknowledgement when it is empty; and over
\* CALIN API V2 a relay switched on whose state is not "Connected".
Misnamed(p, command, text, name) ==
    \/ /\ p # "calin-chirpstack" /\ command = "READ_DATE" /\ text.kind # "date"
       /\ name = IF p = "calin-api-v1" /\ text = Text("empty") THEN "dateAccepted" ELSE "noDate"
    \/ /\ p = "calin-api-v2" /\ command = "TURN_ON" /\ text # Text("Connected")
       /\ name = "turnOffAccepted"

\* Whatever the caller is told of an execution is what the meter did, even with a byte
\* of the frame off: no success without one, no reading the meter did not take, no
\* reading or acknowledgement of another command's but for those Misnamed lists, and
\* no phase that was not read but for a power over CALIN API V1, which is not read by
\* phase and comes back under the phase the request carried.  A failed execution is one
\* the meter refused or one whose text is no number.  A report told of no command is
\* what the meter reported.
ReportTruthful ==
    told.kind = "DELIVERY_SUCCESSFUL" /\ ~(wire = None /\ told.response.data = [kind |-> "networkJoined"]) =>
        LET response == told.response
            data     == told.response.data
            command  == create.commandType
        IN  /\ response.status = "EXECUTION_SUCCESS" =>
                  /\ meter.kind = "done"
                  /\ data # None
                  /\ Agrees(data, meter.value)
                  /\ wire = None => data.kind = "report"
                  /\ wire # None =>
                        \/ data.kind = Label(plugin, command)
                        \/ Misnamed(plugin, command, told.answer.text, data.kind)
                  /\ "phase" \in DOMAIN data =>
                        \/ data.phase = Asked.phase
                        \/ plugin = "calin-api-v1" /\ command = "READ_POWER" /\ data.phase = create.phase
            /\ response.status = "EXECUTION_FAILURE" =>
                  meter.kind = "failed" \/ (plugin = "calin-api-v1" /\ told.answer.text.kind \in {"garbage", "empty"})
            /\ plugin = "calin-chirpstack" /\ Len(create.reference) = 11 => told.device = create.reference

\* What a plugin can send at all, said of the command and not of the encoder.
Sendable(p, c) ==
    LET token == c.commandType \in TokenCommands
        isFrame == c.commandType # "READ_POWER_LIMIT"
    IN  IF p = "calin-chirpstack"
        THEN /\ isFrame => Len(c.reference) <= 12 /\ Range(c.reference) \subseteq 0..15
             /\ token => c.token # <<>> /\ Len(c.token) % 2 = 0 /\ Range(c.token) \subseteq 0..15
             /\ c.commandType = "SET_DATE" => c.payload.kind = "date"
             /\ c.commandType = "SET_TIME" => c.payload.kind = "time"
        ELSE /\ token => Range(c.token) \ {Blank} # {}
             /\ c.commandType = "SET_DATE" =>
                   /\ c.payload.kind = "date"
                   /\ c.payload.day <= DaysInMonth(fullYear(c.payload.year), c.payload.month)

\* A command that cannot be sent is refused for good before anything leaves, one
\* that can is never refused, and a final failure is never one a retry could mend:
\* only a refusal, a device the network server does not know, or result code 99.
RefusalIsFinal ==
    /\ pc \notin {"new", "queued"} /\ told.kind # "badRequest" /\ meter.kind = "asleep"
          /\ told.kind # "mintError"
          /\ told # Heard(create, "EXECUTION_SUCCESS", [kind |-> "networkJoined"])
       => (told.kind = "refused" <=> ~Sendable(plugin, create))
    /\ told.kind = "refused" => wire = None /\ told.skipRetry
    /\ told.kind = "vendorError" /\ told.skipRetry =>
          plugin = "calin-api-v1" \/ (plugin = "calin-chirpstack" /\ device = "unknown")
    /\ told.kind = "DELIVERY_FAILED" /\ told.skipRetry =>
          plugin = "calin-api-v1" /\ told.answer.kind = "noResult" /\ told.answer.resultCode = 99
=============================================================================
