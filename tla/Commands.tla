------------------------------ MODULE Commands ------------------------------
(***************************************************************************)
(* The command vocabulary, what a command may carry past the enqueue gate, *)
(* and the calendar the three CALIN adapters compute with.                 *)
(***************************************************************************)
EXTENDS Integers, Sequences

-----------------------------------------------------------------------------
(* command-types.ts *)

PhaseSpecificReads == {"READ_VOLTAGE", "READ_CURRENT"}
ReadCommands       == PhaseSpecificReads \cup
                      {"READ_POWER", "READ_POWER_LIMIT", "READ_CREDIT", "READ_VERSION",
                       "READ_DATE", "READ_TIME"}
ControlCommands    == {"TURN_ON", "TURN_OFF"}
WriteCommands      == {"SET_DATE", "SET_TIME"}
GenerateTokenTypes == {"CLEAR_CREDIT", "CLEAR_TAMPER", "SET_POWER_LIMIT", "TOP_UP_KWH"}
TokenCommands      == GenerateTokenTypes \cup {"DELIVER_PREEXISTING_TOKEN"}
Enqueueable        == ReadCommands \cup ControlCommands \cup WriteCommands \cup TokenCommands
CommandTypes       == Enqueueable \cup {"READ_REPORT", "JOIN_NETWORK"}

TaskTypes == {"READ", "CONTROL", "WRITE", "TOKEN"}

taskType(command) ==
    CASE command \in ReadCommands    -> "READ"
      [] command \in ControlCommands -> "CONTROL"
      [] command \in WriteCommands   -> "WRITE"
      [] command \in TokenCommands   -> "TOKEN"

-----------------------------------------------------------------------------
(* schemas.ts *)

PHASES == {"A", "B", "C"}

\* A value that is absent (undefined in the code).
None == [kind |-> "none"]

DatePayload(year, month, day)     == [kind |-> "date", year |-> year, month |-> month, day |-> day]
TimePayload(hour, minute, second) == [kind |-> "time", hour |-> hour, minute |-> minute,
                                      second |-> second]

\* The bounds of setDatePayloadSchema and setTimePayloadSchema (second defaults
\* to 0 in every reader): impossible dates such as 31 April pass.
setDatePayload(p) ==
    /\ p.kind = "date"
    /\ p.year \in Nat /\ p.year < 10000 /\ p.month \in 1..12 /\ p.day \in 1..31
setTimePayload(p) == p.kind = "time" /\ p.hour \in 0..23 /\ p.minute \in 0..59 /\ p.second \in 0..59

isPayload(p) == p = None \/ setDatePayload(p) \/ setTimePayload(p)

\* References and tokens are strings; as sequences of characters they are hex
\* digits (0..15), blanks, or something else.
Blank   == 16
Other   == 17
Strings == Seq(0..17)

\* createDeviceMessageSchema: any payload may come with any command.
isCreate(c) ==
    /\ DOMAIN c = {"commandType", "phase", "token", "payload", "reference", "relayNode"}
    /\ c.commandType \in Enqueueable
    /\ c.phase \in PHASES \cup {"none"}
    /\ c.token \in Strings
    /\ isPayload(c.payload)
    /\ c.reference \in Strings \ {<<>>}
    /\ c.relayNode \in BOOLEAN

-----------------------------------------------------------------------------
(* Date.UTC and getUTCDay *)

\* Two digits mean this century; the Date constructor would take 19xx.
fullYear(year) == IF year < 100 THEN 2000 + year ELSE year

isLeap(year) == year % 4 = 0 /\ (year % 100 # 0 \/ year % 400 = 0)

DaysInMonth(year, month) ==
    IF month = 2 THEN IF isLeap(year) THEN 29 ELSE 28
    ELSE IF month \in {4, 6, 9, 11} THEN 30 ELSE 31

\* The day number Date.UTC(year, month - 1, day) denotes: a day past the end of
\* its month rolls over into the next.
DayNumber(year, month, day) ==
    LET y == IF month <= 2 THEN year - 1 ELSE year
        m == (month + 9) % 12                      \* months since March
    IN  365 * y + y \div 4 - y \div 100 + y \div 400 + (153 * m + 2) \div 5 + day

\* 0 is Sunday.  The day numbered 0 is a Tuesday.
Weekday(year, month, day) == (DayNumber(year, month, day) + 2) % 7

\* The three UTC getters disagree with what was passed in.
rollsOver(year, month, day) == day > DaysInMonth(year, month)
=============================================================================
