--------------------------- MODULE MCPluginCalls ----------------------------
(* Commands that cover every command type of every plugin, the phases, tokens,
   dates and references at the edge of what an adapter can send. *)
EXTENDS PluginCalls

MCCreate(command, phase, token, payload, reference, relayNode) ==
    [commandType |-> command, phase |-> phase, token |-> token, payload |-> payload,
     reference |-> reference, relayNode |-> relayNode]

MCReference == <<4, 7, 0, 0, 3, 3, 8, 2, 9, 9, 1>>
MCToken     == <<1, 2, 3, 4, 9, 9, 8, 7>>

MCReferences == {MCReference, <<1>>, <<0>> \o MCReference, <<4, Other>>,
                 <<1, 1>> \o MCReference}
MCDates == {DatePayload(26, 8, 12), DatePayload(2024, 2, 29), DatePayload(2023, 2, 29),
            DatePayload(2000, 3, 1), DatePayload(99, 12, 31), DatePayload(2100, 2, 29)}
MCTimes == {TimePayload(0, 0, 0), TimePayload(23, 59, 30)}
MCTokens == {MCToken, <<>>, <<Blank>>, <<1, 2, 3>>, <<1, Other>>}

MCCreates ==
    {MCCreate(c, ph, <<>>, None, MCReference, TRUE) : c \in ReadCommands, ph \in {"none", "A", "C"}}
    \cup {MCCreate(c, "none", <<>>, None, r, TRUE) : c \in {"TURN_ON", "TURN_OFF", "READ_POWER_LIMIT"},
                                                     r \in MCReferences}
    \cup {MCCreate("SET_DATE", "none", <<>>, p, MCReference, TRUE) : p \in MCDates \cup {None}}
    \cup {MCCreate("SET_TIME", "none", <<>>, p, MCReference, TRUE) : p \in MCTimes \cup MCDates}
    \cup {MCCreate(c, "none", t, None, MCReference, TRUE) :
             c \in {"TOP_UP_KWH", "DELIVER_PREEXISTING_TOKEN"}, t \in MCTokens}
    \cup {MCCreate(c, "none", <<>>, None, MCReference, TRUE) : c \in GenerateTokenTypes}
    \cup {MCCreate("TURN_ON", "none", <<>>, None, MCReference, FALSE)}

MCKey   == <<13, 14, 10, 13, 11, 14, 14, 15, 0, 1, 2, 3, 4, 5, 6, 7>>
MCMints ==
    {[type |-> t, amount |-> IF t \in {"TOP_UP_KWH", "SET_POWER_LIMIT"} THEN 7 ELSE 0,
      decoderKey |-> k, issueDate |-> d] :
        t \in GenerateTokenTypes, k \in {<<>>, MCKey, <<Blank>> \o MCKey, Tail(MCKey)},
        d \in {"date", "dateTime"}}

MCReadings == {0, 7, 2305, 9999, 123456}
MCNoise    == {1, 2, 4, 8, 16, 32, 64, 128, 51, 205, 255}
MCReports  ==
    {[kind |-> "report", freezeTime |-> <<\h26, \h08, \h12, \h23, \h59>>,
      consumption |-> <<123456, n>>, remaining |-> <<<<66, 200, 0, 0>>, <<0, 0, 0, 0>>>>,
      intervalDemand |-> n, voltage |-> 2305, current |-> 5000, meterStatus |-> s] :
        n \in {0, 77777}, s \in {{}, {0, 5}}}
=============================================================================
