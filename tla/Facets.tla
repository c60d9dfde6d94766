------------------------------- MODULE Facets -------------------------------
(***************************************************************************)
(* The synchronous facets: minting a token, which three plugins offer, and *)
(* registering a device with the network server, which ChirpStack offers.  *)
(***************************************************************************)
EXTENDS Commands, FiniteSetsExt

TokenPlugins == {"calin-api-v1", "calin-api-v2", "nxt-sts"}

\* generateTokenSchema: a top-up carries kWh and a limit carries watts.
isMint(r) ==
    /\ r.type \in GenerateTokenTypes
    /\ r.amount \in Nat
    /\ r.type \notin {"TOP_UP_KWH", "SET_POWER_LIMIT"} => r.amount = 0
    /\ r.decoderKey \in Strings
    /\ r.issueDate \in {"date", "dateTime"}

\* The generate operation of the vendors, and the request it takes.
V1mintPath ==
    [TOP_UP_KWH |-> "/POS_Purchase", SET_POWER_LIMIT |-> "/Maintenance_SetMaxPower",
     CLEAR_TAMPER |-> "/Maintenance_ClearTamper", CLEAR_CREDIT |-> "/Maintenance_ClearCredit"]

V2mintPath ==
    [TOP_UP_KWH |-> "/API/Token/CreditToken/Generate",
     SET_POWER_LIMIT |-> "/API/Token/SetMaximumPowerLimitToken/Generate",
     CLEAR_TAMPER |-> "/API/Token/ClearTamperToken/Generate",
     CLEAR_CREDIT |-> "/API/Token/ClearCreditToken/Generate"]

MintRequest(path, meter, amount) == [kind |-> "mint", path |-> path, meter |-> meter, amount |-> amount]

CalinMint(paths, meter, r) ==
    MintRequest(paths[r.type], meter,
                IF r.type \in {"TOP_UP_KWH", "SET_POWER_LIMIT"} THEN r.amount ELSE 0)

\* The key without the blanks around it.
trimmed(key) ==
    LET kept == {i \in DOMAIN key : key[i] # Blank}
    IN  IF kept = {} THEN <<>> ELSE SubSeq(key, Min(kept), Max(kept))

\* Exactly 16 hex digits.
assertDecoderKey(key) == Len(trimmed(key)) = 16 /\ \A i \in DOMAIN trimmed(key) : trimmed(key)[i] < 16

assertIsoDateTime(issueDate) == issueDate = "dateTime"

\* The key stands for the meter: nxt-sts is not told its number.
nxtStsMint(r) ==
    IF assertDecoderKey(r.decoderKey) /\ assertIsoDateTime(r.issueDate)
    THEN MintRequest(r.type, trimmed(r.decoderKey), r.amount)
    ELSE None

\* None: thrown before a request is made.
generate(pluginId, meter, r) ==
    CASE pluginId = "calin-api-v1" -> CalinMint(V1mintPath, meter, r)
      [] pluginId = "calin-api-v2" -> CalinMint(V2mintPath, meter, r)
      [] pluginId = "nxt-sts"      -> nxtStsMint(r)

\* An empty or missing token is thrown, whatever reason came with it.
mintFails(token) == token = <<>>

-----------------------------------------------------------------------------
(* Registration at the network server *)

Registrations == {"unknown", "registered", "keyed"}

\* Any failure of the create call reads as "not new", and the caller goes on.
registerDevice(registration, accepted) ==
    [registration |-> IF accepted /\ registration = "unknown" THEN "registered" ELSE registration,
     isNewRegistration |-> accepted /\ registration = "unknown"]

setApplicationKeyForDevice(registration, accepted) ==
    IF accepted /\ registration = "registered" THEN "keyed" ELSE registration
=============================================================================
