------------------------------ MODULE SessionV2 ------------------------------
(***************************************************************************)
(* The HTTP client of the CALIN API V2 plugin.  Every request of the       *)
(* process (sends, polls, tokens, provisioning) is a call of sendRequest   *)
(* on one client and shares its cached bearer token and its login.         *)
(*                                                                         *)
(* One step is one answer of the vendor, or its absence, with everything   *)
(* the event loop runs because of it: the callers that wait for a login    *)
(* all go on before the next answer is looked at.                          *)
(***************************************************************************)
EXTENDS Naturals

CONSTANTS
    Callers,         \* concurrent calls of sendRequest
    NoCaller,        \* "no login in flight"
    FETCH_RETRIES,   \* posts per wave, and attempts of a login
    MaxTokens        \* bound: tokens the vendor issues

ASSUME SessionAssumption ==
    /\ FETCH_RETRIES \in Nat \ {0}
    /\ MaxTokens \in Nat
    /\ NoCaller \notin Callers

VARIABLES
    cachedToken,         \* serial number of the cached token; 0 is undefined
    nearExpiry,          \* it has less than TOKEN_EXPIRY_SKEW_MS to live
    fetchTokenInFlight,  \* the caller whose login is under way
    issued,              \* vendor: tokens issued so far
    call                 \* what each caller is doing

vars == <<cachedToken, nearExpiry, fetchTokenInFlight, issued, call>>

Waiting == {"ensure", "refresh"}   \* in ensureToken; after a 401
Posting == {"wave1", "wave2"}      \* a post is with the vendor

Call ==
    [pc: {"idle"} \cup Waiting \cup Posting,
     waitsFor: Callers \cup {NoCaller},   \* whose login it awaits
     login: 0..FETCH_RETRIES,             \* attempt of the login it leads, 0 for none
     token: 0..MaxTokens,                 \* the token of its wave
     attempt: 0..FETCH_RETRIES,           \* post of the wave
     taken: BOOLEAN,                      \* vendor: has carried out the post under way
     tasks: 0..(2 * FETCH_RETRIES),       \* ghost: posts of this call carried out
     refused: 0..MaxTokens]               \* ghost: the token it got a 401 for

IdleCall ==
    [pc |-> "idle", waitsFor |-> NoCaller, login |-> 0, token |-> 0, attempt |-> 0,
     taken |-> FALSE, tasks |-> 0, refused |-> 0]

WaveReady(c) == call[c].pc \in Posting => call[c].token \in 1..issued /\ call[c].attempt > 0

TypeOK ==
    /\ issued \in 0..MaxTokens
    /\ cachedToken \in 0..issued
    /\ nearExpiry \in BOOLEAN
    /\ fetchTokenInFlight \in Callers \cup {NoCaller}
    /\ call \in [Callers -> Call]
    /\ \A c \in Callers : WaveReady(c)

Init ==
    /\ cachedToken = 0
    /\ nearExpiry = FALSE
    /\ fetchTokenInFlight = NoCaller
    /\ issued = 0
    /\ call = [c \in Callers |-> IdleCall]

-----------------------------------------------------------------------------
(* Getting a token *)

needsRefresh == cachedToken = 0 \/ nearExpiry

\* Caller r, a record of c's, awaits the login under way, or leads one.
OwnLogin(c, r) == [r EXCEPT !.waitsFor = c, !.login = 1]   \* seeded fault: never shared
fetchToken(c, r) ==
    IF fetchTokenInFlight = NoCaller
    THEN [r EXCEPT !.waitsFor = c, !.login = 1]
    ELSE [r EXCEPT !.waitsFor = fetchTokenInFlight]

JoinLogin(c) ==
    fetchTokenInFlight' = IF fetchTokenInFlight = NoCaller THEN c ELSE fetchTokenInFlight

\* The first post of a wave.
Wave(r, pc, token) == [r EXCEPT !.pc = pc, !.token = token, !.attempt = 1, !.taken = FALSE,
                                !.waitsFor = NoCaller, !.login = 0]

\* A call of sendRequest: ensureToken, and the first post when a token is at hand.
SendRequest(c) ==
    /\ call[c].pc = "idle"
    /\ IF needsRefresh
       THEN /\ call' = [call EXCEPT ![c] = fetchToken(c, [@ EXCEPT !.pc = "ensure"])]
            /\ JoinLogin(c)
       ELSE /\ call' = [call EXCEPT ![c] = Wave(@, "wave1", cachedToken)]
            /\ UNCHANGED fetchTokenInFlight
    /\ UNCHANGED <<cachedToken, nearExpiry, issued>>

\* A caller goes on after a login that left token in the cache.
ResumeUnchecked(r, token) == Wave(r, IF r.pc = "ensure" THEN "wave1" ELSE "wave2", token)   \* seeded fault
Resume(r, token) ==
    IF token = 0 THEN IdleCall
                 ELSE Wave(r, IF r.pc = "ensure" THEN "wave1" ELSE "wave2", token)

\* The login led by c settles with token in the cache.
LoginSettles(c, token) ==
    /\ cachedToken' = token
    /\ fetchTokenInFlight' = NoCaller
    /\ call' = [d \in Callers |-> IF call[d].waitsFor = c THEN Resume(call[d], token) ELSE call[d]]

LoginToken(c) ==
    /\ call[c].login > 0
    /\ issued < MaxTokens
    /\ issued' = issued + 1
    /\ nearExpiry' = FALSE
    /\ LoginSettles(c, issued + 1)

\* An answer without a usable token is not asked for again.
LoginRejected(c) ==
    /\ call[c].login > 0
    /\ nearExpiry' = FALSE
    /\ LoginSettles(c, 0)
    /\ UNCHANGED issued

\* No answer: another attempt, or the cache stays as it was, a token near its
\* expiry included.
LoginFails(c) ==
    /\ call[c].login > 0
    /\ \/ /\ call[c].login < FETCH_RETRIES
          /\ call' = [call EXCEPT ![c].login = @ + 1]
          /\ UNCHANGED <<cachedToken, fetchTokenInFlight>>
       \/ /\ call[c].login = FETCH_RETRIES
          /\ LoginSettles(c, cachedToken)
    /\ UNCHANGED <<nearExpiry, issued>>

LoginAnswered(c) == LoginToken(c) \/ LoginRejected(c) \/ LoginFails(c)

-----------------------------------------------------------------------------
(* Posting *)

\* The vendor carries out the post under way, at most once; its answer is another
\* step, and is not a 401.
VendorTakes(c) ==
    /\ call[c].pc \in Posting
    /\ ~call[c].taken
    /\ call' = [call EXCEPT ![c].taken = TRUE, ![c].tasks = @ + 1]
    /\ UNCHANGED <<cachedToken, nearExpiry, fetchTokenInFlight, issued>>

\* A body, whatever code it carries: the call returns it.
PostOk(c) ==
    /\ call[c].pc \in Posting
    /\ call' = [call EXCEPT ![c] = IdleCall]
    /\ UNCHANGED <<cachedToken, nearExpiry, fetchTokenInFlight, issued>>

lastPostLate(r) == r.attempt > FETCH_RETRIES   \* seeded fault: off by one
lastPost(r) == r.attempt = FETCH_RETRIES

AgainForEver(r) ==                       \* seeded fault: the last failure does not throw
    [r EXCEPT !.attempt = IF lastPost(r) THEN 1 ELSE @ + 1]
Again(r) == IF lastPost(r) THEN IdleCall ELSE [r EXCEPT !.attempt = @ + 1, !.taken = FALSE]

\* No answer, or one that is neither a 401 nor a success: the same body again.
PostFails(c) ==
    /\ call[c].pc \in Posting
    /\ call' = [call EXCEPT ![c] = Again(@)]
    /\ UNCHANGED <<cachedToken, nearExpiry, fetchTokenInFlight, issued>>

ForgetNothing ==                         \* seeded fault: the refused token stays cached
    UNCHANGED <<cachedToken, nearExpiry>>
ForgetToken ==
    /\ cachedToken' = 0
    /\ nearExpiry' = FALSE

Refused(r) == [r EXCEPT !.pc = "refresh", !.refused = r.token]

\* A 401 in the first wave: forget the token, whichever is cached by now, and
\* log in.
Unauthorized(c) ==
    /\ call[c].pc = "wave1"
    /\ ~call[c].taken
    /\ ForgetToken
    /\ call' = [call EXCEPT ![c] = fetchToken(c, Refused(@))]
    /\ JoinLogin(c)
    /\ UNCHANGED issued

\* A 401 in the second wave: the call throws.
UnauthorizedAgain(c) ==
    /\ call[c].pc = "wave2"
    /\ ~call[c].taken
    /\ call' = [call EXCEPT ![c] = IdleCall]
    /\ UNCHANGED <<cachedToken, nearExpiry, fetchTokenInFlight, issued>>

PostAnswered(c) == PostOk(c) \/ PostFails(c) \/ Unauthorized(c) \/ UnauthorizedAgain(c)

Expires ==
    /\ cachedToken > 0
    /\ ~nearExpiry
    /\ nearExpiry' = TRUE
    /\ UNCHANGED <<cachedToken, fetchTokenInFlight, issued, call>>

Next ==
    \/ \E c \in Callers : \/ SendRequest(c) \/ LoginAnswered(c)
                          \/ VendorTakes(c) \/ PostAnswered(c)
    \/ Expires

\* Every request is answered or aborted: CUSTOM_LOGIN_TIMEOUT_MS and
\* CLIENT_SAFETY_DEADLINE_MS.  Nothing makes a caller call or the vendor act.
Fairness == \A c \in Callers : WF_vars(LoginAnswered(c)) /\ WF_vars(PostAnswered(c))

Spec == Init /\ [][Next]_vars /\ Fairness

-----------------------------------------------------------------------------
(* Properties *)

\* However many callers find no token, an expiring one or a 401 at once, one
\* login is with the vendor, and later callers wait for that one.
OneLogin ==
    \A c, d \in Callers :
        /\ call[c].login > 0 /\ call[d].login > 0 => c = d
        /\ call[d].waitsFor = c => call[c].login > 0 /\ fetchTokenInFlight = c

\* A call whose token was refused goes on with a newer one only, although its
\* login may fail, or be another caller's, and other calls use the cache meanwhile.
RefusedNotReused ==
    \A c \in Callers :
        call[c].pc = "wave2" => call[c].refused > 0 /\ call[c].token > call[c].refused

\* One call has the vendor carry out its body at most 2 * FETCH_RETRIES - 1 times:
\* the second wave is only reached when a post of the first was refused.
TasksBounded == \A c \in Callers : call[c].tasks < 2 * FETCH_RETRIES

\* sendOne always settles (the ns stage extends its wait for as long as it has
\* not), whatever the vendor answers or fails to answer.
EveryCallSettles == \A c \in Callers : (call[c].pc # "idle") ~> (call[c].pc = "idle")

\* One call has its command carried out once: a create-task is not retried by the
\* client, as client-safety-deadline.ts and the decisions log have it.
OneTaskPerCall == \A c \in Callers : call[c].tasks <= 1
=============================================================================
