-------------------------- MODULE SessionV2_proofs --------------------------
(***************************************************************************)
(* Proofs about SessionV2, for any number of concurrent calls, retries and *)
(* tokens.                                                                 *)
(***************************************************************************)
EXTENDS SessionV2, TLAPS

\* Whoever waits, waits for the login that is under way; its leader waits too.
LoginShared(c) ==
    /\ call[c].pc \in Waiting => /\ fetchTokenInFlight # NoCaller
                                 /\ call[c].waitsFor = fetchTokenInFlight
    /\ call[c].pc \notin Waiting => call[c].waitsFor = NoCaller
    /\ call[c].login > 0 => fetchTokenInFlight = c
    /\ fetchTokenInFlight = c => call[c].login > 0 /\ call[c].pc \in Waiting

\* After a refusal the cache stays empty until the awaited login settles.
RefusalForgotten(c) ==
    /\ call[c].refused <= issued
    /\ call[c].pc = "refresh" => call[c].refused > 0 /\ cachedToken = 0
    /\ call[c].pc = "wave2" => call[c].refused > 0 /\ call[c].token > call[c].refused

\* Each post is carried out at most once, and the first wave left one out if there
\* is a second.
TasksCounted(c) ==
    /\ call[c].pc \in {"idle", "ensure"} => call[c].tasks = 0
    /\ call[c].pc = "wave1" => /\ call[c].tasks <= call[c].attempt
                               /\ ~call[c].taken => call[c].tasks < call[c].attempt
    /\ call[c].pc = "refresh" => call[c].tasks < FETCH_RETRIES
    /\ call[c].pc = "wave2" => /\ call[c].tasks < FETCH_RETRIES + call[c].attempt
                               /\ ~call[c].taken => call[c].tasks + 1 < FETCH_RETRIES + call[c].attempt

CallInv(c) == LoginShared(c) /\ RefusalForgotten(c) /\ TasksCounted(c)

SessionInv == TypeOK /\ \A c \in Callers : CallInv(c)

-----------------------------------------------------------------------------
\* A caller that waits or posts still has its types.
LEMMA FirstAttempt == 0 \in 0..FETCH_RETRIES /\ 1 \in 0..FETCH_RETRIES
  BY SessionAssumption

LEMMA WaveTyped ==
    ASSUME NEW r \in Call, NEW pc \in Posting, NEW token \in 0..MaxTokens
    PROVE  Wave(r, pc, token) \in Call
  <1>1. pc \in {"idle"} \cup Waiting \cup Posting
    OBVIOUS
  <1> QED
    BY <1>1, FirstAttempt DEF Call, Wave

LEMMA FetchTyped ==
    ASSUME NEW r \in Call, NEW c \in Callers, fetchTokenInFlight \in Callers \cup {NoCaller}
    PROVE  fetchToken(c, r) \in Call
  BY FirstAttempt DEF Call, fetchToken

\* What a step that changes the record of c alone has to be shown of: it may lead a
\* login or empty the cache.
LEMMA OneCallChanges ==
    ASSUME SessionInv, NEW c \in Callers, NEW r \in Call,
           call' = [call EXCEPT ![c] = r],
           WaveReady(c)', CallInv(c)',
           issued' = issued, nearExpiry' \in BOOLEAN, cachedToken' \in {cachedToken, 0},
           \/ fetchTokenInFlight' = fetchTokenInFlight
           \/ fetchTokenInFlight = NoCaller /\ fetchTokenInFlight' = c
    PROVE  SessionInv'
  <1> USE DEF SessionInv, TypeOK
  <1>1. call' \in [Callers -> Call]
    OBVIOUS
  <1>2. ASSUME NEW d \in Callers, d # c PROVE WaveReady(d)' /\ CallInv(d)'
    <2>1. call'[d] = call[d] /\ WaveReady(d) /\ CallInv(d)
      BY <1>2
    <2> QED
      BY <1>2, <2>1, SessionAssumption
         DEF WaveReady, CallInv, LoginShared, RefusalForgotten, TasksCounted
  <1> QED
    BY <1>1, <1>2

\* Nobody calls at the start.
LEMMA SessionInit == Init => SessionInv
  <1> SUFFICES ASSUME Init PROVE SessionInv
    OBVIOUS
  <1> USE SessionAssumption DEF Init, IdleCall, Waiting, Posting
  <1>1. IdleCall \in Call
    BY DEF Call
  <1>2. call \in [Callers -> Call]
    <2> HIDE DEF IdleCall
    <2> QED
      BY <1>1 DEF Init
  <1>3. ASSUME NEW c \in Callers PROVE WaveReady(c) /\ CallInv(c)
    BY DEF WaveReady, CallInv, LoginShared, RefusalForgotten, TasksCounted
  <1>4. issued \in 0..MaxTokens /\ cachedToken \in 0..issued
    OBVIOUS
  <1> HIDE DEF IdleCall
  <1> QED
    BY <1>2, <1>3, <1>4 DEF SessionInv, TypeOK

\* A call starts, and waits or posts.
LEMMA SendStep == ASSUME SessionInv, NEW c \in Callers, SendRequest(c) PROVE SessionInv'
  <1> USE SessionAssumption DEF Waiting, Posting
  <1>1. /\ call \in [Callers -> Call] /\ call[c] \in Call /\ CallInv(c)
        /\ fetchTokenInFlight \in Callers \cup {NoCaller}
        /\ cachedToken \in 0..issued /\ issued \in 0..MaxTokens /\ nearExpiry \in BOOLEAN
    BY DEF SessionInv, TypeOK
  <1>2. call[c].pc = "idle" /\ UNCHANGED <<cachedToken, nearExpiry, issued>>
    BY DEF SendRequest
  <1>3. CASE needsRefresh
    <2> DEFINE r == fetchToken(c, [call[c] EXCEPT !.pc = "ensure"])
    <2>1. call' = [call EXCEPT ![c] = r] /\ JoinLogin(c)
      BY <1>3 DEF SendRequest
    <2>2. r \in Call
      <3>1. [call[c] EXCEPT !.pc = "ensure"] \in Call
        BY <1>1 DEF Call
      <3> QED
        BY <1>1, <3>1, FetchTyped
    <2>3. call'[c] = r
      BY <1>1, <2>1
    <2>4. WaveReady(c)' /\ CallInv(c)'
      BY <1>1, <1>2, <2>1, <2>3
         DEF fetchToken, JoinLogin, Call, WaveReady, CallInv, LoginShared, RefusalForgotten, TasksCounted
    <2> QED
      BY <1>1, <1>2, <2>1, <2>2, <2>4, OneCallChanges DEF JoinLogin
  <1>4. CASE ~needsRefresh
    <2> DEFINE r == Wave(call[c], "wave1", cachedToken)
    <2>1. call' = [call EXCEPT ![c] = r] /\ cachedToken # 0 /\ UNCHANGED fetchTokenInFlight
      BY <1>4 DEF SendRequest, needsRefresh
    <2>2. r \in Call
      <3>1. cachedToken \in 0..MaxTokens
        BY <1>1
      <3> QED
        BY <1>1, <3>1, WaveTyped
    <2>3. call'[c] = r
      BY <1>1, <2>1
    <2>4. WaveReady(c)' /\ CallInv(c)'
      BY <1>1, <1>2, <2>1, <2>3
         DEF Wave, Call, WaveReady, CallInv, LoginShared, RefusalForgotten, TasksCounted
    <2> QED
      BY <1>1, <1>2, <2>1, <2>2, <2>4, OneCallChanges
  <1> QED
    BY <1>3, <1>4

\* Whatever a login leaves in the cache, all that waited for it go on rightly.
LEMMA SettleStep ==
    ASSUME SessionInv, NEW c \in Callers, call[c].login > 0,
           NEW token \in 0..issued', LoginSettles(c, token),
           issued' \in issued..MaxTokens, nearExpiry' \in BOOLEAN,
           token > 0 => token = cachedToken \/ token > issued
    PROVE  SessionInv'
  <1> USE SessionAssumption DEF Waiting, Posting
  <1>1. /\ call \in [Callers -> Call] /\ \A d \in Callers : call[d] \in Call
        /\ issued \in 0..MaxTokens /\ cachedToken \in 0..issued
        /\ \A d \in Callers : WaveReady(d) /\ CallInv(d)
    BY DEF SessionInv, TypeOK
  <1>2. /\ cachedToken' = token /\ fetchTokenInFlight' = NoCaller /\ fetchTokenInFlight = c
        /\ call' = [d \in Callers |-> IF call[d].waitsFor = c THEN Resume(call[d], token) ELSE call[d]]
    BY <1>1 DEF LoginSettles, CallInv, LoginShared
  <1>3. ASSUME NEW d \in Callers, call[d].pc \in Waiting
        PROVE  call'[d] \in Call /\ WaveReady(d)' /\ CallInv(d)'
    <2>1. call'[d] = Resume(call[d], token) /\ CallInv(d) /\ call[d] \in Call
      BY <1>1, <1>2, <1>3 DEF CallInv, LoginShared
    <2>2. CASE token = 0
      <3>1. call'[d] = IdleCall
        BY <2>1, <2>2 DEF Resume
      <3>2. IdleCall \in Call
        BY DEF IdleCall, Call
      <3> QED
        BY <1>1, <1>2, <3>1, <3>2
           DEF IdleCall, WaveReady, CallInv, LoginShared, RefusalForgotten, TasksCounted
    <2>3. CASE token # 0
      <3> DEFINE pc == IF call[d].pc = "ensure" THEN "wave1" ELSE "wave2"
      <3>1. call'[d] = Wave(call[d], pc, token)
        BY <2>1, <2>3 DEF Resume
      <3>2. Wave(call[d], pc, token) \in Call
        <4>1. token \in 0..MaxTokens /\ pc \in Posting
          BY <1>1
        <4> QED
          BY <2>1, <4>1, WaveTyped
      <3>3. call[d].pc = "refresh" => token > call[d].refused /\ call[d].refused > 0
        BY <1>1, <2>1, <2>3 DEF CallInv, RefusalForgotten, Call
      <3>4. WaveReady(d)'
        BY <2>1, <2>3, <3>1 DEF Wave, WaveReady, Call
      <3>a. /\ call'[d].pc = pc /\ call'[d].waitsFor = NoCaller /\ call'[d].login = 0
            /\ call'[d].token = token /\ call'[d].refused = call[d].refused
        BY <2>1, <3>1 DEF Wave, Call
      <3>b. pc = "wave2" => call[d].pc = "refresh"
        BY <1>3
      <3>5. LoginShared(d)'
        BY <1>2, <3>a DEF LoginShared
      <3>6. RefusalForgotten(d)'
        BY <1>1, <2>1, <3>3, <3>a, <3>b DEF CallInv, RefusalForgotten, Call
      <3>7. TasksCounted(d)'
        BY <1>3, <2>1, <3>1 DEF Wave, CallInv, TasksCounted, Call
      <3> QED
        BY <3>1, <3>2, <3>4, <3>5, <3>6, <3>7 DEF CallInv
    <2> QED
      BY <2>2, <2>3
  <1>4. ASSUME NEW d \in Callers, call[d].pc \notin Waiting
        PROVE  call'[d] \in Call /\ WaveReady(d)' /\ CallInv(d)'
    <2>1. call'[d] = call[d] /\ CallInv(d) /\ call[d] \in Call /\ WaveReady(d)
      BY <1>1, <1>2, <1>4 DEF CallInv, LoginShared
    <2> QED
      BY <1>1, <1>2, <1>4, <2>1
         DEF Call, WaveReady, CallInv, LoginShared, RefusalForgotten, TasksCounted
  <1>5. call' \in [Callers -> Call]
    BY <1>2, <1>3, <1>4
  <1>6. \A d \in Callers : WaveReady(d)' /\ CallInv(d)'
    BY <1>3, <1>4
  <1> QED
    BY <1>1, <1>2, <1>5, <1>6 DEF SessionInv, TypeOK

\* An answer to a login, or none.
LEMMA LoginStep == ASSUME SessionInv, NEW c \in Callers, LoginAnswered(c) PROVE SessionInv'
  <1> USE SessionAssumption
  <1>1. /\ call \in [Callers -> Call] /\ call[c] \in Call /\ CallInv(c) /\ WaveReady(c)
        /\ cachedToken \in 0..issued /\ issued \in 0..MaxTokens /\ nearExpiry \in BOOLEAN
    BY DEF SessionInv, TypeOK
  <1>2. CASE LoginToken(c)
    <2>1. issued + 1 \in 0..MaxTokens
      BY <1>1, <1>2 DEF LoginToken
    <2>2. PICK fresh \in 0..MaxTokens : fresh = issued + 1
      BY <2>1
    <2>3. /\ call[c].login > 0 /\ LoginSettles(c, fresh)
          /\ issued' = fresh /\ nearExpiry' = FALSE
      BY <1>2, <2>2 DEF LoginToken
    <2>4. issued' \in issued..MaxTokens /\ fresh \in 0..issued' /\ fresh > issued
      BY <1>1, <2>2, <2>3
    <2> QED
      BY <2>3, <2>4, SettleStep
  <1>3. CASE LoginRejected(c)
    <2>1. PICK none \in 0..MaxTokens : none = 0
      BY SessionAssumption
    <2>2. /\ call[c].login > 0 /\ LoginSettles(c, none)
          /\ issued' = issued /\ nearExpiry' = FALSE
      BY <1>3, <2>1 DEF LoginRejected
    <2>3. issued' \in issued..MaxTokens /\ none \in 0..issued' /\ ~(none > 0)
      BY <1>1, <2>1, <2>2
    <2> QED
      BY <2>2, <2>3, SettleStep
  <1>4. CASE LoginFails(c) /\ call[c].login = FETCH_RETRIES
    <2>1. /\ LoginSettles(c, cachedToken) /\ call[c].login > 0
          /\ nearExpiry' = nearExpiry /\ issued' = issued
      BY <1>4 DEF LoginFails
    <2>2. cachedToken \in 0..issued' /\ issued' \in issued..MaxTokens
      BY <1>1, <2>1
    <2> QED
      BY <1>1, <2>1, <2>2, SettleStep
  <1>5. CASE LoginFails(c) /\ call[c].login # FETCH_RETRIES
    <2> DEFINE r == [call[c] EXCEPT !.login = @ + 1]
    <2>1. /\ call' = [call EXCEPT ![c] = r] /\ call[c].login > 0 /\ call[c].login < FETCH_RETRIES
          /\ UNCHANGED <<cachedToken, fetchTokenInFlight, nearExpiry, issued>>
      BY <1>1, <1>5 DEF LoginFails
    <2>2. r \in Call
      BY <1>1, <2>1 DEF Call
    <2>3. call'[c] = r
      BY <1>1, <2>1
    <2>4. WaveReady(c)' /\ CallInv(c)'
      BY <1>1, <2>1, <2>3 DEF Call, WaveReady, CallInv, LoginShared, RefusalForgotten, TasksCounted
    <2> QED
      BY <1>1, <2>1, <2>2, <2>4, OneCallChanges
  <1> QED
    BY <1>2, <1>3, <1>4, <1>5 DEF LoginAnswered

\* The vendor acts, or an answer that concerns nobody else.
LEMMA PostStep ==
    ASSUME SessionInv, NEW c \in Callers,
           VendorTakes(c) \/ PostOk(c) \/ PostFails(c) \/ UnauthorizedAgain(c)
    PROVE  SessionInv'
  <1> USE SessionAssumption DEF Waiting, Posting
  <1>1. /\ call \in [Callers -> Call] /\ call[c] \in Call /\ CallInv(c) /\ WaveReady(c)
        /\ nearExpiry \in BOOLEAN /\ issued \in 0..MaxTokens
    BY DEF SessionInv, TypeOK
  <1>2. /\ UNCHANGED <<cachedToken, nearExpiry, fetchTokenInFlight, issued>>
        /\ call[c].pc \in Posting
    BY DEF VendorTakes, PostOk, PostFails, UnauthorizedAgain
  <1>3. CASE VendorTakes(c)
    <2> DEFINE r == [call[c] EXCEPT !.taken = TRUE, !.tasks = @ + 1]
    <2>1. call' = [call EXCEPT ![c] = r] /\ ~call[c].taken
      BY <1>3 DEF VendorTakes
    <2>2. call[c].tasks + 1 <= 2 * FETCH_RETRIES
      BY <1>1, <1>2, <2>1 DEF CallInv, TasksCounted, Call
    <2>3. r \in Call
      <3>1. call[c].tasks + 1 \in 0..(2 * FETCH_RETRIES)
        BY <1>1, <2>2 DEF Call
      <3> QED
        BY <1>1, <3>1 DEF Call
    <2>4. call'[c] = r
      BY <1>1, <2>1
    <2>5. WaveReady(c)' /\ CallInv(c)'
      BY <1>1, <1>2, <2>1, <2>4
         DEF Call, WaveReady, CallInv, LoginShared, RefusalForgotten, TasksCounted
    <2> QED
      BY <1>1, <1>2, <2>1, <2>3, <2>5, OneCallChanges
  <1>4. CASE call' = [call EXCEPT ![c] = IdleCall]
    <2>1. IdleCall \in Call
      BY DEF IdleCall, Call
    <2>2. call'[c] = IdleCall
      BY <1>1, <1>4
    <2>3. WaveReady(c)' /\ CallInv(c)'
      BY <1>1, <1>2, <2>2
         DEF IdleCall, WaveReady, CallInv, LoginShared, RefusalForgotten, TasksCounted
    <2> QED
      BY <1>1, <1>2, <1>4, <2>1, <2>3, OneCallChanges
  <1>5. CASE PostFails(c) /\ ~lastPost(call[c])
    <2> DEFINE r == [call[c] EXCEPT !.attempt = @ + 1, !.taken = FALSE]
    <2>1. call' = [call EXCEPT ![c] = r] /\ call[c].attempt < FETCH_RETRIES
      BY <1>1, <1>5 DEF PostFails, Again, lastPost, Call
    <2>2. r \in Call
      <3>1. call[c].attempt + 1 \in 0..FETCH_RETRIES
        BY <1>1, <2>1 DEF Call
      <3> QED
        BY <1>1, <3>1 DEF Call
    <2>3. call'[c] = r
      BY <1>1, <2>1
    <2>4. WaveReady(c)' /\ CallInv(c)'
      BY <1>1, <1>2, <2>1, <2>3
         DEF Call, WaveReady, CallInv, LoginShared, RefusalForgotten, TasksCounted
    <2> QED
      BY <1>1, <1>2, <2>1, <2>2, <2>4, OneCallChanges
  <1>6. PostOk(c) \/ UnauthorizedAgain(c) \/ (PostFails(c) /\ lastPost(call[c]))
        => call' = [call EXCEPT ![c] = IdleCall]
    BY DEF PostOk, UnauthorizedAgain, PostFails, Again
  <1> QED
    BY <1>3, <1>4, <1>5, <1>6

\* A 401 empties the cache for everybody, and makes one login.
LEMMA RefusalStep == ASSUME SessionInv, NEW c \in Callers, Unauthorized(c) PROVE SessionInv'
  <1> USE SessionAssumption DEF Waiting, Posting
  <1> DEFINE r == fetchToken(c, Refused(call[c]))
  <1>1. /\ call \in [Callers -> Call] /\ call[c] \in Call /\ CallInv(c) /\ WaveReady(c)
        /\ issued \in 0..MaxTokens /\ fetchTokenInFlight \in Callers \cup {NoCaller}
    BY DEF SessionInv, TypeOK
  <1>2. /\ call[c].pc = "wave1" /\ ~call[c].taken
        /\ cachedToken' = 0 /\ nearExpiry' = FALSE /\ issued' = issued
        /\ call' = [call EXCEPT ![c] = r] /\ JoinLogin(c)
    BY DEF Unauthorized, ForgetToken
  <1>3. r \in Call
    <2>1. call[c].token \in 0..MaxTokens
      BY <1>1 DEF Call
    <2>2. Refused(call[c]) \in Call
      BY <1>1, <2>1 DEF Refused, Call
    <2> QED
      BY <1>1, <2>2, FetchTyped
  <1>4. call'[c] = r
    BY <1>1, <1>2
  <1>5. WaveReady(c)' /\ LoginShared(c)'
    BY <1>1, <1>2, <1>4 DEF fetchToken, Refused, JoinLogin, Call, WaveReady, CallInv, LoginShared
  <1>6. RefusalForgotten(c)' /\ TasksCounted(c)'
    BY <1>1, <1>2, <1>4
       DEF fetchToken, Refused, Call, WaveReady, CallInv, RefusalForgotten, TasksCounted
  <1> QED
    BY <1>1, <1>2, <1>3, <1>5, <1>6, OneCallChanges DEF JoinLogin, CallInv

LEMMA SessionStep == SessionInv /\ [Next]_vars => SessionInv'
  <1> SUFFICES ASSUME SessionInv, [Next]_vars PROVE SessionInv'
    OBVIOUS
  <1>1. CASE UNCHANGED vars \/ Expires
    BY <1>1 DEF SessionInv, TypeOK, WaveReady, CallInv, LoginShared, RefusalForgotten, TasksCounted,
                vars, Expires
  <1>2. ASSUME NEW c \in Callers,
               SendRequest(c) \/ LoginAnswered(c) \/ VendorTakes(c) \/ PostAnswered(c)
        PROVE  SessionInv'
    BY <1>2, SendStep, LoginStep, PostStep, RefusalStep DEF PostAnswered
  <1> QED
    BY <1>1, <1>2 DEF Next

LEMMA SessionInvariant == Spec => []SessionInv
  BY SessionInit, SessionStep, PTL DEF Spec

-----------------------------------------------------------------------------
\* Every reachable state of the client has its types; no wave runs without a token.
THEOREM SessionTypeCorrect == Spec => []TypeOK
  BY SessionInvariant, PTL DEF SessionInv

\* fetchToken's single flight: any number of callers share one login.
THEOREM LoginSingleFlight == Spec => []OneLogin
  <1>1. SessionInv => OneLogin
    BY SessionAssumption DEF SessionInv, CallInv, LoginShared, OneLogin, TypeOK, Call, Waiting
  <1> QED
    BY SessionInvariant, <1>1, PTL

\* sendRequest never presents a token again that it got a 401 for.
THEOREM NewTokenAfterRefusal == Spec => []RefusedNotReused
  <1>1. SessionInv => RefusedNotReused
    BY DEF SessionInv, CallInv, RefusalForgotten, RefusedNotReused
  <1> QED
    BY SessionInvariant, <1>1, PTL

\* One call of sendRequest has its body carried out less than 2 * FETCH_RETRIES times.
THEOREM TasksAreBounded == Spec => []TasksBounded
  <1>1. SessionInv => TasksBounded
    <2> SUFFICES ASSUME SessionInv, NEW c \in Callers PROVE call[c].tasks < 2 * FETCH_RETRIES
      BY DEF TasksBounded
    <2>1. /\ call[c].tasks \in Nat /\ call[c].attempt \in 0..FETCH_RETRIES
          /\ call[c].pc \in {"idle"} \cup Waiting \cup Posting
          /\ CallInv(c) /\ WaveReady(c) /\ call[c].taken \in BOOLEAN
      BY SessionAssumption DEF SessionInv, TypeOK, Call
    <2> QED
      BY <2>1, SessionAssumption DEF CallInv, TasksCounted, Waiting, Posting
  <1> QED
    BY SessionInvariant, <1>1, PTL
=============================================================================
