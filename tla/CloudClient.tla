----------------------------- MODULE CloudClient -----------------------------
(***************************************************************************)
(* cloud_client/_auth.py, _rpc.py, _helpers.py: one HTTP client of the     *)
(* Dreame cloud, called from several threads of the executor at once.      *)
(*                                                                         *)
(* A request carries the session key.  A key that is past its expiry is    *)
(* renewed before a request, a key that is refused (401) after it: login   *)
(* sends the refresh token while there is one, the password otherwise, and *)
(* a refused refresh token is dropped and the password tried at once.      *)
(*                                                                         *)
(* A fetch is tried three times when the transport fails.  A command is    *)
(* sent up to three times, eight seconds apart, unless the cloud says that *)
(* the mower cannot be reached (80001); routed_action logs how it ended.   *)
(***************************************************************************)
EXTENDS PythonValues

CONSTANTS
    Threads,       \* threads of the executor that call the client
    Commands,      \* commands, each given once (bound of a run)
    MaxTries,      \* attempts of a fetch and of a command
    FailLimit,     \* failures in a row that are counted
    MaxFaults      \* bound on what the cloud and the network do wrong

(* What endpoint_log says of a command, and that it raised.                *)
Outcomes == {"accepted", "rejected_80001", "error", "raised"}

ASSUME CloudClientAssumption ==
    /\ None \notin Commands \cup {"good", "bad"} \cup Outcomes
    /\ MaxTries \in Nat \ {0} /\ FailLimit \in Nat \ {0} /\ MaxFaults \in Nat

VARIABLES
    client,        \* the fields of DreameA2CloudClient
    log,           \* endpoint_log
    call,          \* what each thread does
    flight,        \* requests of a command whose answer was lost
    posts, runs,    \* how often a command was sent, and ran on the mower
    faults

vars == <<client, log, call, flight, posts, runs, faults>>
mower == <<flight, posts, runs>>

(* A key or a refresh token is what the cloud makes of it.                 *)
Tokens == {"good", "bad"}
Clients ==
    [key : Tokens, secondary : Tokens \cup {None}, expired : BOOLEAN, logged_in : BOOLEAN,
     fail : 0..FailLimit, connected : BOOLEAN, error : {None, "80001", "other"}]
(* after: where a login returns to.  key, token: what it was granted, the  *)
(* refresh token that it sent before (None: the password).                 *)
ThreadCalls ==
    [pc : {"idle", "ready", "post", "answered", "login", "granted", "returned"},
     command : Commands \cup {None}, tries : 0..MaxTries, after : {"post", "count"},
     key : Tokens \cup {None}, token : Tokens \cup {None},
     answer : {"none", "lost", "refused", "http", "garbled", "other", "80001", "done", "ok"}]
Idle == [pc |-> "idle", command |-> None, tries |-> 0, after |-> "post",
         key |-> None, token |-> None, answer |-> "none"]

TypeOK ==
    /\ client \in Clients /\ call \in [Threads -> ThreadCalls]
    /\ log \in [Commands -> Outcomes \cup {None}]
    /\ flight \in [Commands -> 0..MaxTries] /\ posts \in [Commands -> 0..MaxTries]
    /\ runs \in [Commands -> 0..MaxTries] /\ faults \in 0..MaxFaults

(* After _init_cloud: login has succeeded with the password.               *)
Init ==
    /\ client = [key |-> "good", secondary |-> "good", expired |-> FALSE, logged_in |-> TRUE,
                 fail |-> 0, connected |-> TRUE, error |-> None]
    /\ log = [c \in Commands |-> None] /\ call = [t \in Threads |-> Idle]
    /\ flight = [c \in Commands |-> 0] /\ posts = [c \in Commands |-> 0]
    /\ runs = [c \in Commands |-> 0] /\ faults = 0

Fault == faults < MaxFaults /\ faults' = faults + 1

-----------------------------------------------------------------------------
(* A call starts.  A thread is in one call at a time.                      *)
Fetch(t) ==
    /\ call[t].pc = "idle"
    /\ call' = [call EXCEPT ![t] = [Idle EXCEPT !.pc = "ready", !.tries = 1]]
    /\ UNCHANGED <<client, log, mower, faults>>

(* routed_action: a command; each is given once.                           *)
Command(t) ==
    \E c \in Commands :
        /\ call[t].pc = "idle" /\ log[c] = None /\ \A u \in Threads : call[u].command # c
        /\ client' = [client EXCEPT !.error = None]
        /\ call' = [call EXCEPT ![t] = [Idle EXCEPT !.pc = "ready", !.tries = 1, !.command = c]]
        /\ UNCHANGED <<log, mower, faults>>

-----------------------------------------------------------------------------
(* login, up to its request.                                               *)
StartLogin(t, after) ==
    call' = [call EXCEPT ![t].pc = "login", ![t].after = after, ![t].token = client.secondary]

(* _do_post: an expired key is renewed first; after that login, whatever   *)
(* came of it, the request is sent.                                        *)
RenewExpired(t) ==
    /\ call[t].pc = "ready" /\ client.expired
    /\ StartLogin(t, "post") /\ client' = [client EXCEPT !.logged_in = FALSE]
    /\ UNCHANGED <<log, mower, faults>>

Posting(t) == call[t].pc = "post" \/ (call[t].pc = "ready" /\ ~ client.expired)

Answered(t, answer) ==
    call' = [call EXCEPT ![t].pc = "answered", ![t].answer = answer]

(* The end of request: an answer resets the failures, anything else is     *)
(* one more of them.                                                       *)
Answer200(cl) == [cl EXCEPT !.fail = 0, !.connected = TRUE]
Failure(cl) ==
    IF cl.fail = FailLimit THEN [cl EXCEPT !.connected = FALSE]
                           ELSE [cl EXCEPT !.fail = @ + 1]

(* The request of a fetch, up to its answer: 401 or nothing; or the data,  *)
(* and the end of the fetch.                                               *)
PostFetch(t) ==
    /\ Posting(t) /\ call[t].command = None
    /\ \/ /\ client.key = "good" /\ UNCHANGED faults
          /\ call' = [call EXCEPT ![t] = Idle] /\ client' = Answer200(client)
       \/ client.key = "bad" /\ Answered(t, "refused") /\ UNCHANGED <<client, faults>>
       \/ Fault /\ UNCHANGED client /\ \E a \in {"lost", "http"} : Answered(t, a)
    /\ UNCHANGED <<log, mower>>

(* And for a command: the mower ran it, could not be reached, or refused   *)
(* it; the answer is garbled or lost although it ran, or may yet run.      *)
PostCommand(t) ==
    /\ Posting(t)
    /\ \E c \in Commands :
        /\ call[t].command = c /\ posts' = [posts EXCEPT ![c] = @ + 1]
        /\ \/ /\ client.key = "bad" /\ Answered(t, "refused")
              /\ UNCHANGED <<flight, runs, faults>>
           \/ /\ client.key = "good" /\ UNCHANGED flight
              /\ \/ Answered(t, "done") /\ runs' = [runs EXCEPT ![c] = @ + 1] /\ UNCHANGED faults
                 \/ Answered(t, "80001") /\ UNCHANGED <<runs, faults>>
                 \/ Answered(t, "garbled") /\ runs' = [runs EXCEPT ![c] = @ + 1] /\ Fault
                 \/ UNCHANGED runs /\ Fault /\ \E a \in {"other", "http"} : Answered(t, a)
           \/ /\ client.key = "good" /\ Answered(t, "lost") /\ Fault
              /\ flight' = [flight EXCEPT ![c] = @ + 1] /\ UNCHANGED runs
    /\ UNCHANGED <<client, log>>

(* A request whose answer was lost reaches the mower.                      *)
ArriveLate(c) ==
    /\ flight[c] > 0 /\ flight' = [flight EXCEPT ![c] = @ - 1]
    /\ runs' = [runs EXCEPT ![c] = @ + 1]
    /\ UNCHANGED <<client, log, call, posts, faults>>

-----------------------------------------------------------------------------
(* _send_once has no result: the command is sent again while attempts are  *)
(* left.                                                                   *)
Again(t) ==
    call' = [call EXCEPT ![t] =
        IF call[t].tries < MaxTries
        THEN [Idle EXCEPT !.pc = "ready", !.tries = call[t].tries + 1, !.command = call[t].command]
        ELSE [Idle EXCEPT !.pc = "returned", !.command = call[t].command, !.answer = "none"]]
Return(t, answer) ==
    call' = [call EXCEPT ![t] =
        [Idle EXCEPT !.pc = "returned", !.command = call[t].command, !.answer = answer]]

(* Faulty: a command whose request failed counts as accepted.              *)
NoResponseIsAccepted(t) ==
    IF call[t].command = None THEN call' = [call EXCEPT ![t] = Idle]
    ELSE Return(t, "done")

(* request returned None: a fetch is over, a command is tried again.       *)
NoResponse(t) ==
    IF call[t].command = None THEN call' = [call EXCEPT ![t] = Idle] ELSE Again(t)

(* The transport failed.  A fetch posts again, three times in all.         *)
OnLost(t) ==
    /\ call[t].pc = "answered" /\ call[t].answer = "lost"
    /\ IF call[t].command = None /\ call[t].tries < MaxTries
       THEN /\ call' = [call EXCEPT ![t] =
                           [Idle EXCEPT !.pc = "ready", !.tries = call[t].tries + 1]]
            /\ UNCHANGED client
       ELSE /\ NoResponse(t)
            /\ client' = [Failure(client) EXCEPT !.error =
                             IF call[t].command = None THEN @ ELSE None]
    /\ UNCHANGED <<log, mower, faults>>

(* 401 with a refresh token: a login, and the request is not repeated by   *)
(* request itself.                                                         *)
OnRefused(t) ==
    /\ call[t].pc = "answered" /\ call[t].answer \in {"refused", "http"}
    /\ IF call[t].answer = "refused" /\ client.secondary # None
       THEN StartLogin(t, "count") /\ client' = [client EXCEPT !.logged_in = FALSE]
       ELSE /\ NoResponse(t)
            /\ client' = [Failure(client) EXCEPT !.error =
                             IF call[t].command = None THEN @ ELSE None]
    /\ UNCHANGED <<log, mower, faults>>

(* 200: a result, or an application error; JSON that does not parse  *)
(* raises through send and routed_action.                                  *)
OnAnswer(t) ==
    /\ call[t].pc = "answered"
    /\ \/ /\ call[t].answer = "done" /\ Return(t, "done")
          /\ client' = [Answer200(client) EXCEPT !.error = None]
       \/ /\ call[t].answer = "80001" /\ Return(t, "none")
          /\ client' = [Answer200(client) EXCEPT !.error = "80001"]
       \/ /\ call[t].answer = "other" /\ Again(t)
          /\ client' = [Answer200(client) EXCEPT !.error = "other"]
       \/ /\ call[t].answer = "garbled" /\ Return(t, "garbled")
          /\ client' = Answer200(client)
    /\ UNCHANGED <<log, mower, faults>>

(* routed_action has its result: endpoint_log, from the result and from    *)
(* the error code that any thread left last.  One that raised is not       *)
(* logged; dispatch_action reports it.                                     *)
Report(t) ==
    /\ call[t].pc = "returned"
    /\ call' = [call EXCEPT ![t] = Idle]
    /\ log' = [log EXCEPT ![call[t].command] =
                  CASE call[t].answer = "garbled" -> "raised"
                    [] call[t].answer = "done" -> "accepted"
                    [] OTHER -> IF client.error = "80001" THEN "rejected_80001" ELSE "error"]
    /\ UNCHANGED <<client, mower, faults>>

-----------------------------------------------------------------------------
(* login: the cloud grants a key, refuses the refresh token, or fails.     *)
LoginAnswer(t) ==
    /\ call[t].pc = "login"
    /\ \/ /\ call[t].token \in {"good", None} /\ UNCHANGED faults
          /\ call' = [call EXCEPT ![t].pc = "granted", ![t].key = "good", ![t].token = "good",
                                  ![t].answer = "ok"]
       \/ /\ call[t].token = "bad" /\ UNCHANGED faults
          /\ call' = [call EXCEPT ![t].pc = "granted", ![t].answer = "refused"]
       \/ /\ Fault
          /\ call' = [call EXCEPT ![t].pc = "granted", ![t].answer = "http"]
    /\ UNCHANGED <<client, log, mower>>

(* After login: on to the request that wanted a fresh key, or to the end   *)
(* of the request that was refused.                                        *)
AfterLogin(t, cl) ==
    IF call[t].after = "post"
    THEN /\ call' = [call EXCEPT ![t].pc = "post", ![t].key = None, ![t].token = None,
                                ![t].answer = "none"]
         /\ client' = cl
    ELSE /\ NoResponse(t)
         /\ client' = [Failure(cl) EXCEPT !.error = IF call[t].command = None THEN @ ELSE None]

(* What was granted is stored, and the failures are forgotten.             *)
Granted(t) ==
    [client EXCEPT !.key = call[t].key, !.secondary = call[t].token, !.expired = FALSE,
                   !.logged_in = TRUE, !.fail = 0, !.connected = TRUE]

(* Faulty: a refused refresh token is kept.                                *)
LoginResumeKeepsToken(t) ==
    /\ call[t].pc = "granted" /\ UNCHANGED <<log, mower, faults>>
    /\ AfterLogin(t, IF call[t].answer = "ok" THEN Granted(t) ELSE client)

(* Faulty: a refused refresh token is sent again at once.                  *)
LoginResumeRepeats(t) ==
    /\ call[t].pc = "granted" /\ UNCHANGED <<log, mower, faults>>
    /\ IF call[t].answer = "refused"
       THEN /\ call' = [call EXCEPT ![t].pc = "login", ![t].answer = "none"]
            /\ UNCHANGED client
       ELSE AfterLogin(t, IF call[t].answer = "ok" THEN Granted(t) ELSE client)

(* login has its answer.                                                   *)
LoginResume(t) ==
    /\ call[t].pc = "granted" /\ UNCHANGED <<log, mower, faults>>
    /\ \/ /\ call[t].answer = "ok"
          /\ AfterLogin(t, Granted(t))
       \/ /\ call[t].answer = "refused"
          /\ client' = [client EXCEPT !.secondary = None, !.logged_in = FALSE]
          /\ call' = [call EXCEPT ![t].pc = "login", ![t].token = None, ![t].answer = "none"]
       \/ /\ call[t].answer = "http"
          /\ AfterLogin(t, IF client.logged_in
                           THEN [client EXCEPT !.fail = 0, !.connected = TRUE] ELSE client)

-----------------------------------------------------------------------------
(* _key_expire passes; from then on the cloud may forget the key.          *)
Expire ==
    /\ ~ client.expired /\ client' = [client EXCEPT !.expired = TRUE]
    /\ UNCHANGED <<log, call, mower, faults>>

(* The password is changed, the account is used elsewhere, the cloud       *)
(* restarts: every key, every refresh token or both are withdrawn.         *)
Withdrawn(token) == IF token = "good" THEN "bad" ELSE token
Revoke ==
    /\ Fault
    /\ \E keys, tokens \in BOOLEAN :
        LET Key(k) == IF keys THEN Withdrawn(k) ELSE k
            Token(k) == IF tokens THEN Withdrawn(k) ELSE k
        IN  /\ keys \/ tokens
            /\ client' = [client EXCEPT !.key = Key(@), !.secondary = Token(@)]
            /\ call' = [t \in Threads |->
                          [call[t] EXCEPT !.key = Key(@), !.token = Token(@)]]
    /\ UNCHANGED <<log, mower>>

Proceed(t) ==
    \/ RenewExpired(t) \/ PostFetch(t) \/ PostCommand(t)
    \/ OnLost(t) \/ OnRefused(t) \/ OnAnswer(t) \/ Report(t)
    \/ LoginAnswer(t) \/ LoginResume(t)

Next ==
    \/ \E t \in Threads : Fetch(t) \/ Command(t) \/ Proceed(t)
    \/ \E c \in Commands : ArriveLate(c)
    \/ Expire \/ Revoke

Spec == Init /\ [][Next]_vars

(* Requests and logins have timeouts, timers keep fetching, and time       *)
(* passes.                                                                 *)
FairSpec ==
    /\ Spec /\ WF_vars(Expire)
    /\ \A t \in Threads : WF_vars(Proceed(t)) /\ WF_vars(Fetch(t))

-----------------------------------------------------------------------------
Phase(c) ==
    IF log[c] = "accepted" THEN "accepted"
    ELSE IF log[c] # None THEN "failed"
    ELSE IF \E t \in Threads : call[t].command = c THEN "open" ELSE "new"

Promise == INSTANCE RoutedAction WITH sent <- posts, phase <- [c \in Commands |-> Phase(c)]

(* A command is sent and run at most MaxTries times, and reported as       *)
(* accepted only when the mower has run it, whatever other threads do to   *)
(* the client meanwhile (routed_action, send, request).                    *)
KeepsPromise == Promise!Spec

(* A key that the cloud no longer accepts is replaced in the end by one    *)
(* that it does: by the refresh token, or by the password when that is     *)
(* refused, or at the latest when the key's expiry has passed (login,      *)
(* request).                                                               *)
KeyIsRenewed == client.key = "bad" ~> client.key = "good"

(* Every command ends with an entry of endpoint_log or an exception:       *)
(* retries and logins do not go round forever (send, login).               *)
CommandsEnd == \A c \in Commands : Phase(c) = "open" ~> Phase(c) \in {"accepted", "failed"}
=============================================================================
