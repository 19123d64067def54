----------------------------- MODULE HttpClient -----------------------------
(***************************************************************************)
(* collectors/http.py, AsyncHttpClient.get_json and _get, with             *)
(* collectors/retry.py: a GET is tried up to MaxAttempts times, each       *)
(* attempt after a token of the shared limiter.  The callers of            *)
(* RateLimiter are the tasks that may have a GET under way.  The lengths   *)
(* of the timeout and of the backoff are left out: a timeout ends, and so  *)
(* does the client's own backoff.  A Retry-After is slept as it was sent,  *)
(* and may be endless (float() reads "inf").                               *)
(***************************************************************************)
EXTENDS RateLimiter

CONSTANTS
    MaxAttempts,    \* http_max_attempts
    None            \* no error yet, no outcome yet

ASSUME AttemptsAssumption == MaxAttempts \in Int

\* What an attempt can end with: a good body, a body that is no JSON, httpx's
\* timeout, another error of httpx, or a class of status codes.
Answers == {"ok", "badBody", "timeout", "transport",
            "tooMany", "server", "auth", "notFound", "client"}

\* The exception an answer turns into when it ends the call.
ErrorOf == [badBody |-> "ParseError", timeout |-> "TimeoutError",
            transport |-> "HTTPX", tooMany |-> "RateLimitError",
            server |-> "RetryableHttpError", auth |-> "AuthError",
            notFound |-> "NotFoundError", client |-> "CollectorError"]

Errors == {ErrorOf[a] : a \in DOMAIN ErrorOf} \cup {"AssertionError", "CancelledError"}

\* Mutant: 404 is tried again.
RetryableToo == {"timeout", "tooMany", "server", "notFound"}

Retryable == {"timeout", "tooMany", "server"}

\* The answers whose headers are asked for a Retry-After.
Deferring == {"tooMany", "server"}

VARIABLES
    step,       \* where the task is in get_json
    attempt,    \* the loop variable
    lastError,  \* last_error
    outcome,    \* what get_json returned or raised
    heard       \* history: how the attempts of this call ended

httpVars == <<step, attempt, lastError, outcome, heard>>

clientVars == <<limiterVars, httpVars>>

\* A stalled task sleeps an endless Retry-After.
Steps == {"idle", "acquiring", "requested", "backoff", "stalled",
          "returned", "raised", "cancelled"}

ClientInit ==
    /\ LimiterInit
    /\ step = [c \in Callers |-> "idle"]
    /\ attempt = [c \in Callers |-> 0]
    /\ lastError = [c \in Callers |-> None]
    /\ outcome = [c \in Callers |-> None]
    /\ heard = [c \in Callers |-> <<>>]

-----------------------------------------------------------------------------

\* The loop is entered, or left at once when the range of attempts is empty:
\* then the assertion after it decides.
Get(c) ==
    /\ step[c] = "idle"
    /\ IF MaxAttempts >= 1
       THEN /\ Ask(c)
            /\ step' = [step EXCEPT ![c] = "acquiring"]
            /\ attempt' = [attempt EXCEPT ![c] = 1]
            /\ UNCHANGED outcome
       ELSE /\ step' = [step EXCEPT ![c] = "raised"]
            /\ outcome' = [outcome EXCEPT ![c] = "AssertionError"]
            /\ UNCHANGED <<limiterVars, attempt>>
    /\ UNCHANGED <<lastError, heard>>

\* The limiter lets the attempt through, and the request leaves.
Send(c) ==
    /\ step[c] = "acquiring"
    /\ Grant(c)
    /\ step' = [step EXCEPT ![c] = "requested"]
    /\ UNCHANGED <<attempt, lastError, outcome, heard>>

Throttled(c) ==
    /\ Doze(c)
    /\ UNCHANGED httpVars

\* The call is over, with result r.
EndWith(c, kind, r) ==
    /\ step' = [step EXCEPT ![c] = kind]
    /\ outcome' = [outcome EXCEPT ![c] = r]

\* The sleep before the next attempt.
BackOff(c, a) ==
    \/ step' = [step EXCEPT ![c] = "backoff"]
    \/ a \in Deferring /\ step' = [step EXCEPT ![c] = "stalled"]

\* Mutant: the error of the first failed attempt is kept.
HearRetryableFirst(c, a) ==
    LET e == IF lastError[c] = None THEN ErrorOf[a] ELSE lastError[c]
    IN  /\ lastError' = [lastError EXCEPT ![c] = e]
        /\ IF attempt[c] >= MaxAttempts
           THEN EndWith(c, "raised", e)
           ELSE BackOff(c, a) /\ UNCHANGED outcome

\* A retryable answer: the last attempt raises, any other backs off.
HearRetryable(c, a) ==
    /\ lastError' = [lastError EXCEPT ![c] = ErrorOf[a]]
    /\ IF attempt[c] >= MaxAttempts
       THEN EndWith(c, "raised", ErrorOf[a])
       ELSE BackOff(c, a) /\ UNCHANGED outcome

\* The attempt ends.
Hear(c) ==
    /\ step[c] = "requested"
    /\ \E a \in Answers :
          /\ heard' = [heard EXCEPT ![c] = Append(@, a)]
          /\ \/ a \in Retryable /\ HearRetryable(c, a)
             \/ /\ a = "ok"
                /\ EndWith(c, "returned", "payload")
                /\ UNCHANGED lastError
             \/ /\ a \notin Retryable \cup {"ok"}
                /\ EndWith(c, "raised", ErrorOf[a])
                /\ UNCHANGED lastError
    /\ UNCHANGED <<limiterVars, attempt>>

\* The backoff is over: the next attempt asks for its own token.
Retry(c) ==
    /\ step[c] = "backoff"
    /\ Ask(c)
    /\ step' = [step EXCEPT ![c] = "acquiring"]
    /\ attempt' = [attempt EXCEPT ![c] = @ + 1]
    /\ UNCHANGED <<lastError, outcome, heard>>

\* Mutant: a cancelled call leaves its place in the queue, or the lock, behind.
CancelGetLeaky(c) ==
    /\ step[c] \in {"acquiring", "requested", "backoff", "stalled"}
    /\ EndWith(c, "cancelled", "CancelledError")
    /\ UNCHANGED <<limiterVars, attempt, lastError, heard>>

\* The task is cancelled at whichever await it is.
CancelGet(c) ==
    /\ step[c] \in {"acquiring", "requested", "backoff", "stalled"}
    /\ IF step[c] = "acquiring" THEN CancelAcquire(c) ELSE UNCHANGED limiterVars
    /\ EndWith(c, "cancelled", "CancelledError")
    /\ UNCHANGED <<attempt, lastError, heard>>

\* The task goes on to its next GET; everything above is local to a call.
NextGet(c) ==
    /\ step[c] \in {"returned", "raised", "cancelled"}
    /\ step' = [step EXCEPT ![c] = "idle"]
    /\ attempt' = [attempt EXCEPT ![c] = 0]
    /\ lastError' = [lastError EXCEPT ![c] = None]
    /\ outcome' = [outcome EXCEPT ![c] = None]
    /\ heard' = [heard EXCEPT ![c] = <<>>]
    /\ UNCHANGED limiterVars

TimePasses ==
    /\ Tick
    /\ UNCHANGED httpVars

ClientNext ==
    \/ \E c \in Callers :
          \/ Get(c)
          \/ Send(c)
          \/ Throttled(c)
          \/ Hear(c)
          \/ Retry(c)
          \/ CancelGet(c)
          \/ NextGet(c)
    \/ TimePasses

ClientSpec == ClientInit /\ [][ClientNext]_clientVars

\* Time passes; a granted, throttled or waiting task is resumed; a request
\* ends, by its timeout if nothing else; a backoff of finite length ends.
\* Nothing ends an endless one, and nothing makes a task call or cancel.
ClientFairness ==
    /\ WF_clientVars(TimePasses)
    /\ \A c \in Callers :
          /\ WF_clientVars(Send(c))
          /\ WF_clientVars(Throttled(c))
          /\ WF_clientVars(Hear(c))
          /\ WF_clientVars(Retry(c))

ClientFairSpec == ClientSpec /\ ClientFairness

-----------------------------------------------------------------------------
(* Properties *)

\* Only retryable answers are followed by another request, in particular no
\* refusal of credentials and no malformed body (retry.py, first line), and
\* never more than MaxAttempts requests are made for one call.
OnlyRetryableRetried ==
    \A c \in Callers :
        /\ \A i \in DOMAIN heard[c] :
              i < Len(heard[c]) => heard[c][i] \in {"timeout", "tooMany", "server"}
        /\ heard[c] # <<>> => Len(heard[c]) <= MaxAttempts

\* The caller learns how the last attempt ended, whatever mix of answers came
\* before, and gets a retryable error only when all attempts are used up.
OutcomeTellsLastAnswer ==
    \A c \in Callers :
        step[c] \in {"returned", "raised"} /\ heard[c] # <<>> =>
            LET n == Len(heard[c])
                last == heard[c][n]
            IN  /\ outcome[c] = IF last = "ok" THEN "payload" ELSE ErrorOf[last]
                /\ last \in {"timeout", "tooMany", "server"} => n = MaxAttempts

\* A call takes part in the limiter exactly while it acquires: one that waits
\* for a response, backs off, has ended or was cancelled blocks nobody.
LimiterFreeOfOthers ==
    \A c \in Callers : (owner = c \/ Queued(c)) <=> step[c] = "acquiring"

\* Every GET ends, whatever the answers and however many tasks share the
\* limiter, unless one of its own answers carried an endless Retry-After: that
\* of another task, asleep in its backoff or stalled there, stops nobody.
GetsEnd ==
    \A c \in Callers :
        step[c] = "acquiring" ~>
            step[c] \in {"returned", "raised", "cancelled", "stalled"}

=============================================================================
