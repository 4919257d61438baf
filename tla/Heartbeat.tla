----------------------------- MODULE Heartbeat -----------------------------
(***************************************************************************)
(* The periodic challenges of a session on Main (HeartbeatManager): sent   *)
(* by timers, answered by the client, repeated when an answer is late and  *)
(* given up, with the session, after some repetitions.  Timers fire on any *)
(* thread of the io_context, beside the session's strand that takes the    *)
(* answers; a step is one hold of the manager's mutex or an event of asio. *)
(*                                                                         *)
(* Abstractions: time (timers fire in any order, so one that the code sets *)
(* to 30 seconds may fire before one of 10); encryption and the contents   *)
(* of challenges, of which the client answers the oldest first; a session  *)
(* id starts its heartbeat once.                                           *)
(***************************************************************************)
EXTENDS Naturals

CONSTANTS
    MaxPending,     \* kMaxPendingChallenges
    MaxRetries,     \* kMaxRetries
    MaxTimers       \* timers and calls under way when an answer comes: a bound

VARIABLES
    life,       \* "new", "on" while sessions_ has the entry, "over" after
    answering,  \* whether the client still answers; once it stops, for good
    pending,    \* how many challenges pendingChallenges holds, the latest ones
    unanswered, \* how many the client has not answered; more than MaxPending are one more
    retries,    \* retryCount
    awaiting,   \* awaitingResponse
    current,    \* state.timer: the purpose of the timer that can be cancelled
    others,     \* how many other timers are set, by purpose
    calls       \* threads between two holds of the mutex, by what they call next

state == <<pending, unanswered, retries, awaiting>>
vars  == <<life, answering, state, current, others, calls>>

Purpose == {"timeout", "challenge"}
Call    == Purpose \cup {"sendChallenge"}
None    == "none"

TypeOK ==
    /\ life \in {"new", "on", "over"} /\ answering \in BOOLEAN
    /\ pending \in 0 .. MaxPending /\ unanswered \in 0 .. MaxPending + 1 /\ pending <= unanswered
    /\ retries \in 0 .. MaxRetries /\ awaiting \in BOOLEAN
    /\ current \in Purpose \cup {None} /\ others \in [Purpose -> Nat]
    /\ calls \in [Call -> Nat]

Init ==
    /\ life = "new" /\ answering = TRUE
    /\ pending = 0 /\ unanswered = 0 /\ retries = 0 /\ awaiting = FALSE
    /\ current = None /\ others = [p \in Purpose |-> 0]
    /\ calls = [f \in Call |-> 0]

-----------------------------------------------------------------------------
Add(f, x)  == [f EXCEPT ![x] = @ + 1]
Take(f, x) == [f EXCEPT ![x] = @ - 1]

\* state.timer lets go of its timer, which stays set.
LetGo == IF current = None THEN others ELSE Add(others, current)

\* timer->cancel() reaches the timer or comes too early, before its wait has
\* begun, or too late, when its handler is about to run.
Cancel == current' = None /\ others' \in {others, LetGo}

\* startSession, up to its scheduleNextChallenge.
StartSession ==
    /\ life = "new" /\ life' = "on" /\ calls' = Add(calls, "challenge")
    /\ UNCHANGED <<answering, state, current, others>>

\* stopSession.
StopSession ==
    /\ life' = "over"
    /\ pending' = 0 /\ unanswered' = 0 /\ retries' = 0 /\ awaiting' = FALSE

\* The client disconnects.
Disconnect == life = "on" /\ StopSession /\ Cancel /\ UNCHANGED <<answering, calls>>

\* scheduleTimeout and scheduleNextChallenge: the new timer takes the place of
\* the old one, which is not cancelled.
Schedule(p) ==
    /\ calls[p] > 0 /\ calls' = Take(calls, p)
    /\ IF life = "on" THEN current' = p /\ others' = LetGo ELSE UNCHANGED <<current, others>>
    /\ UNCHANGED <<life, answering, state>>

\* A timer fires, state.timer's or another one.
Fires(p) ==
    \/ current = p /\ current' = None /\ others' = others
    \/ others[p] > 0 /\ others' = Take(others, p) /\ current' = current

\* Defect: every challenge is the first one again.
CountedAnew == retries' = 0

Counted == retries' = retries

\* sendChallenge, up to its scheduleTimeout; the oldest pending challenge makes
\* room for the new one.
SendChallenge(otherCalls) ==
    IF life # "on" THEN calls' = otherCalls /\ UNCHANGED state
    ELSE /\ pending' = IF pending < MaxPending THEN pending + 1 ELSE pending
         /\ unanswered' = IF unanswered <= MaxPending THEN unanswered + 1 ELSE unanswered
         /\ awaiting' = TRUE /\ Counted
         /\ calls' = Add(otherCalls, "timeout")

\* The handler of scheduleNextChallenge.
NextChallenge == Fires("challenge") /\ SendChallenge(calls) /\ UNCHANGED <<life, answering>>

\* The handler of scheduleTimeout: nothing is awaited any more, or it is the
\* last retry, or another challenge is to be sent.
Timeout ==
    /\ Fires("timeout")
    /\ \/ /\ life # "on" \/ ~awaiting
          /\ UNCHANGED <<life, state, calls>>
       \/ /\ life = "on" /\ awaiting /\ retries + 1 >= MaxRetries
          /\ StopSession /\ UNCHANGED calls
       \/ /\ life = "on" /\ awaiting /\ retries + 1 < MaxRetries
          /\ retries' = retries + 1 /\ awaiting' = FALSE
          /\ calls' = Add(calls, "sendChallenge")
          /\ UNCHANGED <<life, pending, unanswered>>
    /\ UNCHANGED answering

SendAgain ==
    /\ calls["sendChallenge"] > 0 /\ SendChallenge(Take(calls, "sendChallenge"))
    /\ UNCHANGED <<life, answering, current, others>>

UnderWay ==
    others["timeout"] + others["challenge"] + calls["timeout"] + calls["challenge"]
        + calls["sendChallenge"]

\* Defect: the chain goes on only where the answer came in time.
GoesOnIfAwaited == pending = 1 /\ awaiting

GoesOn == pending = 1

\* onResponse, up to its scheduleNextChallenge: the answer to a challenge that
\* is not pending any more ends the session; else the chain of challenges goes
\* on if none is pending now.
Answer ==
    /\ life = "on" /\ answering /\ unanswered > 0 /\ UnderWay < MaxTimers
    /\ \/ unanswered > pending /\ StopSession /\ Cancel /\ UNCHANGED calls
       \/ /\ unanswered = pending
          /\ pending' = pending - 1 /\ unanswered' = unanswered - 1
          /\ awaiting' = FALSE
          /\ IF awaiting THEN retries' = 0 /\ Cancel ELSE UNCHANGED <<retries, current, others>>
          /\ calls' = IF GoesOn THEN Add(calls, "challenge") ELSE calls
          /\ UNCHANGED life
    /\ UNCHANGED answering

FallSilent == answering /\ answering' = FALSE /\ UNCHANGED <<life, state, current, others, calls>>

Next ==
    \/ StartSession \/ Disconnect \/ SendAgain \/ Answer \/ FallSilent
    \/ NextChallenge \/ Timeout \/ \E p \in Purpose : Schedule(p)

\* asio runs what is ready, timers fire, and a client that answers does so.
Fairness ==
    /\ \A p \in Purpose : WF_vars(Schedule(p))
    /\ WF_vars(SendAgain) /\ WF_vars(NextChallenge) /\ WF_vars(Timeout) /\ WF_vars(Answer)

Spec == Init /\ [][Next]_vars /\ Fairness
-----------------------------------------------------------------------------
\* Once all challenges are answered the next one comes, whatever late answers
\* and timeouts have met.
KeepsChallenging == life = "on" /\ pending = 0 ~> pending > 0 \/ life = "over"

\* A client that falls silent while a challenge is awaited is disconnected.
SilentIsDropped == life = "on" /\ awaiting /\ ~answering ~> life = "over"
=============================================================================
