------------------------ MODULE SessionAndPushClients ------------------------
(***************************************************************************)
(* The clients whose effect comes about after the request was accepted:    *)
(*   - JumpServerClient.terminate_session, app/integrations/jumpserver.py: *)
(*     JumpServer queues a kill task and the client reads the session once *)
(*     right after;                                                        *)
(*   - DuoClient.require_verification, app/integrations/duo.py: Duo sends  *)
(*     a push to the user's phone and the client polls for the answer, a   *)
(*     bounded number of times.                                            *)
(***************************************************************************)
EXTENDS Integers

CONSTANTS
    Kills,         \* calls of terminate_session
    KillSession,   \* KillSession[k]: the session that call k terminates
    Verifies,      \* calls of require_verification for one user
    ConfirmationAttempts,  \* DUO_CONFIRMATION_ATTEMPTS
    MaxUserChanges \* bound on changes of the Duo user's status

ASSUME AttemptsAssumption == ConfirmationAttempts \in Nat \ {0} /\ MaxUserChanges \in Nat

VARIABLES
    killPc,     \* where each terminate_session is
    killTasks,  \* sessions with a kill task in JumpServer's queue
    finished    \* sessions that are is_finished

VARIABLES
    verifyPc,    \* where each require_verification is
    push,        \* the state of the push that each call sent
    polls,       \* confirmation attempts of each call
    userActive,  \* the Duo user is active and enrolled
    userChanges  \* changes of that so far

killVars == <<killPc, killTasks, finished>>
duoVars == <<verifyPc, push, polls, userActive, userChanges>>

Sessions == {KillSession[k] : k \in Kills}

KillTypeOK ==
    /\ killPc \in [Kills -> {"idle", "confirm", "succeeded", "failed"}]
    /\ killTasks \subseteq Sessions
    /\ finished \subseteq Sessions

DuoTypeOK ==
    /\ verifyPc \in [Verifies -> {"idle", "send", "poll", "confirm", "succeeded", "failed"}]
    /\ push \in [Verifies -> {"none", "waiting", "approve", "deny"}]
    /\ polls \in [Verifies -> 0..ConfirmationAttempts]
    /\ userActive \in BOOLEAN
    /\ userChanges \in 0..MaxUserChanges

KillInit ==
    /\ killPc = [k \in Kills |-> "idle"]
    /\ killTasks = {}
    /\ finished = {}

DuoInit ==
    /\ verifyPc = [v \in Verifies |-> "idle"]
    /\ push = [v \in Verifies |-> "none"]
    /\ polls = [v \in Verifies |-> 0]
    /\ userActive = TRUE
    /\ userChanges = 0
-----------------------------------------------------------------------------
KillGoto(k, where) == killPc' = [killPc EXCEPT ![k] = where]

\* POST kill-session; the answer lists the session under "ok".
PostKill(k) ==
    /\ killPc[k] = "idle"
    /\ killTasks' = killTasks \cup {KillSession[k]}
    /\ KillGoto(k, "confirm")
    /\ UNCHANGED finished

\* Mutant of ReadSession: an accepted task is taken for the confirmation.
AcceptedIsDone(k) ==
    /\ killPc[k] = "confirm"
    /\ KillGoto(k, "succeeded")
    /\ UNCHANGED <<killTasks, finished>>

\* One GET of the session: is_finished, or "did not show the session as finished".
ReadSession(k) ==
    /\ killPc[k] = "confirm"
    /\ KillGoto(k, IF KillSession[k] \in finished THEN "succeeded" ELSE "failed")
    /\ UNCHANGED <<killTasks, finished>>

\* JumpServerError; the POST may have queued the task although it was not answered.
KillFails(k) ==
    /\ killPc[k] \in {"idle", "confirm"}
    /\ KillGoto(k, "failed")
    /\ \/ UNCHANGED killTasks
       \/ killPc[k] = "idle" /\ killTasks' = killTasks \cup {KillSession[k]}
    /\ UNCHANGED finished

\* JumpServer works off a kill task.
RunKillTask(s) ==
    /\ s \in killTasks
    /\ killTasks' = killTasks \ {s}
    /\ finished' = finished \cup {s}
    /\ UNCHANGED killPc

\* The operator ends the session, before or after it was to be killed.
CloseSession(s) ==
    /\ s \notin finished
    /\ finished' = finished \cup {s}
    /\ UNCHANGED <<killPc, killTasks>>

KillStep(k) == PostKill(k) \/ ReadSession(k)

KillNext ==
    \/ \E k \in Kills : KillStep(k) \/ KillFails(k)
    \/ \E s \in Sessions : RunKillTask(s) \/ CloseSession(s)

Terminated == {k \in Kills : KillSession[k] \in finished}
-----------------------------------------------------------------------------
VerifyGoto(v, where) == verifyPc' = [verifyPc EXCEPT ![v] = where]

\* _lookup_user and _push_phone_id: one active and enrolled user with a phone.
LookupUser(v) ==
    /\ verifyPc[v] = "idle"
    /\ userActive
    /\ VerifyGoto(v, "send")
    /\ UNCHANGED <<push, polls, userActive, userChanges>>

SendPush(v) ==
    /\ verifyPc[v] = "send"
    /\ push' = [push EXCEPT ![v] = "waiting"]
    /\ VerifyGoto(v, "poll")
    /\ UNCHANGED <<polls, userActive, userChanges>>

\* Mutant of PushResult: the answer to any push of this user counts.
AnyPushResult(v) ==
    IF \E w \in Verifies : push[w] = "approve" THEN "approve" ELSE push[v]

\* verification_push_response of this call's push_id.
PushResult(v) == push[v]

\* Mutant of ConfirmPush: the number of attempts is not bounded.
PollForever(v) ==
    /\ verifyPc[v] = "poll"
    /\ VerifyGoto(v, CASE push[v] = "approve" -> "confirm"
                       [] push[v] = "waiting" -> "poll"
                       [] OTHER -> "failed")
    /\ UNCHANGED <<push, polls, userActive, userChanges>>

\* One attempt of _confirm_push: the first result other than "waiting" decides,
\* the last "waiting" is a timeout.
ConfirmPush(v) ==
    /\ verifyPc[v] = "poll"
    /\ polls' = [polls EXCEPT ![v] = @ + 1]
    /\ VerifyGoto(v, CASE PushResult(v) = "approve" -> "confirm"
                       [] PushResult(v) = "waiting" /\ polls[v] + 1 < ConfirmationAttempts -> "poll"
                       [] OTHER -> "failed")
    /\ UNCHANGED <<push, userActive, userChanges>>

\* The confirmation read of the user.
ConfirmUser(v) ==
    /\ verifyPc[v] = "confirm"
    /\ VerifyGoto(v, IF userActive THEN "succeeded" ELSE "failed")
    /\ UNCHANGED <<push, polls, userActive, userChanges>>

\* DuoError: a failed request, an unusable answer, an unknown or inactive user,
\* no phone.  A push that was not answered for may be on the phone.
VerifyFails(v) ==
    /\ verifyPc[v] \in {"idle", "send", "poll", "confirm"}
    /\ VerifyGoto(v, "failed")
    /\ \/ UNCHANGED push
       \/ verifyPc[v] = "send" /\ push' = [push EXCEPT ![v] = "waiting"]
    /\ UNCHANGED <<polls, userActive, userChanges>>

\* The user answers at any time, after the call has given up too.
UserAnswers(v) ==
    /\ push[v] = "waiting"
    /\ \E a \in {"approve", "deny"} : push' = [push EXCEPT ![v] = a]
    /\ UNCHANGED <<verifyPc, polls, userActive, userChanges>>

\* A Duo administrator disables or enables the user.
ChangeUser ==
    /\ userChanges < MaxUserChanges
    /\ userChanges' = userChanges + 1
    /\ userActive' = ~userActive
    /\ UNCHANGED <<verifyPc, push, polls>>

VerifyStep(v) == LookupUser(v) \/ SendPush(v) \/ ConfirmPush(v) \/ ConfirmUser(v)

DuoNext ==
    \/ \E v \in Verifies : VerifyStep(v) \/ VerifyFails(v) \/ UserAnswers(v)
    \/ ChangeUser

Verified == {v \in Verifies : push[v] = "approve" /\ userActive}
=============================================================================
