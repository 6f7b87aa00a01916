------------------------- MODULE ContainmentClients -------------------------
(***************************************************************************)
(* The clients through which WardHound acts on other systems, side by      *)
(* side: those of the response handlers, and the Ops client of the polls.  *)
(* They share no state, so what one vendor's calls do is independent of    *)
(* the others' steps: a behaviour shows the calls of one of them.          *)
(***************************************************************************)
EXTENDS FirepowerClient, ActiveDirectoryClient, SessionAndPushClients, DirectRequestClients,
        OpsJobClient

VARIABLE vendor   \* whose calls this behaviour shows

Vendors == {"firepower", "active_directory", "jumpserver", "duo", "direct", "ops"}

vars == <<vendor, fmcVars, adVars, killVars, duoVars, postVars, opsVars>>

TypeOK ==
    /\ vendor \in Vendors
    /\ FmcTypeOK
    /\ AdTypeOK
    /\ KillTypeOK
    /\ DuoTypeOK
    /\ PostTypeOK
    /\ OpsTypeOK

Init ==
    /\ vendor \in Vendors
    /\ FmcInit
    /\ AdInit
    /\ KillInit
    /\ DuoInit
    /\ PostInit
    /\ OpsInit

FirepowerStep ==
    /\ vendor = "firepower"
    /\ FmcNext
    /\ UNCHANGED <<vendor, adVars, killVars, duoVars, postVars, opsVars>>

DirectoryStep ==
    /\ vendor = "active_directory"
    /\ AdNext
    /\ UNCHANGED <<vendor, fmcVars, killVars, duoVars, postVars, opsVars>>

JumpServerStep ==
    /\ vendor = "jumpserver"
    /\ KillNext
    /\ UNCHANGED <<vendor, fmcVars, adVars, duoVars, postVars, opsVars>>

DuoStep ==
    /\ vendor = "duo"
    /\ DuoNext
    /\ UNCHANGED <<vendor, fmcVars, adVars, killVars, postVars, opsVars>>

DirectStep ==
    /\ vendor = "direct"
    /\ PostNext
    /\ UNCHANGED <<vendor, fmcVars, adVars, killVars, duoVars, opsVars>>

OpsStep ==
    /\ vendor = "ops"
    /\ OpsNext
    /\ UNCHANGED <<vendor, fmcVars, adVars, killVars, duoVars, postVars>>

Next ==
    FirepowerStep \/ DirectoryStep \/ JumpServerStep \/ DuoStep \/ DirectStep \/ OpsStep

Spec == Init /\ [][Next]_vars

\* Every request and LDAP operation has a timeout, so a call that has begun
\* takes its next step unless it fails; a direct request whose answer never
\* comes fails.  A call may never begin, no push is ever
\* answered and no job ever finished for sure.
FairSpec ==
    /\ Spec
    /\ \A b \in Blocks : WF_vars(FirepowerStep /\ blockPc[b] # "idle" /\ BlockStep(b))
    /\ \A d \in Disables : WF_vars(DirectoryStep /\ disablePc[d] # "idle" /\ DisableStep(d))
    /\ \A k \in Kills : WF_vars(JumpServerStep /\ killPc[k] # "idle" /\ KillStep(k))
    /\ \A v \in Verifies : WF_vars(DuoStep /\ verifyPc[v] # "idle" /\ VerifyStep(v))
    /\ \A p \in Posts : WF_vars(DirectStep /\ postPc[p] # "idle" /\ PostStep(p))
    /\ \A o \in OpsRuns : WF_vars(OpsStep /\ opsPc[o] # "idle" /\ RunStep(o))
-----------------------------------------------------------------------------
Calls == Blocks \cup Disables \cup Kills \cup Verifies \cup Posts \cup OpsRuns

\* A call is one client's.
ASSUME CallsAssumption ==
    /\ Blocks \cap (Disables \cup Kills \cup Verifies \cup Posts \cup OpsRuns) = {}
    /\ Disables \cap (Kills \cup Verifies \cup Posts \cup OpsRuns) = {}
    /\ Kills \cap (Verifies \cup Posts \cup OpsRuns) = {}
    /\ Verifies \cap (Posts \cup OpsRuns) = {}
    /\ Posts \cap OpsRuns = {}

PcOf(c) ==
    CASE c \in Blocks -> blockPc[c]
      [] c \in Disables -> disablePc[c]
      [] c \in Kills -> killPc[c]
      [] c \in Verifies -> verifyPc[c]
      [] c \in Posts -> postPc[c]
      [] c \in OpsRuns -> opsPc[c]

\* What the response handler knows of a call: nothing before it ends.
Status(c) == IF PcOf(c) \in {"idle", "succeeded", "failed"} THEN PcOf(c) ELSE "running"

Promised == INSTANCE ContainmentCall
                WITH status <- [c \in Calls |-> Status(c)],
                     effective <- Blocked \cup Disabled \cup Terminated \cup Verified \cup recorded
                                  \cup Completed

\* Whatever other calls, administrators, late requests and lost answers do, a
\* client reports success only in a state in which the address is blocked, the
\* account disabled, the session finished, its own push approved by an active
\* user, the record made, or the job finished successfully.
SafelyPromised == Promised!Promise

\* And every call that has begun ends: the polling of a push and of a job is bounded.
ClientsKeepPromise == Promised!Spec
-----------------------------------------------------------------------------
\* What a call between two requests relies on, inductive with the types: it
\* polls for as long as it may, and moves on only with the effect there.

PushesAnswered ==
    \A v \in Verifies :
        /\ verifyPc[v] \in {"idle", "send"} => polls[v] = 0
        /\ verifyPc[v] = "poll" => polls[v] < ConfirmationAttempts
        /\ verifyPc[v] = "confirm" => push[v] = "approve"

AnswersTruthful ==
    \A p \in Posts :
        /\ answer[p] = "with_id" => p \in recorded
        /\ answer[p] = "without_id" /\ PostKind[p] = "notify" => p \in recorded

JobsAwaited ==
    \A o \in OpsRuns :
        /\ opsPc[o] \in {"idle", "post"} => elapsed[o] = 0
        /\ opsPc[o] = "wait" => elapsed[o] <= CompletionTimeout
        /\ opsPc[o] = "log" => job[o] = "success"

ClientsInv == TypeOK /\ PushesAnswered /\ AnswersTruthful /\ JobsAwaited
=============================================================================
