---------------------- MODULE ContainmentClientsProofs ----------------------
(***************************************************************************)
(* Theorems about ContainmentClients.                                      *)
(***************************************************************************)
EXTENDS ContainmentClients, TLAPS

-----------------------------------------------------------------------------
\* Types, client by client.

\* add_blocklist_member and what others do to the group keep the types.
LEMMA FmcTypeStep == ASSUME FmcTypeOK, FmcNext PROVE FmcTypeOK'
<1>0. groupOverlap' \in BOOLEAN
  BY Zenon DEF FmcTypeOK, FmcNext, BlockStep, Authenticate, GetGroup, PutGroup, PutLands,
     ConfirmMember, BlockFails, PutTimesOut, LatePut, EditGroup
<1> USE DEF FmcTypeOK, BlockGoto, Members
<1>1. ASSUME NEW b \in Blocks, BlockStep(b) PROVE FmcTypeOK'
  <2>1. CASE Authenticate(b)
    BY <1>0, <2>1 DEF Authenticate
  <2>2. CASE GetGroup(b)
    BY <1>0, <2>2 DEF GetGroup
  <2>3. CASE PutGroup(b)
    BY <1>0, <2>3 DEF PutGroup, PutLands, NetworkGroupUpdate
  <2>4. CASE ConfirmMember(b)
    BY <1>0, <2>4 DEF ConfirmMember
  <2> QED BY <1>1, <2>1, <2>2, <2>3, <2>4 DEF BlockStep
<1>2. ASSUME NEW b \in Blocks, BlockFails(b) \/ PutTimesOut(b) \/ LatePut(b) PROVE FmcTypeOK'
  <2>1. CASE BlockFails(b)
    BY <1>0, <2>1 DEF BlockFails
  <2>2. CASE PutTimesOut(b)
    BY <1>0, <2>2 DEF PutTimesOut
  <2>3. CASE LatePut(b)
    BY <1>0, <2>3 DEF LatePut, PutLands, NetworkGroupUpdate
  <2> QED BY <1>2, <2>1, <2>2, <2>3
<1>3. ASSUME NEW m \in AdminMembers, EditGroup(m) PROVE FmcTypeOK'
  BY <1>0, <1>3, GroupBoundAssumption DEF EditGroup
<1> QED BY <1>1, <1>2, <1>3 DEF FmcNext

\* So do disable_user and the changes of flags.
LEMMA AdTypeStep == ASSUME AdTypeOK, AdNext PROVE AdTypeOK'
<1>0. uacOverlap' \in BOOLEAN
  BY Zenon DEF AdTypeOK, AdNext, DisableStep, Bind, FindUser, ModifyControl, ModifyLands,
     ReadControl, DisableFails, ModifyTimesOut, LateModify, ChangeFlag
<1> USE DEF AdTypeOK, DisableGoto, Flags
<1>1. ASSUME NEW d \in Disables, DisableStep(d) PROVE AdTypeOK'
  <2>1. CASE Bind(d)
    BY <1>0, <2>1 DEF Bind
  <2>2. CASE FindUser(d)
    BY <1>0, <2>2 DEF FindUser
  <2>3. CASE ModifyControl(d)
    BY <1>0, <2>3 DEF ModifyControl, ModifyLands, DisabledControl
  <2>4. CASE ReadControl(d)
    BY <1>0, <2>4 DEF ReadControl
  <2> QED BY <1>1, <2>1, <2>2, <2>3, <2>4 DEF DisableStep
<1>2. ASSUME NEW d \in Disables, DisableFails(d) \/ ModifyTimesOut(d) \/ LateModify(d)
      PROVE  AdTypeOK'
  <2>1. CASE DisableFails(d)
    BY <1>0, <2>1 DEF DisableFails
  <2>2. CASE ModifyTimesOut(d)
    BY <1>0, <2>2 DEF ModifyTimesOut
  <2>3. CASE LateModify(d)
    BY <1>0, <2>3 DEF LateModify, ModifyLands, DisabledControl
  <2> QED BY <1>2, <2>1, <2>2, <2>3
<1>3. ASSUME NEW f \in Flags, ChangeFlag(f) PROVE AdTypeOK'
  BY <1>0, <1>3, FlagsAssumption DEF ChangeFlag
<1> QED BY <1>1, <1>2, <1>3 DEF AdNext

\* So do terminate_session, the kill tasks and the ends of sessions.
LEMMA KillTypeStep == ASSUME KillTypeOK, KillNext PROVE KillTypeOK'
<1> USE DEF KillTypeOK, KillGoto, Sessions
<1>1. ASSUME NEW k \in Kills, KillStep(k) \/ KillFails(k) PROVE KillTypeOK'
  BY <1>1 DEF KillStep, PostKill, ReadSession, KillFails
<1>2. ASSUME NEW s \in Sessions, RunKillTask(s) \/ CloseSession(s) PROVE KillTypeOK'
  BY <1>2 DEF RunKillTask, CloseSession
<1> QED BY <1>1, <1>2 DEF KillNext

\* A call stops polling after the last attempt.
LEMMA DuoTypeStep ==
    ASSUME DuoTypeOK, PushesAnswered, DuoNext
    PROVE  DuoTypeOK'
<1>0. userActive' \in BOOLEAN
  BY Zenon DEF DuoTypeOK, DuoNext, VerifyStep, LookupUser, SendPush, ConfirmPush, ConfirmUser,
     VerifyFails, UserAnswers, ChangeUser
<1> USE DEF DuoTypeOK, VerifyGoto
<1>1. ASSUME NEW v \in Verifies, VerifyStep(v) PROVE DuoTypeOK'
  <2>1. CASE LookupUser(v)
    BY <1>0, <2>1 DEF LookupUser
  <2>2. CASE SendPush(v)
    BY <1>0, <2>2 DEF SendPush
  <2>3. CASE ConfirmPush(v)
    BY <1>0, <2>3, AttemptsAssumption DEF ConfirmPush, PushResult, PushesAnswered
  <2>4. CASE ConfirmUser(v)
    BY <1>0, <2>4 DEF ConfirmUser
  <2> QED BY <1>1, <2>1, <2>2, <2>3, <2>4 DEF VerifyStep
<1>2. ASSUME NEW v \in Verifies, VerifyFails(v) \/ UserAnswers(v) PROVE DuoTypeOK'
  BY <1>0, <1>2 DEF VerifyFails, UserAnswers
<1>3. CASE ChangeUser
  BY <1>0, <1>3, AttemptsAssumption DEF ChangeUser
<1> QED BY <1>1, <1>2, <1>3 DEF DuoNext

\* So do the direct requests.
LEMMA PostTypeStep == ASSUME PostTypeOK, PostNext PROVE PostTypeOK'
<1> USE DEF PostTypeOK, PostGoto, Answers
<1>1. ASSUME NEW p \in Posts, PostStep(p) PROVE PostTypeOK'
  BY <1>1 DEF PostStep, SendPost, IsolateNode, CreateTicket, SendNotification, AnswerArrives,
     PostFails
<1>2. ASSUME NEW p \in Posts, VendorActs(p) PROVE PostTypeOK'
  BY <1>2 DEF VendorActs
<1> QED BY <1>1, <1>2 DEF PostNext

\* The last sleep of a wait ends at or before the deadline.
LEMMA OpsTypeStep ==
    ASSUME OpsTypeOK, JobsAwaited, OpsNext
    PROVE  OpsTypeOK'
<1> USE OpsAssumption DEF OpsTypeOK, OpsGoto
<1>1. ASSUME NEW o \in OpsRuns, ReadRunning(o) PROVE OpsTypeOK'
  BY <1>1 DEF ReadRunning, JobsAwaited
<1>2. ASSUME NEW o \in OpsRuns,
             \/ ResolveAsset(o) \/ PostJob(o) \/ ReadFinished(o) \/ ReadLog(o)
             \/ OpsFails(o) \/ JobEnds(o)
      PROVE  OpsTypeOK'
  BY <1>2 DEF ResolveAsset, PostJob, ReadFinished, ReadLog, OpsFails, JobEnds
<1> QED BY <1>1, <1>2 DEF OpsNext, RunStep
-----------------------------------------------------------------------------
\* What the calls rely on between two requests.

\* A call polls as long as it has attempts left, and goes on with an approved push.
LEMMA PushesStep == ASSUME DuoTypeOK, PushesAnswered, DuoNext PROVE PushesAnswered'
<1> USE AttemptsAssumption DEF DuoTypeOK, PushesAnswered, VerifyGoto
<1>1. ASSUME NEW v \in Verifies, VerifyStep(v) PROVE PushesAnswered'
  <2>1. CASE LookupUser(v)
    BY <2>1 DEF LookupUser
  <2>2. CASE SendPush(v)
    BY <2>2 DEF SendPush
  <2>3. CASE ConfirmPush(v)
    BY <2>3 DEF ConfirmPush, PushResult
  <2>4. CASE ConfirmUser(v)
    BY <2>4 DEF ConfirmUser
  <2> QED BY <1>1, <2>1, <2>2, <2>3, <2>4 DEF VerifyStep
<1>2. ASSUME NEW v \in Verifies, VerifyFails(v) \/ UserAnswers(v) PROVE PushesAnswered'
  BY <1>2 DEF VerifyFails, UserAnswers
<1>3. CASE ChangeUser
  BY <1>3 DEF ChangeUser
<1> QED BY <1>1, <1>2, <1>3 DEF DuoNext

\* A vendor that names a record has made it, and so has a receiver that accepts.
LEMMA AnswersStep == ASSUME PostTypeOK, AnswersTruthful, PostNext PROVE AnswersTruthful'
<1> USE DEF PostTypeOK, AnswersTruthful, Answers
<1>1. ASSUME NEW p \in Posts, PostStep(p) PROVE AnswersTruthful'
  BY <1>1 DEF PostStep, SendPost, IsolateNode, CreateTicket, SendNotification, AnswerArrives,
     PostFails
<1>2. ASSUME NEW p \in Posts, VendorActs(p) PROVE AnswersTruthful'
  BY <1>2 DEF VendorActs
<1> QED BY <1>1, <1>2 DEF PostNext

\* A run waits until the deadline, and reads the log of a successful job only.
LEMMA JobsStep == ASSUME OpsTypeOK, JobsAwaited, OpsNext PROVE JobsAwaited'
<1> USE OpsAssumption DEF OpsTypeOK, OpsGoto, JobsAwaited
<1>1. ASSUME NEW o \in OpsRuns, ReadRunning(o) PROVE JobsAwaited'
  BY <1>1 DEF ReadRunning
<1>2. ASSUME NEW o \in OpsRuns,
             ResolveAsset(o) \/ PostJob(o) \/ ReadFinished(o) \/ ReadLog(o) \/ OpsFails(o)
      PROVE  JobsAwaited'
  BY <1>2 DEF ResolveAsset, PostJob, ReadFinished, ReadLog, OpsFails
<1>3. ASSUME NEW o \in OpsRuns, JobEnds(o) PROVE JobsAwaited'
  BY <1>3 DEF JobEnds
<1> QED BY <1>1, <1>2, <1>3 DEF OpsNext, RunStep

\* Before the first call nothing is read, sent or waited for.
LEMMA ClientsInit == Init => ClientsInv
<1> SUFFICES ASSUME Init PROVE ClientsInv
  OBVIOUS
<1>1. FmcTypeOK
  <2>1. groupOverlap \in BOOLEAN
    BY Zenon DEF Init, FmcInit
  <2> QED BY <2>1, GroupBoundAssumption DEF Init, FmcInit, FmcTypeOK, Members
<1>2. AdTypeOK
  <2>1. uacOverlap \in BOOLEAN
    BY Zenon DEF Init, AdInit
  <2> QED BY <2>1, FlagsAssumption DEF Init, AdInit, AdTypeOK
<1>3. KillTypeOK /\ PostTypeOK /\ AnswersTruthful
  BY DEF Init, KillInit, KillTypeOK, PostInit, PostTypeOK, Answers, AnswersTruthful
<1>4. DuoTypeOK /\ PushesAnswered
  <2>1. userActive \in BOOLEAN
    BY Zenon DEF Init, DuoInit
  <2> QED BY <2>1, AttemptsAssumption DEF Init, DuoInit, DuoTypeOK, PushesAnswered
<1>5. OpsTypeOK /\ JobsAwaited
  BY OpsAssumption DEF Init, OpsInit, OpsTypeOK, JobsAwaited
<1> QED BY <1>1, <1>2, <1>3, <1>4, <1>5 DEF Init, ClientsInv, TypeOK

\* A step of one client keeps its part of the invariant and leaves the others' alone.
LEMMA ClientsStep == ClientsInv /\ [Next]_vars => ClientsInv'
<1> SUFFICES ASSUME ClientsInv, [Next]_vars PROVE ClientsInv'
  OBVIOUS
<1> USE DEF ClientsInv, TypeOK
<1>k1. UNCHANGED fmcVars => FmcTypeOK'
  BY DEF fmcVars, FmcTypeOK
<1>k2. UNCHANGED adVars => AdTypeOK'
  BY DEF adVars, AdTypeOK
<1>k3. UNCHANGED killVars => KillTypeOK'
  BY DEF killVars, KillTypeOK
<1>k4. UNCHANGED duoVars => DuoTypeOK' /\ PushesAnswered'
  BY DEF duoVars, DuoTypeOK, PushesAnswered
<1>k5. UNCHANGED postVars => PostTypeOK' /\ AnswersTruthful'
  BY DEF postVars, PostTypeOK, AnswersTruthful
<1>k6. UNCHANGED opsVars => OpsTypeOK' /\ JobsAwaited'
  BY DEF opsVars, OpsTypeOK, JobsAwaited
<1>1. CASE FirepowerStep
  BY <1>1, FmcTypeStep, <1>k2, <1>k3, <1>k4, <1>k5, <1>k6 DEF FirepowerStep
<1>2. CASE DirectoryStep
  BY <1>2, AdTypeStep, <1>k1, <1>k3, <1>k4, <1>k5, <1>k6 DEF DirectoryStep
<1>3. CASE JumpServerStep
  BY <1>3, KillTypeStep, <1>k1, <1>k2, <1>k4, <1>k5, <1>k6 DEF JumpServerStep
<1>4. CASE DuoStep
  BY <1>4, DuoTypeStep, PushesStep, <1>k1, <1>k2, <1>k3, <1>k5, <1>k6 DEF DuoStep
<1>5. CASE DirectStep
  BY <1>5, PostTypeStep, AnswersStep, <1>k1, <1>k2, <1>k3, <1>k4, <1>k6 DEF DirectStep
<1>6. CASE OpsStep
  BY <1>6, OpsTypeStep, JobsStep, <1>k1, <1>k2, <1>k3, <1>k4, <1>k5 DEF OpsStep
<1>7. CASE UNCHANGED vars
  BY <1>7, <1>k1, <1>k2, <1>k3, <1>k4, <1>k5, <1>k6 DEF vars
<1> QED BY <1>1, <1>2, <1>3, <1>4, <1>5, <1>6, <1>7 DEF Next

\* The variables of the clients always have their types; in particular no push is
\* polled more often than DUO_CONFIRMATION_ATTEMPTS and no job waited for much
\* longer than completion_timeout.
THEOREM ClientsTypeCorrect == Spec => []TypeOK
<1>1. ClientsInv => TypeOK
  BY DEF ClientsInv
<1> QED BY <1>1, ClientsInit, ClientsStep, PTL DEF Spec
-----------------------------------------------------------------------------
\* What a PUT does to the group while no other write came between.
LEMMA PutAsMeant ==
    ASSUME GroupAsMeant, NEW b \in Blocks, PutLands(b) PROVE GroupAsMeant'
<1>1. groupOverlap' = (groupOverlap \/ group # blockRead[b])
  BY DEF PutLands
<1>2. ~groupOverlap' => ~groupOverlap /\ group = blockRead[b]
  BY <1>1, Zenon
<1>3. group = groupMeant /\ group = blockRead[b] => group' = groupMeant'
  BY DEF PutLands, NetworkGroupUpdate
<1> QED BY <1>2, <1>3 DEF GroupAsMeant

\* Late PUTs, timeouts and administrators' edits included, the blocklist is what
\* every single change meant it to be, unless a PUT replaced a group that its
\* call had not read.
THEOREM GroupKeptAsMeant == Spec => []GroupAsMeant
<1>1. Init => GroupAsMeant
  BY DEF Init, FmcInit, GroupAsMeant
<1>2. GroupAsMeant /\ [Next]_vars => GroupAsMeant'
  <2> SUFFICES ASSUME GroupAsMeant, [Next]_vars PROVE GroupAsMeant'
    OBVIOUS
  <2>1. UNCHANGED <<group, groupMeant, groupOverlap>> => GroupAsMeant'
    BY DEF GroupAsMeant
  <2>2. ASSUME NEW b \in Blocks,
               \/ BlockStep(b)
               \/ BlockFails(b) \/ PutTimesOut(b) \/ LatePut(b)
        PROVE  GroupAsMeant'
    BY <2>1, <2>2, PutAsMeant DEF BlockStep, Authenticate, GetGroup, PutGroup, ConfirmMember,
       BlockFails, PutTimesOut, LatePut
  <2>3. ASSUME NEW m \in AdminMembers, EditGroup(m) PROVE GroupAsMeant'
    BY <2>3 DEF EditGroup, GroupAsMeant
  <2>4. FirepowerStep => GroupAsMeant'
    BY <2>2, <2>3 DEF FirepowerStep, FmcNext
  <2>5. DirectoryStep \/ JumpServerStep \/ DuoStep \/ DirectStep \/ OpsStep \/ UNCHANGED vars
          => UNCHANGED fmcVars
    BY DEF DirectoryStep, JumpServerStep, DuoStep, DirectStep, OpsStep, vars
  <2> QED BY <2>1, <2>4, <2>5 DEF Next, fmcVars
<1> QED BY <1>1, <1>2, PTL DEF Spec

\* What a modify does to the flags while no other change came between.
LEMMA ModifyAsMeant ==
    ASSUME FlagsAsMeant, NEW d \in Disables, ModifyLands(d) PROVE FlagsAsMeant'
<1>1. uacOverlap' = (uacOverlap \/ uac # disableRead[d])
  BY DEF ModifyLands
<1>2. ~uacOverlap' => ~uacOverlap /\ uac = disableRead[d]
  BY <1>1, Zenon
<1>3. uac = uacMeant /\ uac = disableRead[d] => uac' = uacMeant'
  BY DEF ModifyLands, DisabledControl
<1> QED BY <1>2, <1>3 DEF FlagsAsMeant

\* The account's other flags stay as administrators set them, late modifies
\* included, unless a modify replaced a value that its call had not read.
THEOREM FlagsKeptAsMeant == Spec => []FlagsAsMeant
<1>1. Init => FlagsAsMeant
  BY DEF Init, AdInit, FlagsAsMeant
<1>2. FlagsAsMeant /\ [Next]_vars => FlagsAsMeant'
  <2> SUFFICES ASSUME FlagsAsMeant, [Next]_vars PROVE FlagsAsMeant'
    OBVIOUS
  <2>1. UNCHANGED <<uac, uacMeant, uacOverlap>> => FlagsAsMeant'
    BY DEF FlagsAsMeant
  <2>2. ASSUME NEW d \in Disables,
               \/ DisableStep(d)
               \/ DisableFails(d) \/ ModifyTimesOut(d) \/ LateModify(d)
        PROVE  FlagsAsMeant'
    BY <2>1, <2>2, ModifyAsMeant DEF DisableStep, Bind, FindUser, ModifyControl, ReadControl,
       DisableFails, ModifyTimesOut, LateModify
  <2>3. ASSUME NEW f \in Flags, ChangeFlag(f) PROVE FlagsAsMeant'
    BY <2>3 DEF ChangeFlag, FlagsAsMeant
  <2>4. DirectoryStep => FlagsAsMeant'
    BY <2>2, <2>3 DEF DirectoryStep, AdNext
  <2>5. FirepowerStep \/ JumpServerStep \/ DuoStep \/ DirectStep \/ OpsStep \/ UNCHANGED vars
          => UNCHANGED adVars
    BY DEF FirepowerStep, JumpServerStep, DuoStep, DirectStep, OpsStep, vars
  <2> QED BY <2>1, <2>4, <2>5 DEF Next, adVars
<1> QED BY <1>1, <1>2, PTL DEF Spec
-----------------------------------------------------------------------------
\* The refinement of ContainmentCall.

Effective == Blocked \cup Disabled \cup Terminated \cup Verified \cup recorded \cup Completed

\* A call's program counter is its own client's.
LEMMA PcOfClient ==
    /\ \A c \in Blocks : PcOf(c) = blockPc[c]
    /\ \A c \in Disables : PcOf(c) = disablePc[c]
    /\ \A c \in Kills : PcOf(c) = killPc[c]
    /\ \A c \in Verifies : PcOf(c) = verifyPc[c]
    /\ \A c \in Posts : PcOf(c) = postPc[c]
    /\ \A c \in OpsRuns : PcOf(c) = opsPc[c]
  BY CallsAssumption DEF PcOf

\* So it is after a step.
LEMMA PcOfClientNext ==
    /\ \A c \in Blocks : PcOf(c)' = blockPc'[c]
    /\ \A c \in Disables : PcOf(c)' = disablePc'[c]
    /\ \A c \in Kills : PcOf(c)' = killPc'[c]
    /\ \A c \in Verifies : PcOf(c)' = verifyPc'[c]
    /\ \A c \in Posts : PcOf(c)' = postPc'[c]
    /\ \A c \in OpsRuns : PcOf(c)' = opsPc'[c]
  BY CallsAssumption DEF PcOf

\* Calls only have effects of their own.
LEMMA EffectsOfCalls ==
    /\ TypeOK => Effective \subseteq Calls
    /\ TypeOK' => Effective' \subseteq Calls
  BY DEF TypeOK, PostTypeOK, Effective, Calls, Blocked, Disabled, Terminated, Verified, Completed

\* The effects depend on the vendors' state alone.
LEMMA EffectsKept ==
    UNCHANGED <<group, uac, finished, push, userActive, recorded, job>> => Effective' = Effective
  BY DEF Effective, Blocked, ContainsHostLiteral, Disabled, Terminated, Verified, Completed

\* What a step does to what the handler knows of call c, the only call it moves.
CallMoves(c) ==
    /\ \A d \in Calls \ {c} : PcOf(d)' = PcOf(d)
    /\ \/ Status(c) = "idle" /\ Status(c)' = "running" /\ Effective' = Effective
       \/ Status(c)' = Status(c)
       \/ /\ Status(c) = "running" /\ Status(c)' = "succeeded"
          /\ c \in Effective /\ Effective' = Effective
       \/ Status(c) \in {"idle", "running"} /\ Status(c)' = "failed"

Statuses == [c \in Calls |-> Status(c)]

\* Such a step is one of the abstract call's.
LEMMA MoveIsPromised ==
    ASSUME TypeOK', NEW c \in Calls, CallMoves(c) PROVE Promised!Next
<1>0. Effective' \subseteq Calls
  BY EffectsOfCalls
<1>1. \A d \in Calls \ {c} : Status(d)' = Status(d)
  BY DEF CallMoves, Status
<1>2. CASE Status(c) = "idle" /\ Status(c)' = "running" /\ Effective' = Effective
  <2>1. Statuses' = [Statuses EXCEPT ![c] = "running"] /\ Statuses[c] = "idle"
    BY <1>1, <1>2 DEF Statuses
  <2>2. Promised!Begin(c)
    BY <1>2, <2>1 DEF Promised!Begin, Promised!Report, Statuses, Effective
  <2> QED BY <2>2 DEF Promised!Next
<1>3. CASE Status(c)' = Status(c)
  <2>1. Statuses' = Statuses
    BY <1>1, <1>3 DEF Statuses
  <2>2. Promised!VendorChanges
    BY <1>0, <2>1 DEF Promised!VendorChanges, Statuses, Effective
  <2> QED BY <2>2 DEF Promised!Next
<1>4. CASE /\ Status(c) = "running" /\ Status(c)' = "succeeded"
           /\ c \in Effective /\ Effective' = Effective
  <2>1. Statuses' = [Statuses EXCEPT ![c] = "succeeded"] /\ Statuses[c] = "running"
    BY <1>1, <1>4 DEF Statuses
  <2>2. Promised!Confirm(c)
    BY <1>4, <2>1 DEF Promised!Confirm, Promised!Report, Statuses, Effective
  <2> QED BY <2>2 DEF Promised!Next
<1>5. CASE Status(c) \in {"idle", "running"} /\ Status(c)' = "failed"
  <2>1. Statuses' = [Statuses EXCEPT ![c] = "failed"] /\ Statuses[c] \in {"idle", "running"}
    BY <1>1, <1>5 DEF Statuses
  <2>2. Promised!Fail(c)
    BY <1>0, <2>1 DEF Promised!Fail, Promised!Report, Statuses, Effective
  <2> QED BY <2>2 DEF Promised!Next
<1> QED BY <1>2, <1>3, <1>4, <1>5 DEF CallMoves

\* A step that moves no call is the vendor's.
LEMMA VendorIsPromised ==
    ASSUME TypeOK', \A d \in Calls : PcOf(d)' = PcOf(d) PROVE Promised!Next
<1>1. Statuses' = Statuses
  BY DEF Statuses, Status
<1>2. Effective' \subseteq Calls
  BY EffectsOfCalls
<1>3. Promised!VendorChanges
  BY <1>1, <1>2 DEF Promised!VendorChanges, Statuses, Effective
<1> QED BY <1>3 DEF Promised!Next

\* The steps of each client: one that asks, reads or fails moves a call as the
\* abstract call moves, every other one is the vendor's.

\* add_blocklist_member succeeds on a read that shows the address.
LEMMA FirepowerPromised == ASSUME TypeOK, TypeOK', FirepowerStep PROVE Promised!Next
<1>0. FmcNext /\ UNCHANGED <<adVars, killVars, duoVars, postVars, opsVars>>
  BY DEF FirepowerStep
<1>1. \A d \in Calls \ Blocks : PcOf(d)' = PcOf(d)
  BY <1>0, PcOfClient, PcOfClientNext DEF Calls, adVars, killVars, duoVars, postVars, opsVars
<1>2. ASSUME NEW b \in Blocks, NEW where, BlockGoto(b, where)
      PROVE  /\ b \in Calls /\ PcOf(b) = blockPc[b] /\ PcOf(b)' = where
             /\ \A d \in Calls \ {b} : PcOf(d)' = PcOf(d)
  BY <1>1, <1>2, PcOfClient, PcOfClientNext DEF BlockGoto, Calls, TypeOK, FmcTypeOK
<1>3. UNCHANGED group => Effective' = Effective
  BY <1>0, EffectsKept DEF adVars, killVars, duoVars, postVars, opsVars
<1>4. ASSUME NEW b \in Blocks,
             PutGroup(b) \/ BlockFails(b) \/ PutTimesOut(b)
      PROVE  CallMoves(b)
  BY <1>2, <1>4 DEF PutGroup, BlockFails, PutTimesOut, CallMoves, Status
<1>5. ASSUME NEW b \in Blocks,
             Authenticate(b) \/ GetGroup(b) \/ ConfirmMember(b)
      PROVE  CallMoves(b)
  BY <1>2, <1>3, <1>5 DEF Authenticate, GetGroup, ConfirmMember, Blocked, Effective, CallMoves,
     Status
<1>6. UNCHANGED blockPc => \A d \in Calls : PcOf(d)' = PcOf(d)
  BY <1>1, PcOfClient, PcOfClientNext
<1> QED
  BY <1>0, <1>4, <1>5, <1>6, MoveIsPromised, VendorIsPromised DEF FmcNext, BlockStep, LatePut,
     EditGroup, Calls

\* disable_user succeeds on a read that shows the flag.
LEMMA DirectoryPromised == ASSUME TypeOK, TypeOK', DirectoryStep PROVE Promised!Next
<1>0. AdNext /\ UNCHANGED <<fmcVars, killVars, duoVars, postVars, opsVars>>
  BY DEF DirectoryStep
<1>1. \A c \in Calls \ Disables : PcOf(c)' = PcOf(c)
  BY <1>0, PcOfClient, PcOfClientNext DEF Calls, fmcVars, killVars, duoVars, postVars, opsVars
<1>2. ASSUME NEW d \in Disables, NEW where, DisableGoto(d, where)
      PROVE  /\ d \in Calls /\ PcOf(d) = disablePc[d] /\ PcOf(d)' = where
             /\ \A c \in Calls \ {d} : PcOf(c)' = PcOf(c)
  BY <1>1, <1>2, PcOfClient, PcOfClientNext DEF DisableGoto, Calls, TypeOK, AdTypeOK
<1>3. UNCHANGED uac => Effective' = Effective
  BY <1>0, EffectsKept DEF fmcVars, killVars, duoVars, postVars, opsVars
<1>4. ASSUME NEW d \in Disables,
             ModifyControl(d) \/ DisableFails(d) \/ ModifyTimesOut(d)
      PROVE  CallMoves(d)
  BY <1>2, <1>4 DEF ModifyControl, DisableFails, ModifyTimesOut, CallMoves, Status
<1>5. ASSUME NEW d \in Disables,
             Bind(d) \/ FindUser(d) \/ ReadControl(d)
      PROVE  CallMoves(d)
  BY <1>2, <1>3, <1>5 DEF Bind, FindUser, ReadControl, Disabled, Effective, CallMoves, Status
<1>6. UNCHANGED disablePc => \A c \in Calls : PcOf(c)' = PcOf(c)
  BY <1>1, PcOfClient, PcOfClientNext
<1> QED
  BY <1>0, <1>4, <1>5, <1>6, MoveIsPromised, VendorIsPromised DEF AdNext, DisableStep, LateModify,
     ChangeFlag, Calls

\* terminate_session succeeds on a read that shows the session finished.
LEMMA JumpServerPromised == ASSUME TypeOK, TypeOK', JumpServerStep PROVE Promised!Next
<1>0. KillNext /\ UNCHANGED <<fmcVars, adVars, duoVars, postVars, opsVars>>
  BY DEF JumpServerStep
<1>1. \A d \in Calls \ Kills : PcOf(d)' = PcOf(d)
  BY <1>0, PcOfClient, PcOfClientNext DEF Calls, fmcVars, adVars, duoVars, postVars, opsVars
<1>2. ASSUME NEW k \in Kills, NEW where, KillGoto(k, where)
      PROVE  /\ k \in Calls /\ PcOf(k) = killPc[k] /\ PcOf(k)' = where
             /\ \A d \in Calls \ {k} : PcOf(d)' = PcOf(d)
  BY <1>1, <1>2, PcOfClient, PcOfClientNext DEF KillGoto, Calls, TypeOK, KillTypeOK
<1>3. UNCHANGED finished => Effective' = Effective
  BY <1>0, EffectsKept DEF fmcVars, adVars, duoVars, postVars, opsVars
<1>4. ASSUME NEW k \in Kills,
             KillFails(k)
      PROVE  CallMoves(k)
  BY <1>2, <1>4 DEF KillFails, CallMoves, Status
<1>5. ASSUME NEW k \in Kills,
             PostKill(k) \/ ReadSession(k)
      PROVE  CallMoves(k)
  BY <1>2, <1>3, <1>5 DEF PostKill, ReadSession, Terminated, Effective, CallMoves, Status
<1>6. UNCHANGED killPc => \A d \in Calls : PcOf(d)' = PcOf(d)
  BY <1>1, PcOfClient, PcOfClientNext
<1> QED
  BY <1>0, <1>4, <1>5, <1>6, MoveIsPromised, VendorIsPromised DEF KillNext, KillStep, RunKillTask,
     CloseSession, Calls

\* require_verification succeeds while the user is active, after its push was approved.
LEMMA DuoPromised == ASSUME TypeOK, TypeOK', PushesAnswered, DuoStep PROVE Promised!Next
<1>0. DuoNext /\ UNCHANGED <<fmcVars, adVars, killVars, postVars, opsVars>>
  BY DEF DuoStep
<1>1. \A d \in Calls \ Verifies : PcOf(d)' = PcOf(d)
  BY <1>0, PcOfClient, PcOfClientNext DEF Calls, fmcVars, adVars, killVars, postVars, opsVars
<1>2. ASSUME NEW v \in Verifies, NEW where, VerifyGoto(v, where)
      PROVE  /\ v \in Calls /\ PcOf(v) = verifyPc[v] /\ PcOf(v)' = where
             /\ \A d \in Calls \ {v} : PcOf(d)' = PcOf(d)
  BY <1>1, <1>2, PcOfClient, PcOfClientNext DEF VerifyGoto, Calls, TypeOK, DuoTypeOK
<1>3. UNCHANGED <<push, userActive>> => Effective' = Effective
  BY <1>0, EffectsKept DEF fmcVars, adVars, killVars, postVars, opsVars
<1>4. ASSUME NEW v \in Verifies,
             SendPush(v) \/ ConfirmPush(v) \/ VerifyFails(v)
      PROVE  CallMoves(v)
  BY <1>2, <1>4 DEF SendPush, ConfirmPush, VerifyFails, CallMoves, Status
<1>5. ASSUME NEW v \in Verifies,
             LookupUser(v) \/ ConfirmUser(v)
      PROVE  CallMoves(v)
  BY <1>2, <1>3, <1>5 DEF LookupUser, ConfirmUser, Verified, PushesAnswered, Effective, CallMoves,
     Status
<1>6. UNCHANGED verifyPc => \A d \in Calls : PcOf(d)' = PcOf(d)
  BY <1>1, PcOfClient, PcOfClientNext
<1> QED
  BY <1>0, <1>4, <1>5, <1>6, MoveIsPromised, VendorIsPromised DEF DuoNext, VerifyStep, UserAnswers,
     ChangeUser, Calls

\* A direct request succeeds on an answer that only a made record gets.
LEMMA DirectPromised == ASSUME TypeOK, TypeOK', AnswersTruthful, DirectStep PROVE Promised!Next
<1>0. PostNext /\ UNCHANGED <<fmcVars, adVars, killVars, duoVars, opsVars>>
  BY DEF DirectStep
<1>1. \A d \in Calls \ Posts : PcOf(d)' = PcOf(d)
  BY <1>0, PcOfClient, PcOfClientNext DEF Calls, fmcVars, adVars, killVars, duoVars, opsVars
<1>2. ASSUME NEW p \in Posts, NEW where, PostGoto(p, where)
      PROVE  /\ p \in Calls /\ PcOf(p) = postPc[p] /\ PcOf(p)' = where
             /\ \A d \in Calls \ {p} : PcOf(d)' = PcOf(d)
  BY <1>1, <1>2, PcOfClient, PcOfClientNext DEF PostGoto, Calls, TypeOK, PostTypeOK
<1>3. UNCHANGED recorded => Effective' = Effective
  BY <1>0, EffectsKept DEF fmcVars, adVars, killVars, duoVars, opsVars
<1>4. ASSUME NEW p \in Posts,
             PostFails(p)
      PROVE  CallMoves(p)
  BY <1>2, <1>4 DEF PostFails, CallMoves, Status
<1>5. ASSUME NEW p \in Posts,
             SendPost(p) \/ IsolateNode(p) \/ CreateTicket(p) \/ SendNotification(p)
      PROVE  CallMoves(p)
  BY <1>2, <1>3, <1>5 DEF SendPost, IsolateNode, CreateTicket, SendNotification, AnswerArrives,
     Identified, TicketId, AnswersTruthful, Effective, CallMoves, Status
<1>6. UNCHANGED postPc => \A d \in Calls : PcOf(d)' = PcOf(d)
  BY <1>1, PcOfClient, PcOfClientNext
<1> QED
  BY <1>0, <1>4, <1>5, <1>6, MoveIsPromised, VendorIsPromised DEF PostNext, PostStep, VendorActs,
     Calls

\* run returns the log of a job that finished successfully.
LEMMA OpsPromised == ASSUME TypeOK, TypeOK', JobsAwaited, OpsStep PROVE Promised!Next
<1>0. OpsNext /\ UNCHANGED <<fmcVars, adVars, killVars, duoVars, postVars>>
  BY DEF OpsStep
<1>1. \A d \in Calls \ OpsRuns : PcOf(d)' = PcOf(d)
  BY <1>0, PcOfClient, PcOfClientNext DEF Calls, fmcVars, adVars, killVars, duoVars, postVars
<1>2. ASSUME NEW o \in OpsRuns, NEW where, OpsGoto(o, where)
      PROVE  /\ o \in Calls /\ PcOf(o) = opsPc[o] /\ PcOf(o)' = where
             /\ \A d \in Calls \ {o} : PcOf(d)' = PcOf(d)
  BY <1>1, <1>2, PcOfClient, PcOfClientNext DEF OpsGoto, Calls, TypeOK, OpsTypeOK
<1>3. UNCHANGED job => Effective' = Effective
  BY <1>0, EffectsKept DEF fmcVars, adVars, killVars, duoVars, postVars
<1>4. ASSUME NEW o \in OpsRuns,
             PostJob(o) \/ ReadFinished(o) \/ ReadRunning(o) \/ OpsFails(o)
      PROVE  CallMoves(o)
  BY <1>2, <1>4 DEF PostJob, ReadFinished, ReadRunning, OpsFails, CallMoves, Status
<1>5. ASSUME NEW o \in OpsRuns,
             ResolveAsset(o) \/ ReadLog(o)
      PROVE  CallMoves(o)
  BY <1>2, <1>3, <1>5 DEF ResolveAsset, ReadLog, Completed, JobsAwaited, Effective, CallMoves,
     Status
<1>6. UNCHANGED opsPc => \A d \in Calls : PcOf(d)' = PcOf(d)
  BY <1>1, PcOfClient, PcOfClientNext
<1> QED
  BY <1>0, <1>4, <1>5, <1>6, MoveIsPromised, VendorIsPromised DEF OpsNext, RunStep, JobEnds, Calls

\* Whatever other calls, administrators, late requests and lost answers do, the
\* clients implement the safety part of ContainmentCall: success is reported only
\* in a state with the effect.
THEOREM ClientsSafelyPromised == Spec => SafelyPromised
<1>1. Init => Promised!Init
  <2> SUFFICES ASSUME Init PROVE Promised!Init
    OBVIOUS
  <2>1. \A c \in Calls : PcOf(c) = "idle"
    BY PcOfClient DEF Init, FmcInit, AdInit, KillInit, DuoInit, PostInit, OpsInit, Calls
  <2>2. Effective \subseteq Calls
    BY ClientsInit, EffectsOfCalls DEF ClientsInv
  <2> QED BY <2>1, <2>2 DEF Promised!Init, Status, Effective
<1>2. ClientsInv /\ ClientsInv' /\ [Next]_vars => [Promised!Next]_(Promised!vars)
  <2> SUFFICES ASSUME ClientsInv, ClientsInv', [Next]_vars
               PROVE  [Promised!Next]_(Promised!vars)
    OBVIOUS
  <2>1. CASE Next
    BY <2>1, FirepowerPromised, DirectoryPromised, JumpServerPromised, DuoPromised,
       DirectPromised, OpsPromised DEF Next, ClientsInv
  <2>2. CASE UNCHANGED vars
    <3>1. \A c \in Calls : PcOf(c)' = PcOf(c)
      BY <2>2, PcOfClient, PcOfClientNext DEF vars, fmcVars, adVars, killVars, duoVars, postVars,
         opsVars, Calls
    <3> QED BY <3>1, VendorIsPromised DEF ClientsInv
  <2> QED BY <2>1, <2>2
<1> QED BY <1>1, <1>2, ClientsInit, ClientsStep, PTL DEF Spec, SafelyPromised, Promised!Promise
=============================================================================
