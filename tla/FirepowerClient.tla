--------------------------- MODULE FirepowerClient ---------------------------
(***************************************************************************)
(* FirepowerClient.add_blocklist_member, app/integrations/firepower.py.    *)
(*                                                                         *)
(* FMC has no operation that adds one member to a Network Group: the       *)
(* client reads the whole group, appends a Host literal and PUTs the whole *)
(* group back, then reads it again.  Each call has a client of its own;    *)
(* calls of several approvals, and administrators, work on the one group.  *)
(***************************************************************************)
EXTENDS Integers

CONSTANTS
    Blocks,        \* calls of add_blocklist_member
    BlockIp,       \* BlockIp[b]: canonical target_ip of call b
    InitialGroup,  \* object references and literals of the group at first
    AdminMembers,  \* members that administrators add and remove
    MaxGroupEdits  \* bound on their edits

Host(ip) == [type |-> "Host", value |-> ip]

Members == InitialGroup \cup AdminMembers \cup {Host(BlockIp[b]) : b \in Blocks}

ASSUME GroupBoundAssumption == MaxGroupEdits \in Nat

VARIABLES
    group,        \* the stored members of the blocklist Network Group
    groupMeant,   \* history: the members if every change had been one of a single member
    blockPc,      \* where each call is
    blockRead,    \* the members that each call has read
    blockLate,    \* calls that gave up on a PUT which may still arrive
    groupEdits,   \* edits by administrators so far
    groupOverlap  \* history: a PUT replaced a group other than the one its call had read

fmcVars == <<group, groupMeant, blockPc, blockRead, blockLate, groupEdits, groupOverlap>>

FmcTypeOK ==
    /\ group \subseteq Members
    /\ groupMeant \subseteq Members
    /\ blockPc \in [Blocks -> {"idle", "read", "put", "confirm", "succeeded", "failed"}]
    /\ blockRead \in [Blocks -> SUBSET Members]
    /\ blockLate \subseteq Blocks
    /\ groupEdits \in 0..MaxGroupEdits
    /\ groupOverlap \in BOOLEAN

FmcInit ==
    /\ group = InitialGroup
    /\ groupMeant = InitialGroup
    /\ blockPc = [b \in Blocks |-> "idle"]
    /\ blockRead = [b \in Blocks |-> {}]
    /\ blockLate = {}
    /\ groupEdits = 0
    /\ groupOverlap = FALSE
-----------------------------------------------------------------------------
BlockGoto(b, where) == blockPc' = [blockPc EXCEPT ![b] = where]

\* A token and a domain for this call: _authenticate.
Authenticate(b) ==
    /\ blockPc[b] = "idle"
    /\ BlockGoto(b, "read")
    /\ UNCHANGED <<group, groupMeant, blockRead, blockLate, groupEdits, groupOverlap>>

\* _contains_host_literal: a Host literal, not a network or an object, of this address.
ContainsHostLiteral(members, ip) == Host(ip) \in members

\* The first _get_group; an exact Host literal is a success without a PUT.
GetGroup(b) ==
    /\ blockPc[b] = "read"
    /\ blockRead' = [blockRead EXCEPT ![b] = group]
    /\ BlockGoto(b, IF ContainsHostLiteral(group, BlockIp[b]) THEN "succeeded" ELSE "put")
    /\ UNCHANGED <<group, groupMeant, blockLate, groupEdits, groupOverlap>>

\* Mutant of NetworkGroupUpdate: object references and networks are not sent back.
LiteralsOnly(members, ip) ==
    {m \in members : m.type = "Host"} \cup {Host(ip)}

\* _network_group_update: everything that was read, and one Host literal more.
NetworkGroupUpdate(members, ip) == members \cup {Host(ip)}

\* FMC stores the body of b's PUT in place of the group.
PutLands(b) ==
    /\ group' = NetworkGroupUpdate(blockRead[b], BlockIp[b])
    /\ groupMeant' = groupMeant \cup {Host(BlockIp[b])}
    /\ groupOverlap' = (groupOverlap \/ group # blockRead[b])

PutGroup(b) ==
    /\ blockPc[b] = "put"
    /\ PutLands(b)
    /\ BlockGoto(b, "confirm")
    /\ UNCHANGED <<blockRead, blockLate, groupEdits>>

\* Mutant of ConfirmMember: the accepted PUT is taken for the confirmation.
TrustPut(b) ==
    /\ blockPc[b] = "confirm"
    /\ BlockGoto(b, "succeeded")
    /\ UNCHANGED <<group, groupMeant, blockRead, blockLate, groupEdits, groupOverlap>>

\* The confirmation read: success only if the stored group shows the address.
ConfirmMember(b) ==
    /\ blockPc[b] = "confirm"
    /\ BlockGoto(b, IF ContainsHostLiteral(group, BlockIp[b]) THEN "succeeded" ELSE "failed")
    /\ UNCHANGED <<group, groupMeant, blockRead, blockLate, groupEdits, groupOverlap>>

\* FirepowerError: a request that fails without effect, an error status, a
\* group that is missing or malformed.
BlockFails(b) ==
    /\ blockPc[b] \in {"idle", "read", "put", "confirm"}
    /\ BlockGoto(b, "failed")
    /\ UNCHANGED <<group, groupMeant, blockRead, blockLate, groupEdits, groupOverlap>>

\* "FMC request timed out" on the PUT, which is still on its way.
PutTimesOut(b) ==
    /\ blockPc[b] = "put"
    /\ blockLate' = blockLate \cup {b}
    /\ BlockGoto(b, "failed")
    /\ UNCHANGED <<group, groupMeant, blockRead, groupEdits, groupOverlap>>

\* It arrives after all.
LatePut(b) ==
    /\ b \in blockLate
    /\ blockLate' = blockLate \ {b}
    /\ PutLands(b)
    /\ UNCHANGED <<blockPc, blockRead, groupEdits>>

\* An administrator adds or removes one member in the FMC.
EditGroup(m) ==
    /\ groupEdits < MaxGroupEdits
    /\ groupEdits' = groupEdits + 1
    /\ \/ /\ m \notin group
          /\ group' = group \cup {m}
          /\ groupMeant' = groupMeant \cup {m}
       \/ /\ m \in group
          /\ group' = group \ {m}
          /\ groupMeant' = groupMeant \ {m}
    /\ UNCHANGED <<blockPc, blockRead, blockLate, groupOverlap>>

BlockStep(b) == Authenticate(b) \/ GetGroup(b) \/ PutGroup(b) \/ ConfirmMember(b)

FmcNext ==
    \/ \E b \in Blocks : BlockStep(b) \/ BlockFails(b) \/ PutTimesOut(b) \/ LatePut(b)
    \/ \E m \in AdminMembers : EditGroup(m)

Blocked == {b \in Blocks : ContainsHostLiteral(group, BlockIp[b])}
-----------------------------------------------------------------------------
\* ADR 0013: "The client preserves existing object references, literals".  The
\* group holds the first members, the blocked addresses and the administrators'
\* edits, and nothing else, late requests included, as long as no PUT has met a
\* group other than the one its call had read.
GroupAsMeant == ~groupOverlap => group = groupMeant
=============================================================================
