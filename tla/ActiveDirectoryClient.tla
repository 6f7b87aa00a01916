------------------------ MODULE ActiveDirectoryClient ------------------------
(***************************************************************************)
(* ActiveDirectoryClient.disable_user, app/integrations/active_directory.py *)
(* over LDAP.                                                              *)
(*                                                                         *)
(* userAccountControl is a word of flags.  The call reads it, sets the     *)
(* ACCOUNTDISABLE bit and replaces the whole word by MODIFY_REPLACE, then  *)
(* reads it again.  The word is modelled as the set of its flags that are  *)
(* set; "|" and "&" of the code are union and membership.                  *)
(***************************************************************************)
EXTENDS Integers

CONSTANTS
    Disables,       \* calls of disable_user for one account
    OtherFlags,     \* flags other than ACCOUNTDISABLE
    FirstControl,   \* the flags that are set at first
    MaxFlagChanges  \* bound on changes by administrators

Flags == OtherFlags \cup {"ACCOUNTDISABLE"}

ASSUME FlagsAssumption == FirstControl \subseteq Flags /\ MaxFlagChanges \in Nat

VARIABLES
    uac,           \* the account's stored userAccountControl
    uacMeant,      \* history: its value if every change had been one of a single flag
    disablePc,     \* where each call is
    disableRead,   \* current_control of each call
    disableLate,   \* calls that gave up on a modify which may still arrive
    flagChanges,   \* changes by administrators so far
    uacOverlap     \* history: a modify replaced a value other than the one its call had read

adVars == <<uac, uacMeant, disablePc, disableRead, disableLate, flagChanges, uacOverlap>>

AdTypeOK ==
    /\ uac \subseteq Flags
    /\ uacMeant \subseteq Flags
    /\ disablePc \in [Disables -> {"idle", "find", "modify", "confirm", "succeeded", "failed"}]
    /\ disableRead \in [Disables -> SUBSET Flags]
    /\ disableLate \subseteq Disables
    /\ flagChanges \in 0..MaxFlagChanges
    /\ uacOverlap \in BOOLEAN

AdInit ==
    /\ uac = FirstControl
    /\ uacMeant = FirstControl
    /\ disablePc = [d \in Disables |-> "idle"]
    /\ disableRead = [d \in Disables |-> {}]
    /\ disableLate = {}
    /\ flagChanges = 0
    /\ uacOverlap = FALSE
-----------------------------------------------------------------------------
DisableGoto(d, where) == disablePc' = [disablePc EXCEPT ![d] = where]

Bind(d) ==
    /\ disablePc[d] = "idle"
    /\ DisableGoto(d, "find")
    /\ UNCHANGED <<uac, uacMeant, disableRead, disableLate, flagChanges, uacOverlap>>

\* _find_user; an account that is disabled already is a success.
FindUser(d) ==
    /\ disablePc[d] = "find"
    /\ disableRead' = [disableRead EXCEPT ![d] = uac]
    /\ DisableGoto(d, IF "ACCOUNTDISABLE" \in uac THEN "succeeded" ELSE "modify")
    /\ UNCHANGED <<uac, uacMeant, disableLate, flagChanges, uacOverlap>>

\* Mutant of DisabledControl: a constant word in place of the one that was read.
NormalDisabled(control) == {"ACCOUNTDISABLE"}

\* current_control | AD_ACCOUNTDISABLE
DisabledControl(control) == control \cup {"ACCOUNTDISABLE"}

\* The directory replaces the word by the one d sent.
ModifyLands(d) ==
    /\ uac' = DisabledControl(disableRead[d])
    /\ uacMeant' = uacMeant \cup {"ACCOUNTDISABLE"}
    /\ uacOverlap' = (uacOverlap \/ uac # disableRead[d])

ModifyControl(d) ==
    /\ disablePc[d] = "modify"
    /\ ModifyLands(d)
    /\ DisableGoto(d, "confirm")
    /\ UNCHANGED <<disableRead, disableLate, flagChanges>>

\* _read_user_account_control
ReadControl(d) ==
    /\ disablePc[d] = "confirm"
    /\ DisableGoto(d, IF "ACCOUNTDISABLE" \in uac THEN "succeeded" ELSE "failed")
    /\ UNCHANGED <<uac, uacMeant, disableRead, disableLate, flagChanges, uacOverlap>>

\* ActiveDirectoryError without effect: bind refused, user not found or
\* ambiguous, modify refused, invalid answer, lost connection.
DisableFails(d) ==
    /\ disablePc[d] \in {"idle", "find", "modify", "confirm"}
    /\ DisableGoto(d, "failed")
    /\ UNCHANGED <<uac, uacMeant, disableRead, disableLate, flagChanges, uacOverlap>>

\* The modify is not answered within receive_timeout.
ModifyTimesOut(d) ==
    /\ disablePc[d] = "modify"
    /\ disableLate' = disableLate \cup {d}
    /\ DisableGoto(d, "failed")
    /\ UNCHANGED <<uac, uacMeant, disableRead, flagChanges, uacOverlap>>

LateModify(d) ==
    /\ d \in disableLate
    /\ disableLate' = disableLate \ {d}
    /\ ModifyLands(d)
    /\ UNCHANGED <<disablePc, disableRead, flagChanges>>

\* An administrator sets or clears one flag; clearing ACCOUNTDISABLE enables the
\* account again.
ChangeFlag(f) ==
    /\ flagChanges < MaxFlagChanges
    /\ flagChanges' = flagChanges + 1
    /\ \/ /\ f \notin uac
          /\ uac' = uac \cup {f}
          /\ uacMeant' = uacMeant \cup {f}
       \/ /\ f \in uac
          /\ uac' = uac \ {f}
          /\ uacMeant' = uacMeant \ {f}
    /\ UNCHANGED <<disablePc, disableRead, disableLate, uacOverlap>>

DisableStep(d) == Bind(d) \/ FindUser(d) \/ ModifyControl(d) \/ ReadControl(d)

AdNext ==
    \/ \E d \in Disables :
         DisableStep(d) \/ DisableFails(d) \/ ModifyTimesOut(d) \/ LateModify(d)
    \/ \E f \in Flags : ChangeFlag(f)

Disabled == {d \in Disables : "ACCOUNTDISABLE" \in uac}
-----------------------------------------------------------------------------
\* Disabling leaves the account's other flags as administrators set them, as
\* long as no modify has met a value other than the one its call had read.
FlagsAsMeant == ~uacOverlap => uac = uacMeant
=============================================================================
