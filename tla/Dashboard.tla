------------------------------ MODULE Dashboard ------------------------------
(***************************************************************************)
(* The dashboard of one user over the realtime channel.  The queue and the *)
(* detail pane are separate pieces of App.tsx's state that do not read     *)
(* each other: selecting an incident hides the queue, and leaving it shows *)
(* the same queue again.  A behaviour is about one of them.                *)
(***************************************************************************)
EXTENDS IncidentQueue, DetailPane

VARIABLE screen

Screens == {"queue", "detail"}

vars == <<screen, channel, queue, pane>>

TypeOK ==
    /\ screen \in Screens
    /\ ChannelOK(IF screen = "queue" THEN Incidents ELSE RecordMessages \cup AnalysisMessages)
    /\ QueueTypeOK
    /\ PaneTypeOK

Init ==
    /\ screen \in Screens
    /\ ChannelInit
    /\ QueueInit
    /\ PaneInit

AtQueue == screen = "queue" /\ QueueNext /\ UNCHANGED <<screen, pane>>

AtDetail == screen = "detail" /\ PaneNext /\ UNCHANGED <<screen, queue>>

Next == AtQueue \/ AtDetail

Spec == Init /\ [][Next]_vars

\* Broadcasts that have begun go on, unless they fail, and connectRealtime retries.
FairSpec == Spec /\ WF_vars(AtQueue /\ QueueChannel)
-----------------------------------------------------------------------------
\* An incident whose broadcast to an open connection has begun gets into the queue, or
\* its message is lost with the connection or with the broadcast, or the filters
\* exclude it.
AnnouncedIsShown ==
    \A i \in Incidents :
        (screen = "queue" /\ \E o \in outbox : o.body = i /\ Reaches(o))
            ~> (i \in list \/ i \in gaps \/ i \notin Matching[filter])
=============================================================================
