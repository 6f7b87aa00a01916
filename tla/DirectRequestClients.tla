------------------------ MODULE DirectRequestClients ------------------------
(***************************************************************************)
(* The clients that make one request and report what it answers:           *)
(*   - PacketFenceClient.isolate_node, app/integrations/packetfence.py;    *)
(*   - TicketingClient.create_ticket, app/integrations/ticketing.py;       *)
(*   - WebhookClient.send_notification, app/integrations/webhook.py.       *)
(* The first two need the identifier of the record in the answer, the last *)
(* one only a success status.                                              *)
(***************************************************************************)
CONSTANTS
    Posts,     \* calls
    PostKind   \* PostKind[p]: "isolate", "ticket" or "notify"

VARIABLES
    postPc,    \* where each call is
    answer,    \* what the vendor answered: nothing yet, an error, success with or without an id
    recorded   \* calls whose record the vendor has made

postVars == <<postPc, answer, recorded>>

Answers == {"none", "error", "without_id", "with_id"}

PostTypeOK ==
    /\ postPc \in [Posts -> {"idle", "sent", "succeeded", "failed"}]
    /\ answer \in [Posts -> Answers]
    /\ recorded \subseteq Posts

PostInit ==
    /\ postPc = [p \in Posts |-> "idle"]
    /\ answer = [p \in Posts |-> "none"]
    /\ recorded = {}
-----------------------------------------------------------------------------
PostGoto(p, where) == postPc' = [postPc EXCEPT ![p] = where]

\* The PUT or POST leaves.
SendPost(p) ==
    /\ postPc[p] = "idle"
    /\ PostGoto(p, "sent")
    /\ UNCHANGED <<answer, recorded>>

\* The vendor acts on the request, at any time, and answers; PacketFence names
\* the security event and a ticket system the ticket, when they made one.  An
\* answer that names none, and an error status after the record was made, happen.
VendorActs(p) ==
    /\ postPc[p] \in {"sent", "failed"}
    /\ answer[p] = "none"
    /\ \/ /\ recorded' = recorded \cup {p}
          /\ \E a \in {"error", "without_id", "with_id"} : answer' = [answer EXCEPT ![p] = a]
       \/ /\ \E a \in IF PostKind[p] = "notify" THEN {"error"} ELSE {"error", "without_id"} :
               answer' = [answer EXCEPT ![p] = a]
          /\ UNCHANGED recorded
    /\ UNCHANGED postPc

\* Mutant of Identified: any success status counts.
AnySuccess(p) == answer[p] \in {"without_id", "with_id"}

\* _security_event_record_id
Identified(p) == answer[p] = "with_id"

\* _ticket_id
TicketId(p) == answer[p] = "with_id"

AnswerArrives(p, confirmed) ==
    /\ postPc[p] = "sent"
    /\ answer[p] # "none"
    /\ PostGoto(p, IF confirmed THEN "succeeded" ELSE "failed")
    /\ UNCHANGED <<answer, recorded>>

IsolateNode(p) == PostKind[p] = "isolate" /\ AnswerArrives(p, Identified(p))

CreateTicket(p) == PostKind[p] = "ticket" /\ AnswerArrives(p, TicketId(p))

SendNotification(p) ==
    PostKind[p] = "notify" /\ AnswerArrives(p, answer[p] \in {"without_id", "with_id"})

\* TimeoutException, RequestError or InvalidURL.
PostFails(p) ==
    /\ postPc[p] \in {"idle", "sent"}
    /\ PostGoto(p, "failed")
    /\ answer' = IF postPc[p] = "idle" THEN [answer EXCEPT ![p] = "error"] ELSE answer
    /\ UNCHANGED recorded

PostStep(p) ==
    SendPost(p) \/ IsolateNode(p) \/ CreateTicket(p) \/ SendNotification(p) \/ PostFails(p)

PostNext == \E p \in Posts : PostStep(p) \/ VendorActs(p)
=============================================================================
