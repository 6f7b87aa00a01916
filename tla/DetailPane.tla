----------------------------- MODULE DetailPane -----------------------------
(***************************************************************************)
(* The dashboard's detail pane: selectIncident, analyze, submitAction,     *)
(* approveAction, rejectAction and onBack of App.tsx, with what            *)
(* incident-detail.tsx, analysis-panel.tsx and action-section.tsx offer    *)
(* the user.                                                               *)
(*                                                                         *)
(* The pane shows an incident, its analysis and the latest snapshots of    *)
(* its response records.  They come from two requests made on selection,   *)
(* from the answers to what the user does, and from messages; each of      *)
(* these can be older than what is shown.  A record is known by the number *)
(* of its latest snapshot, the row that a route of the API appended last.  *)
(* Only the last row of a route is broadcast: not the one that approves an *)
(* action that is then executed.  Which rows may follow which is the       *)
(* subject of ResponseEngine; here they come in any order.                 *)
(***************************************************************************)
EXTENDS RealtimeChannel

CONSTANTS
    Subjects,     \* incidents that the user opens
    Records,      \* response records
    RecordOf,     \* RecordOf[r]: incident_id of record r
    MaxSnapshots, \* bound on the rows of a record
    MaxOpened,    \* bound on the incidents opened
    MaxAnalyses,  \* bound on the analyses asked for
    NoIncident    \* null

ASSUME PaneAssumption ==
    /\ RecordOf \in [Records -> Subjects]
    /\ MaxSnapshots \in Nat
    /\ MaxOpened \in Nat
    /\ MaxAnalyses \in Nat
    /\ NoIncident \notin Subjects

VARIABLES
    snapshot,    \* number of each record's latest stored snapshot
    executing,   \* routes that have stored an approval and run its handler
    analysed,    \* incidents with a stored analysis
    selectedId, detailLoading,
    detail,      \* the incident of the detail state
    analysisOf,  \* the incident that the analysis in the detail state is about
    shown,       \* actionRecords: the snapshot of each record, 0 without one
    opening,     \* the requests of selectIncident
    analyzing,   \* the incident whose analyzeIncident is under way (analysisLoading)
    generating,  \* analyze_incident calls at the server, by number
    analysisDone,\* the server has answered the one that the user waits for
    answers,     \* answers to the user's own requests and decisions
    sent,        \* history: the newest snapshot of each record sent over a connection
    excused,     \* history: records with a row that was not broadcast, a message lost or
                 \* overtaken, or an answer overtaken
    left,        \* history: the user left an incident while it was being analysed
    opened,      \* incidents opened so far
    analyses     \* analyses asked for so far

stores == <<snapshot, executing, analysed>>
view == <<selectedId, detailLoading, detail>>
analysing == <<analyzing, generating, analysisDone>>
history == <<sent, excused, left>>
bounds == <<opened, analyses>>

pane == <<stores, view, analysisOf, shown, opening, analysing, answers, history, bounds>>

Snapshots == 0..MaxSnapshots
OrNone == Subjects \cup {NoIncident}

RecordMessages == [kind: {"action"}, rec: Records, n: Snapshots, own: BOOLEAN]
Generation == [inc: Subjects, n: 0..MaxAnalyses]
AnalysisMessages == [kind: {"analysis"}, of: Generation]

\* n: the row that approves the action; own: it is this user's request or decision.
Execution == [rec: Records, n: Snapshots, own: BOOLEAN]

PaneTypeOK ==
    /\ snapshot \in [Records -> Snapshots]
    /\ executing \subseteq Execution
    /\ analysed \subseteq Subjects
    /\ selectedId \in OrNone
    /\ detailLoading \in BOOLEAN
    /\ detail \in OrNone
    /\ analysisOf \in OrNone
    /\ shown \in [Records -> Snapshots]
    /\ opening \subseteq [inc: Subjects, read: BOOLEAN, analysed: BOOLEAN,
                          records: [Records -> Snapshots]]
    /\ analyzing \in OrNone
    /\ generating \subseteq Generation
    /\ analysisDone \in BOOLEAN
    /\ answers \subseteq [rec: Records, n: Snapshots]
    /\ sent \in [Records -> Snapshots]
    /\ excused \subseteq Records
    /\ left \in BOOLEAN
    /\ opened \in 0..MaxOpened
    /\ analyses \in 0..MaxAnalyses

Unseen == [r \in Records |-> 0]

PaneInit ==
    /\ snapshot = Unseen
    /\ executing = {}
    /\ analysed = {}
    /\ selectedId = NoIncident
    /\ detailLoading = FALSE
    /\ detail = NoIncident
    /\ analysisOf = NoIncident
    /\ shown = Unseen
    /\ opening = {}
    /\ analyzing = NoIncident
    /\ generating = {}
    /\ analysisDone = FALSE
    /\ answers = {}
    /\ sent = Unseen
    /\ excused = {}
    /\ left = FALSE
    /\ opened = 0
    /\ analyses = 0

\* What IncidentDetailView shows besides its spinner.
PaneShown == selectedId # NoIncident /\ ~detailLoading /\ detail # NoIncident
-----------------------------------------------------------------------------
\* The queue is on screen only while nothing is selected.
SelectIncident(i) ==
    /\ selectedId = NoIncident
    /\ opened < MaxOpened
    /\ opened' = opened + 1
    /\ selectedId' = i
    /\ shown' = Unseen
    /\ detailLoading' = TRUE
    /\ opening' = opening \cup {[inc |-> i, read |-> FALSE, analysed |-> FALSE,
                                   records |-> Unseen]}
    /\ UNCHANGED <<channel, stores, detail, analysisOf, analysing, answers, history,
                   analyses>>

\* The server answers getIncident and listIncidentActions.
ReadDetail(q) ==
    /\ q \in opening
    /\ ~q.read
    /\ opening' = (opening \ {q})
           \cup {[q EXCEPT !.read = TRUE, !.analysed = q.inc \in analysed,
                           !.records = [r \in Records |->
                                          IF RecordOf[r] = q.inc THEN snapshot[r] ELSE 0]]}
    /\ UNCHANGED <<channel, stores, view, analysisOf, shown, analysing, answers, history,
                   bounds>>

\* Mutant of MergeFetched: what was fetched replaces what messages brought.
FetchedWins(live, fetched) ==
    [r \in Records |-> IF fetched[r] = 0 THEN live[r] ELSE fetched[r]]

\* mergeFetchedActionRecords: a record that a message brought is kept.
MergeFetched(live, fetched) ==
    [r \in Records |-> IF live[r] = 0 THEN fetched[r] ELSE live[r]]

DetailArrives(q) ==
    /\ q \in opening
    /\ q.read
    /\ opening' = opening \ {q}
    /\ detail' = q.inc
    /\ analysisOf' = IF q.analysed THEN q.inc ELSE NoIncident
    /\ shown' = MergeFetched(shown, q.records)
    /\ detailLoading' = FALSE
    /\ UNCHANGED <<channel, stores, selectedId, analysing, answers, history, bounds>>

\* pageError; without a detail the spinner stays, and it has no way back.
DetailFails(q) ==
    /\ q \in opening
    /\ opening' = opening \ {q}
    /\ detailLoading' = FALSE
    /\ UNCHANGED <<channel, stores, selectedId, detail, analysisOf, shown, analysing,
                   answers, history, bounds>>

Leave ==
    /\ selectedId' = NoIncident
    /\ detail' = NoIncident
    /\ analysisOf' = NoIncident
    /\ left' = (left \/ analyzing # NoIncident)
    /\ UNCHANGED <<channel, stores, detailLoading, shown, opening, analysing, answers,
                   sent, excused, bounds>>

\* Mutant of Back: the button is shown with the spinner too.
BackAnytime == selectedId # NoIncident /\ Leave

\* onBack; the button is part of the loaded pane.
Back == PaneShown /\ Leave

\* The button is there without an analysis, and disabled while one is under way
\* for any incident.
Analyze ==
    /\ PaneShown
    /\ analysisOf = NoIncident
    /\ analyzing = NoIncident
    /\ analyses < MaxAnalyses
    /\ analyses' = analyses + 1
    /\ analyzing' = selectedId
    /\ generating' = generating \cup {[inc |-> selectedId, n |-> analyses + 1]}
    /\ UNCHANGED <<channel, stores, view, analysisOf, shown, opening, analysisDone,
                   answers, history, opened>>

\* The route stores the analysis, whether or not the user still waits, and is about
\* to broadcast it.
CompleteAnalysis(g) ==
    /\ g \in generating
    /\ generating' = generating \ {g}
    /\ analysed' = analysed \cup {g.inc}
    /\ ToBroadcast([kind |-> "analysis", of |-> g])
    /\ UNCHANGED <<socket, sockets, wire, snapshot, executing, view, analysisOf, shown, opening,
                   analyzing, analysisDone, answers, history, bounds>>

\* .then of analyze: into the detail that is there now, whichever it is.
AnalysisArrives ==
    /\ analysisDone
    /\ analysisOf' = IF detail # NoIncident THEN analyzing ELSE analysisOf
    /\ analyzing' = NoIncident
    /\ analysisDone' = FALSE
    /\ UNCHANGED <<channel, stores, view, shown, opening, generating, answers, history,
                   bounds>>

\* analysisError: an error status, with the route at its end, or a lost connection.
AnalysisFails ==
    /\ analyzing # NoIncident
    /\ analyzing' = NoIncident
    /\ analysisDone' = FALSE
    /\ generating' \in {generating, {g \in generating : g.n # analyses}}
    /\ UNCHANGED <<channel, stores, view, analysisOf, shown, opening, answers, history,
                   bounds>>

\* Mutant of ReceiveAnalysis: the incident of the message is not compared.
AnyAnalysisApplied ==
    /\ wire # << >>
    /\ Head(wire).kind = "analysis"
    /\ Received
    /\ analysisOf' = IF detail # NoIncident THEN Head(wire).of.inc ELSE analysisOf
    /\ UNCHANGED <<stores, view, shown, opening, analysing, answers, history, bounds>>

\* applyAnalysisMessage
ReceiveAnalysis ==
    /\ wire # << >>
    /\ Head(wire).kind = "analysis"
    /\ Received
    /\ analysisOf' = IF detail = Head(wire).of.inc THEN detail ELSE analysisOf
    /\ UNCHANGED <<stores, view, shown, opening, analysing, answers, history, bounds>>
-----------------------------------------------------------------------------
\* This user acts on the incident on screen (submitAction, approveAction, rejectAction);
\* somebody else may act at any time.
MayAct(r, own) == own => PaneShown /\ selectedId = RecordOf[r]

AppendRow(r) ==
    /\ snapshot[r] < MaxSnapshots
    /\ snapshot' = [snapshot EXCEPT ![r] = @ + 1]

\* What _broadcast_action is to announce once row snapshot[r] + 1 is appended.
AnnounceRow(r, own) ==
    ToBroadcast([kind |-> "action", rec |-> r, n |-> snapshot[r] + 1, own |-> own])

\* A request that waits for approval, or a rejection: the route's only row.
Commit(r, own) ==
    /\ MayAct(r, own)
    /\ AppendRow(r)
    /\ AnnounceRow(r, own)
    /\ UNCHANGED <<socket, sockets, wire, executing, analysed, view, analysisOf, shown, opening,
                   analysing, answers, history, bounds>>

\* An approval, or a request that needs none: the row is stored and the handler called
\* before anything is announced.
CommitApproval(r, own) ==
    /\ MayAct(r, own)
    /\ AppendRow(r)
    /\ executing' = executing \cup {[rec |-> r, n |-> snapshot[r] + 1, own |-> own]}
    /\ UNCHANGED <<channel, analysed, view, analysisOf, shown, opening, analysing, answers,
                   history, bounds>>

\* _execute appends the outcome, which the route announces.
CommitExecution(x) ==
    /\ x \in executing
    /\ AppendRow(x.rec)
    /\ AnnounceRow(x.rec, x.own)
    /\ executing' = executing \ {x}
    /\ UNCHANGED <<socket, sockets, wire, analysed, view, analysisOf, shown, opening, analysing,
                   answers, history, bounds>>

\* The handler raises what _execute does not catch, the store fails or the process
\* dies: the approval stays the record's last row and nobody is told.
ExecutionEnds(x) ==
    /\ x \in executing
    /\ executing' = executing \ {x}
    /\ excused' = excused \cup {x.rec}
    /\ UNCHANGED <<channel, snapshot, analysed, view, analysisOf, shown, opening, analysing,
                   answers, sent, left, bounds>>

\* The route answers when its broadcast is done.  A message that does not reach the
\* dashboard, or that a newer one of the record has overtaken, excuses the record.
SendRecord(o) ==
    /\ o.body.kind = "action"
    /\ SendText(o)
    /\ LET r == o.body.rec
           n == o.body.n
       IN /\ answers' = IF o.body.own THEN answers \cup {[rec |-> r, n |-> n]} ELSE answers
          /\ sent' = IF n > sent[r] THEN [sent EXCEPT ![r] = n] ELSE sent
          /\ excused' = IF Reaches(o) /\ n > sent[r] THEN excused ELSE excused \cup {r}
    /\ UNCHANGED <<stores, view, analysisOf, shown, opening, analysing, left, bounds>>

\* The route answers after its broadcast; nobody may wait for it any more.
SendAnalysis(o) ==
    /\ o.body.kind = "analysis"
    /\ SendText(o)
    /\ analysisDone' = (analysisDone \/ (analyzing # NoIncident /\ o.body.of.n = analyses))
    /\ UNCHANGED <<stores, view, analysisOf, shown, opening, analyzing, generating,
                   answers, history, bounds>>

\* The route fails between its last row and sending it to the dashboard.
MessageAbandoned(o) ==
    /\ Abandoned(o)
    /\ excused' = excused \cup
           {r \in Records : o.body.kind = "action" /\ o.body.rec = r}
    /\ UNCHANGED <<stores, view, analysisOf, shown, opening, analysing, answers, sent,
                   left, bounds>>

PaneDisconnects ==
    /\ socket # 0
    /\ Closed
    /\ excused' = excused \cup
           {r \in Records : \E n \in DOMAIN wire : wire[n].kind = "action" /\ wire[n].rec = r}
    /\ UNCHANGED <<stores, view, analysisOf, shown, opening, analysing, answers, sent,
                   left, bounds>>

\* upsertActionRecord, for records of every incident.
ReceiveRecord ==
    /\ wire # << >>
    /\ Head(wire).kind = "action"
    /\ Received
    /\ shown' = [shown EXCEPT ![Head(wire).rec] = Head(wire).n]
    /\ UNCHANGED <<stores, view, analysisOf, opening, analysing, answers, history, bounds>>

\* The answer to the user's own request; a newer message that was sent before it
\* excuses the record.
AnswerArrives(a) ==
    /\ a \in answers
    /\ answers' = answers \ {a}
    /\ shown' = [shown EXCEPT ![a.rec] = a.n]
    /\ excused' = IF a.n < sent[a.rec] THEN excused \cup {a.rec} ELSE excused
    /\ UNCHANGED <<channel, stores, view, analysisOf, opening, analysing, sent, left,
                   bounds>>

AnswerLost(a) ==
    /\ a \in answers
    /\ answers' = answers \ {a}
    /\ UNCHANGED <<channel, stores, view, analysisOf, shown, opening, analysing, history,
                   bounds>>

PaneChannel ==
    \/ \E o \in outbox : StartBroadcast(o) /\ UNCHANGED pane
    \/ Connect /\ UNCHANGED pane
    \/ \E o \in outbox : SendRecord(o) \/ SendAnalysis(o)
    \/ ReceiveRecord
    \/ ReceiveAnalysis

PaneNext ==
    \/ \E i \in Subjects : SelectIncident(i)
    \/ \E q \in opening : ReadDetail(q) \/ DetailArrives(q) \/ DetailFails(q)
    \/ Back
    \/ Analyze
    \/ \E g \in generating : CompleteAnalysis(g)
    \/ AnalysisArrives
    \/ AnalysisFails
    \/ \E r \in Records, own \in BOOLEAN : Commit(r, own) \/ CommitApproval(r, own)
    \/ \E x \in executing : CommitExecution(x) \/ ExecutionEnds(x)
    \/ \E a \in answers : AnswerArrives(a) \/ AnswerLost(a)
    \/ PaneChannel
    \/ \E o \in outbox : MessageAbandoned(o)
    \/ PaneDisconnects
-----------------------------------------------------------------------------
\* selectIncident does not check that its answer is still wanted.  The pane shows
\* the selected incident nevertheless, in every state: no other one can be opened
\* before the answer has come.
DetailIsSelected == detail \in {NoIncident, selectedId}

\* The analysis on screen is the shown incident's, unless the user left an
\* incident that was being analysed: analyze does not check where its answer goes.
ForeignAnalysisOnlyAfterLeaving == analysisOf \in {NoIncident, detail} \/ left

Settled(r) ==
    /\ PaneShown
    /\ detail = RecordOf[r]
    /\ \A x \in executing : x.rec # r
    /\ \A a \in answers : a.rec # r
    /\ \A o \in outbox : o.body.kind = "action" => o.body.rec # r
    /\ \A n \in DOMAIN wire : wire[n].kind = "action" => wire[n].rec # r

\* ADR 0007: clients "restore current incident action state through the API and merge
\* subsequent action and analysis updates".  When no route works on a record and nothing
\* about it is on its way, the pane shows its latest snapshot, unless a route ended with
\* a row that it did not announce, a message was lost, or a newer one overtook it or the
\* answer to the user's own request.
RecordsCurrent == \A r \in Records \ excused : Settled(r) => shown[r] = snapshot[r]
=============================================================================
