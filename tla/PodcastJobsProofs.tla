-------------------------- MODULE PodcastJobsProofs --------------------------
(***************************************************************************)
(* What PodcastJobs' run checks on a small instance, for any number of     *)
(* jobs, calls, reports, uploads and workers.                              *)
(*                                                                         *)
(* The row follows the service only because of what is on its way: a       *)
(* report names a state the service has reached and cannot leave           *)
(* backwards, a cancel's answer one it cannot leave at all, and a job is   *)
(* handed to the service once.  ReportsOK, RepliesOK and SubmitOnce say    *)
(* so; LeasesOK ties a lease to the round trip that holds it.              *)
(***************************************************************************)
EXTENDS PodcastJobs, FiniteSetTheorems, TLAPS

\* A call holds a slot exactly while it is under way.
LeasesOK == \A q \in Calls : lease[q] # None <=> req[q].pc = "call"

Submitting(q, j) ==
    /\ req[q].pc = "dispatch" /\ req[q].op = "podcast.submit" /\ req[q].job = j

SubmitFrames(j) == {m \in wire : m.op = "podcast.submit" /\ m.job = j}

\* A job is handed over at most once, after its row is there.
SubmitOnce ==
    /\ \A q \in Calls : req[q] # Idle => Stored(req[q].job)
    /\ \A m \in wire : Stored(m.job)
    /\ \A j \in Jobs :
          /\ svc[j] # "none" => Stored(j) /\ SubmitFrames(j) = {}
          /\ \A m, n \in SubmitFrames(j) : m = n
          /\ \A q \in Calls : Submitting(q, j) =>
                /\ svc[j] = "none" /\ SubmitFrames(j) = {}
                /\ \A p \in Calls : Submitting(p, j) => p = q

\* What a report says of the job is not ahead of the service, and what it is
\* about to write may follow what it read.
ReportsOK ==
    \A r \in Reports : report[r] # Idle =>
        LET j == report[r].job  to == report[r].to
        IN /\ svc[j] # "none"
           /\ to = "running" => svc[j] # "queued"
           /\ to \in Terminal => svc[j] = to
           /\ report[r].pc = "write" => CanTransitionTo(report[r].from, to)

\* A frame names the job of the request that sent it.
FramesOK == \A m \in wire : req[m.call] # Idle /\ req[m.call].job = m.job

\* A verdict that the job was cancelled is final.
RepliesOK ==
    \A q \in Calls :
        req[q].pc \in {"call", "replied"} /\ req[q].reply = "cancelled"
            => svc[req[q].job] = "cancelled"

Inv ==
    /\ TypeOK /\ LeasesOK /\ SubmitOnce /\ ReportsOK /\ FramesOK /\ RepliesOK
    /\ RowFollowsService /\ VerdictsEndTheJob

-----------------------------------------------------------------------------
(* The bridge. *)

\* Variables of the bridge keep their shape, whatever a step does to it.
LEMMA TakeLeaseTyped ==
    ASSUME BridgeTypeOK, NEW c \in Calls, NEW w \in Ids, TakeLease(c, w)
    PROVE  BridgeTypeOK'
  BY DEF BridgeTypeOK, TakeLease

LEMMA EndCallTyped ==
    ASSUME BridgeTypeOK, NEW c \in Calls, lease[c] # None, NEW cap \in Capabilities, NEW how,
           EndCall(c, cap, how)
    PROVE  BridgeTypeOK'
<1>1. lease[c] \in Ids
  BY DEF BridgeTypeOK
<1> QED BY <1>1 DEF BridgeTypeOK, EndCall

LEMMA BridgeStepTyped ==
    ASSUME BridgeTypeOK, Register \/ \E w \in Ids : Vanish(w) \/ Remove(w)
    PROVE  BridgeTypeOK'
  BY DEF BridgeTypeOK, Register, Vanish, Remove

-----------------------------------------------------------------------------
(* Types. *)

\* Where a request is suspended tells what it knows.
LEMMA Shapes ==
    ASSUME TypeOK, NEW q \in Calls
    PROVE  /\ req[q] = Idle <=> req[q].pc = "idle"
           /\ req[q].pc \in {"dispatch", "failed"} =>
                 req[q] \in [pc : {"dispatch", "failed"}, op : Ops, job : Jobs]
           /\ req[q].pc \in {"call", "replied"} =>
                 req[q] \in [pc : {"call", "replied"}, op : Ops, job : Jobs,
                             reply : Replies \cup {None}]
           /\ req[q].pc = "over" =>
                 req[q] \in [pc : {"over"}, job : Jobs,
                             told : {"accepted", "refused", "cancelled",
                                     "not_cancelled", "error", None}]
           /\ req[q] # Idle => req[q].job \in Jobs
  BY DEF TypeOK, Request, Idle

LEMMA ReportShapes ==
    ASSUME TypeOK, NEW r \in Reports
    PROVE  /\ report[r] = Idle <=> report[r].pc = "idle"
           /\ report[r].pc = "sent" =>
                 report[r] \in [pc : {"sent"}, job : Jobs, to : Live \cup Terminal]
           /\ report[r].pc = "write" =>
                 report[r] \in [pc : {"write"}, job : Jobs, to : Live \cup Terminal,
                                from : Live \cup Terminal]
           /\ report[r] # Idle => /\ report[r].pc \in {"sent", "write"}
                                  /\ report[r].job \in Jobs
                                  /\ report[r].to \in Live \cup Terminal
  BY DEF TypeOK, Report, Idle

LEMMA UploadShapes ==
    ASSUME TypeOK, NEW u \in Uploads
    PROVE  /\ upload[u] = Idle <=> upload[u].pc = "idle"
           /\ upload[u].pc # "idle" =>
                 upload[u] \in [pc : {"sent", "bytes", "stamp"}, job : Jobs]
  BY DEF TypeOK, Idle

\* A request that goes to a state of some shape stays a request.
LEMMA GoesTyped ==
    ASSUME TypeOK, NEW q \in Calls, NEW r \in Request, Goes(q, r)
    PROVE  req' \in [Calls -> Request]
  BY DEF TypeOK, Goes

LEMMA EndsTyped ==
    ASSUME TypeOK, NEW q \in Calls, req[q] # Idle,
           NEW told \in {"accepted", "refused", "cancelled", "not_cancelled", "error", None},
           Ends(q, told)
    PROVE  req' \in [Calls -> Request]
<1>1. [pc |-> "over", job |-> req[q].job, told |-> told] \in Request
  BY Shapes DEF Request
<1> QED BY <1>1, GoesTyped DEF Ends

LEMMA MovesTyped ==
    ASSUME TypeOK, NEW j \in Jobs, NEW state \in Live \cup Terminal,
           Moves(j, state) \/ MarkIfLive(j, state)
    PROVE  row' \in [Jobs -> JobRow]
<1>1. row[j] \in JobRow
  BY DEF TypeOK
<1>2. [row[j] EXCEPT !.state = state, !.old = FALSE] \in JobRow
  BY <1>1 DEF JobRow
<1> QED BY <1>2 DEF TypeOK, Moves, MarkIfLive

LEMMA TypeInit == Init => TypeOK
  BY BridgeAssumption DEF Init, TypeOK, BridgeInit, BridgeTypeOK, Request, Report, JobRow

LEMMA DoorTyped ==
    ASSUME TypeOK, LeasesOK, NEW q \in Calls, Door(q)
    PROVE  TypeOK'
<1>1. ASSUME NEW j \in Jobs, Submit(q, j)
      PROVE  TypeOK'
  <2>1. [pc |-> "dispatch", op |-> "podcast.submit", job |-> j] \in Request
    BY DEF Request, Ops
  <2>2. req' \in [Calls -> Request]
    BY <1>1, <2>1, GoesTyped DEF Submit
  <2> QED BY <1>1, <2>2 DEF Submit, TypeOK, BridgeTypeOK, bridgeVars, Live, JobRow
<1>2. ASSUME NEW j \in Jobs, Cancel(q, j)
      PROVE  TypeOK'
  <2>1. /\ [pc |-> "dispatch", op |-> "podcast.cancel", job |-> j] \in Request
        /\ [pc |-> "over", job |-> j, told |-> "not_cancelled"] \in Request
    BY DEF Request, Ops
  <2>2. req' \in [Calls -> Request]
    BY <1>2, <2>1, GoesTyped DEF Cancel
  <2> QED BY <1>2, <2>2 DEF Cancel, TypeOK, BridgeTypeOK, bridgeVars
<1>3. CASE Dispatch(q)
  <2>1. req[q] \in [pc : {"dispatch", "failed"}, op : Ops, job : Jobs]
    BY <1>3, Shapes DEF Dispatch
  <2>2. /\ [req[q] EXCEPT !.pc = "failed"] \in Request
        /\ [pc |-> "call", op |-> req[q].op, job |-> req[q].job, reply |-> None] \in Request
        /\ [call |-> q, op |-> req[q].op, job |-> req[q].job]
              \in [call : Calls, op : Ops, job : Jobs]
    BY <2>1 DEF Request
  <2>3. req' \in [Calls -> Request]
    BY <1>3, <2>2, GoesTyped DEF Dispatch
  <2>4. BridgeTypeOK'
    BY <1>3, TakeLeaseTyped DEF Dispatch, TypeOK, BridgeTypeOK, bridgeVars
  <2>5. wire' \subseteq [call : Calls, op : Ops, job : Jobs]
    BY <1>3, <2>2 DEF Dispatch, TypeOK
  <2> QED BY <1>3, <2>3, <2>4, <2>5 DEF Dispatch, TypeOK
<1>4. ASSUME NEW how \in Hows, Answered(q, how)
      PROVE  TypeOK'
  <2>1. req[q] \in [pc : {"call", "replied"}, op : Ops, job : Jobs,
                    reply : Replies \cup {None}]
    BY <1>4, Shapes DEF Answered
  <2>2. /\ [req[q] EXCEPT !.pc = "replied"] \in Request
        /\ [pc |-> "failed", op |-> req[q].op, job |-> req[q].job] \in Request
    BY <2>1 DEF Request
  <2>3. req' \in [Calls -> Request]
    BY <1>4, <2>2, GoesTyped DEF Answered
  <2>4. req[q].op \in Capabilities
    BY <2>1 DEF Ops, Capabilities
  <2>5. BridgeTypeOK'
    BY <1>4, <2>4, EndCallTyped DEF Answered, MayEnd, TypeOK
  <2> QED BY <1>4, <2>3, <2>5 DEF Answered, TypeOK
<1>5. CASE Accepted(q)
  <2>1. req[q] # Idle /\ req[q].job \in Jobs
    BY <1>5, Shapes DEF Accepted, Idle
  <2>2. req' \in [Calls -> Request]
    BY <1>5, <2>1, EndsTyped DEF Accepted
  <2>3. \A old \in BOOLEAN : [row[req[q].job] EXCEPT !.old = old] \in JobRow
    BY <2>1 DEF TypeOK, JobRow
  <2>4. row[req[q].job].old \in BOOLEAN
    BY <2>1 DEF TypeOK, JobRow
  <2>5. PICK old \in {row[req[q].job].old, row[req[q].job].old /\ ~IsLive(req[q].job)} :
           row' = [row EXCEPT ![req[q].job].old = old]
    BY <1>5 DEF Accepted
  <2>6. old \in BOOLEAN
    BY <2>4, <2>5
  <2>7. row' \in [Jobs -> JobRow]
    BY <2>1, <2>3, <2>5, <2>6 DEF TypeOK
  <2> QED BY <1>5, <2>2, <2>7 DEF Accepted, TypeOK, BridgeTypeOK, bridgeVars
<1>6. CASE SubmitFailed(q)
  <2>1. req[q] # Idle /\ req[q].job \in Jobs
    BY <1>6, Shapes DEF SubmitFailed, Idle
  <2>2. req' \in [Calls -> Request]
    BY <1>6, <2>1, EndsTyped DEF SubmitFailed
  <2>3. "failed" \in Terminal
    BY DEF Terminal
  <2> QED BY <1>6, <2>1, <2>2, <2>3, MovesTyped
          DEF SubmitFailed, TypeOK, BridgeTypeOK, bridgeVars
<1>7. CASE CancelReplied(q)
  <2>1. req[q] # Idle /\ req[q].job \in Jobs
    BY <1>7, Shapes DEF CancelReplied, Idle
  <2>2. req' \in [Calls -> Request]
    BY <1>7, <2>1, EndsTyped DEF CancelReplied
  <2>3. {"failed", "cancelled"} \subseteq Terminal
    BY DEF Terminal
  <2>4. row' \in [Jobs -> JobRow]
    BY <1>7, <2>1, <2>3, MovesTyped DEF CancelReplied, TypeOK
  <2> QED BY <1>7, <2>2, <2>4 DEF CancelReplied, TypeOK, BridgeTypeOK, bridgeVars
<1>8. CASE CancelFailed(q)
  <2>1. req' \in [Calls -> Request]
    BY <1>8, EndsTyped DEF CancelFailed, Idle
  <2> QED BY <1>8, <2>1 DEF CancelFailed, TypeOK, BridgeTypeOK, bridgeVars
<1>9. CASE HangUp(q)
  <2>1. req' \in [Calls -> Request]
    BY <1>9, EndsTyped DEF HangUp, Idle
  <2>2. req[q].pc = "call" => req[q].op \in Capabilities /\ lease[q] # None
    BY Shapes DEF Ops, Capabilities, LeasesOK
  <2>3. BridgeTypeOK'
    BY <1>9, <2>2, EndCallTyped DEF HangUp, TypeOK, BridgeTypeOK, bridgeVars
  <2> QED BY <1>9, <2>1, <2>3 DEF HangUp, TypeOK
<1> QED BY <1>1, <1>2, <1>3, <1>4, <1>5, <1>6, <1>7, <1>8, <1>9 DEF Door

LEMMA IngestTyped ==
    ASSUME TypeOK, Ingest
    PROVE  TypeOK'
<1>1. ASSUME NEW r \in Reports, ReadReport(r)
      PROVE  TypeOK'
  <2>1. report[r] \in [pc : {"sent"}, job : Jobs, to : Live \cup Terminal]
    BY <1>1, ReportShapes DEF ReadReport
  <2>2. Stored(report[r].job) => row[report[r].job].state \in Live \cup Terminal
    BY <2>1 DEF TypeOK, Stored, JobRow
  <2>3. report' \in [Reports -> Report]
    BY <1>1, <2>1, <2>2 DEF ReadReport, Answers, Report, TypeOK
  <2> QED BY <1>1, <2>3 DEF ReadReport, TypeOK, BridgeTypeOK, bridgeVars
<1>2. ASSUME NEW r \in Reports, WriteReport(r)
      PROVE  TypeOK'
  <2>1. report[r].job \in Jobs /\ report[r].to \in Live \cup Terminal
    BY <1>2, ReportShapes DEF WriteReport
  <2>2. report' \in [Reports -> Report]
    BY <1>2 DEF WriteReport, Answers, Report, TypeOK
  <2>3. row' \in [Jobs -> JobRow]
    BY <1>2, <2>1, MovesTyped DEF WriteReport, TypeOK
  <2> QED BY <1>2, <2>2, <2>3 DEF WriteReport, TypeOK, BridgeTypeOK, bridgeVars
<1>3. ASSUME NEW r \in Reports, DropReport(r)
      PROVE  TypeOK'
  BY <1>3 DEF DropReport, Answers, Report, TypeOK, BridgeTypeOK, bridgeVars
<1> DEFINE Up == {Idle} \cup [pc : {"sent", "bytes", "stamp"}, job : Jobs]
<1>4. ASSUME NEW u \in Uploads,
             ReadUpload(u) \/ DropUpload(u) \/ Rename(u) \/ SetAudio(u)
      PROVE  upload' \in [Uploads -> Up] /\ upload[u].job \in Jobs
  <2>1. /\ upload[u] \in [pc : {"sent", "bytes", "stamp"}, job : Jobs]
        /\ upload \in [Uploads -> Up]
    BY <1>4, UploadShapes DEF ReadUpload, DropUpload, Rename, SetAudio, TypeOK
  <2>2. \A pc \in {"bytes", "stamp"} : [upload[u] EXCEPT !.pc = pc] \in Up
    BY <2>1
  <2>3. Idle \in Up
    OBVIOUS
  <2> HIDE DEF Up
  <2> QED BY <1>4, <2>1, <2>2, <2>3 DEF ReadUpload, DropUpload, Rename, SetAudio, Takes
<1>5. ASSUME NEW u \in Uploads, ReadUpload(u) \/ DropUpload(u)
      PROVE  TypeOK'
  BY <1>4, <1>5 DEF ReadUpload, DropUpload, TypeOK, BridgeTypeOK, bridgeVars
<1>6. ASSUME NEW u \in Uploads, Rename(u)
      PROVE  TypeOK'
  BY <1>4, <1>6 DEF Rename, TypeOK, BridgeTypeOK, bridgeVars
<1>7. ASSUME NEW u \in Uploads, SetAudio(u)
      PROVE  TypeOK'
  <2>1. upload' \in [Uploads -> Up] /\ upload[u].job \in Jobs
    BY <1>4, <1>7
  <2> HIDE DEF Up
  <2> DEFINE j == upload[u].job
  <2>2. row[j] \in JobRow
    BY <2>1 DEF TypeOK
  <2>3. [row[j] EXCEPT !.audio = TRUE, !.old = FALSE] \in JobRow
    BY <2>2 DEF JobRow
  <2>4. row' \in [Jobs -> JobRow]
    BY <1>7, <2>1, <2>3 DEF SetAudio, TypeOK
  <2> QED BY <1>7, <2>1, <2>4 DEF SetAudio, TypeOK, BridgeTypeOK, bridgeVars, Up
<1> QED BY <1>1, <1>2, <1>3, <1>5, <1>6, <1>7 DEF Ingest

LEMMA ServiceTyped ==
    ASSUME TypeOK, Service
    PROVE  TypeOK'
<1>1. ASSUME NEW m \in wire, Handle(m)
      PROVE  TypeOK'
  <2>1. m.call \in Calls /\ m.op \in Ops /\ m.job \in Jobs
    BY DEF TypeOK
  <2>2. Verdict(m) \in Replies
    BY DEF Verdict, Replies
  <2>3. req[m.call].pc = "call" =>
           [req[m.call] EXCEPT !.reply = Verdict(m)] \in Request
    BY <2>1, <2>2, Shapes DEF Request
  <2>4. req' \in [Calls -> Request]
    BY <1>1, <2>1, <2>3 DEF Handle, TypeOK
  <2>5. svc' \in [Jobs -> Live \cup Terminal \cup {"none", "wiped"}]
    BY <1>1, <2>1 DEF Handle, TypeOK, Live, Terminal
  <2> QED BY <1>1, <2>4, <2>5 DEF Handle, TypeOK, BridgeTypeOK, bridgeVars
<1>2. ASSUME NEW j \in Jobs, NEW to \in {"running", "wiped"} \cup Terminal,
             ServiceMoves(j, to)
      PROVE  TypeOK'
  BY <1>2 DEF ServiceMoves, TypeOK, BridgeTypeOK, bridgeVars, Live
<1>3. ASSUME NEW j \in Jobs, NEW r \in Reports, SendReport(r, j)
      PROVE  TypeOK'
  BY <1>3 DEF SendReport, Answers, Report, TypeOK, BridgeTypeOK, bridgeVars
<1>4. ASSUME NEW j \in Jobs, NEW u \in Uploads, SendUpload(u, j)
      PROVE  TypeOK'
  BY <1>4 DEF SendUpload, Takes, TypeOK, BridgeTypeOK, bridgeVars
<1> QED BY <1>1, <1>2, <1>3, <1>4 DEF Service

LEMMA TypeStep == TypeOK /\ LeasesOK /\ [Next]_vars => TypeOK'
<1> SUFFICES ASSUME TypeOK, LeasesOK, [Next]_vars PROVE TypeOK'
  OBVIOUS
<1>1. CASE Bridge
  BY <1>1, BridgeStepTyped DEF Bridge, jobVars, TypeOK
<1>2. ASSUME NEW j \in Jobs, Ages(j)
      PROVE  TypeOK'
  BY <1>2 DEF Ages, TypeOK, BridgeTypeOK, bridgeVars, JobRow
<1>3. CASE UNCHANGED vars
  BY <1>3 DEF vars, bridgeVars, jobVars, TypeOK, BridgeTypeOK
<1> QED BY <1>1, <1>2, <1>3, DoorTyped, IngestTyped, ServiceTyped DEF Next

-----------------------------------------------------------------------------
(* Leases and slots. *)

HoldersOf(w) == {c \in Calls : lease[c] = w}

LEMMA HoldersFinite ==
    ASSUME NEW w PROVE IsFiniteSet(HoldersOf(w))
  BY BridgeAssumption, FS_Subset DEF HoldersOf

\* A pick that respects the ceiling takes one slot for a call that had none.
LEMMA SlotTaken ==
    ASSUME BridgeTypeOK, SlotsExact, NEW c \in Calls, NEW w \in Ids,
           lease[c] = None, HasRoom(w), TakeLease(c, w)
    PROVE  SlotsExact'
<1> SUFFICES ASSUME NEW v \in Ids
             PROVE  /\ inflight'[v] = Cardinality(HoldersOf(v)')
                    /\ inflight'[v] <= MaxConcurrent
  BY DEF SlotsExact, HoldersOf
<1>0. /\ inflight[v] = Cardinality(HoldersOf(v)) /\ inflight[v] <= MaxConcurrent
      /\ inflight[v] \in Int /\ MaxConcurrent \in Int
  BY BridgeAssumption DEF SlotsExact, HoldersOf, BridgeTypeOK
<1>1. CASE v = w
  <2>1. HoldersOf(v)' = HoldersOf(v) \cup {c} /\ c \notin HoldersOf(v)
    BY <1>1, BridgeAssumption DEF HoldersOf, TakeLease, BridgeTypeOK, Ids
  <2>2. Cardinality(HoldersOf(v)') = Cardinality(HoldersOf(v)) + 1
    BY <2>1, HoldersFinite, FS_AddElement
  <2>3. inflight'[v] = inflight[v] + 1 /\ inflight[v] < MaxConcurrent
    BY <1>1 DEF TakeLease, HasRoom, BridgeTypeOK
  <2> QED BY <1>0, <2>2, <2>3
<1>2. CASE v # w
  <2>1. HoldersOf(v)' = HoldersOf(v)
    BY <1>2, BridgeAssumption DEF HoldersOf, TakeLease, BridgeTypeOK, Ids
  <2>2. inflight'[v] = inflight[v]
    BY <1>2 DEF TakeLease, BridgeTypeOK
  <2> QED BY <1>0, <2>1, <2>2
<1> QED BY <1>1, <1>2

\* However a call ends, its slot comes back.
LEMMA SlotGivenBack ==
    ASSUME BridgeTypeOK, SlotsExact, NEW c \in Calls, lease[c] # None,
           NEW cap, NEW how \in Hows, EndCall(c, cap, how)
    PROVE  SlotsExact'
<1> DEFINE w == lease[c]
<1>00. w \in Ids /\ Freed(how)
  BY DEF BridgeTypeOK, Freed, Hows
<1> SUFFICES ASSUME NEW v \in Ids
             PROVE  /\ inflight'[v] = Cardinality(HoldersOf(v)')
                    /\ inflight'[v] <= MaxConcurrent
  BY DEF SlotsExact, HoldersOf
<1>0. /\ inflight[v] = Cardinality(HoldersOf(v)) /\ inflight[v] <= MaxConcurrent
      /\ inflight[v] \in Int /\ MaxConcurrent \in Int
  BY BridgeAssumption DEF SlotsExact, HoldersOf, BridgeTypeOK
<1>1. CASE v = w
  <2>1. HoldersOf(v)' = HoldersOf(v) \ {c} /\ c \in HoldersOf(v)
    BY <1>1, BridgeAssumption DEF HoldersOf, EndCall, BridgeTypeOK, Ids
  <2>2. Cardinality(HoldersOf(v)') = Cardinality(HoldersOf(v)) - 1
    BY <2>1, HoldersFinite, FS_RemoveElement
  <2>3. inflight'[v] = inflight[v] - 1
    BY <1>00, <1>1 DEF EndCall, BridgeTypeOK
  <2> QED BY <1>0, <2>2, <2>3
<1>2. CASE v # w
  <2>1. HoldersOf(v)' = HoldersOf(v)
    BY <1>2, BridgeAssumption DEF HoldersOf, EndCall, BridgeTypeOK, Ids
  <2>2. inflight'[v] = inflight[v]
    BY <1>00, <1>2 DEF EndCall, BridgeTypeOK
  <2> QED BY <1>0, <2>1, <2>2
<1> QED BY <1>1, <1>2

\* What a step may do to the bridge: a dispatch takes a slot, the end of a
\* round trip gives it back, and every other step leaves the counts alone.
TakesSlot(c) ==
    /\ req[c].pc = "dispatch" /\ req'[c].pc = "call"
    /\ \A d \in Calls \ {c} : req'[d] = req[d]
    /\ \E w \in Ids : HasRoom(w) /\ TakeLease(c, w)

GivesSlot(c) ==
    /\ req[c].pc = "call" /\ req'[c].pc # "call"
    /\ \A d \in Calls \ {c} : req'[d] = req[d]
    /\ lease[c] # None
    /\ \E how \in Hows : EndCall(c, req[c].op, how)

Quiet ==
    /\ UNCHANGED <<inflight, lease>>
    /\ \A d \in Calls : req'[d].pc = "call" <=> req[d].pc = "call"

LEMMA BridgeMoves ==
    ASSUME TypeOK, LeasesOK, [Next]_vars
    PROVE  Quiet \/ \E c \in Calls : TakesSlot(c) \/ GivesSlot(c)
<1>1. ASSUME NEW q \in Calls, NEW r, Goes(q, r)
      PROVE  req'[q] = r /\ \A d \in Calls \ {q} : req'[d] = req[d]
  BY <1>1 DEF Goes, TypeOK
<1>2. ASSUME NEW q \in Calls, Dispatch(q)
      PROVE  Quiet \/ TakesSlot(q)
  <2>0. req[q] \in [pc : {"dispatch", "failed"}, op : Ops, job : Jobs]
    BY <1>2, Shapes DEF Dispatch
  <2>1. CASE Goes(q, [req[q] EXCEPT !.pc = "failed"]) /\ UNCHANGED bridgeVars
    <3>1. req'[q].pc = "failed" /\ \A d \in Calls \ {q} : req'[d] = req[d]
      BY <1>1, <2>0, <2>1
    <3> QED BY <1>2, <2>1, <3>1 DEF Dispatch, bridgeVars, Quiet
  <2>2. ASSUME NEW w \in Ids, Picks(w, req[q].op), TakeLease(q, w),
               Goes(q, [pc |-> "call", op |-> req[q].op, job |-> req[q].job,
                        reply |-> None])
        PROVE  TakesSlot(q)
    <3>1. req'[q].pc = "call" /\ \A d \in Calls \ {q} : req'[d] = req[d]
      BY <1>1, <2>2
    <3> QED BY <1>2, <2>2, <3>1 DEF Dispatch, Picks, Candidates, TakesSlot
  <2> QED BY <1>2, <2>1, <2>2 DEF Dispatch
<1>3. ASSUME NEW q \in Calls, NEW how \in Hows, Answered(q, how)
      PROVE  GivesSlot(q)
  <2>0. req[q] \in [pc : {"call", "replied"}, op : Ops, job : Jobs,
                    reply : Replies \cup {None}]
    BY <1>3, Shapes DEF Answered
  <2>1. /\ req'[q] \in {[req[q] EXCEPT !.pc = "replied"],
                       [pc |-> "failed", op |-> req[q].op, job |-> req[q].job]}
        /\ \A d \in Calls \ {q} : req'[d] = req[d]
    BY <1>1, <1>3 DEF Answered
  <2> QED BY <1>3, <2>0, <2>1 DEF Answered, MayEnd, GivesSlot
<1>4. ASSUME NEW q \in Calls, HangUp(q)
      PROVE  Quiet \/ GivesSlot(q)
  <2>1. req'[q].pc = "over" /\ \A d \in Calls \ {q} : req'[d] = req[d]
    BY <1>1, <1>4 DEF HangUp, Ends
  <2> QED BY <1>4, <2>1 DEF HangUp, bridgeVars, LeasesOK, Quiet, GivesSlot, Hows
<1>5. ASSUME NEW q \in Calls, NEW j \in Jobs, Submit(q, j) \/ Cancel(q, j)
      PROVE  Quiet
  <2>1. req[q].pc = "idle" /\ req'[q].pc \in {"dispatch", "over"}
        /\ \A d \in Calls \ {q} : req'[d] = req[d]
    BY <1>1, <1>5 DEF Submit, Cancel, Idle
  <2> QED BY <1>5, <2>1 DEF Submit, Cancel, bridgeVars, Quiet
<1>6. ASSUME NEW q \in Calls,
             Accepted(q) \/ SubmitFailed(q) \/ CancelReplied(q) \/ CancelFailed(q)
      PROVE  Quiet
  <2>1. req[q].pc \in {"replied", "failed"} /\ req'[q].pc = "over"
        /\ \A d \in Calls \ {q} : req'[d] = req[d]
    BY <1>1, <1>6 DEF Accepted, SubmitFailed, CancelReplied, CancelFailed, Ends
  <2> QED BY <1>6, <2>1 DEF Accepted, SubmitFailed, CancelReplied, CancelFailed, bridgeVars, Quiet
<1>7. CASE Ingest
  BY <1>7 DEF Ingest, ReadReport, WriteReport, DropReport, ReadUpload, Rename, SetAudio,
              DropUpload, bridgeVars, Quiet
<1>8. CASE Service
  <2>1. ASSUME NEW m \in wire, Handle(m)
        PROVE  Quiet
    <3>1. m.call \in Calls
      BY DEF TypeOK
    <3>2. \A d \in Calls : req'[d] = req[d] \/ req'[d] = [req[d] EXCEPT !.reply = Verdict(m)]
      BY <2>1, <3>1 DEF Handle, TypeOK
    <3>3. \A d \in Calls : req'[d].pc = req[d].pc
      BY <2>1, <3>1, Shapes DEF Handle, TypeOK
    <3> QED BY <2>1, <3>3 DEF Handle, bridgeVars, Quiet
  <2> QED BY <1>8, <2>1 DEF Service, ServiceMoves, SendReport, SendUpload, bridgeVars, Quiet
<1>9. CASE Bridge \/ (\E j \in Jobs : Ages(j)) \/ UNCHANGED vars
  BY <1>9 DEF Bridge, Register, Vanish, Remove, Ages, vars, bridgeVars, jobVars, Quiet
<1> QED BY <1>2, <1>3, <1>4, <1>5, <1>6, <1>7, <1>8, <1>9 DEF Next, Door

LEMMA LeasesStep ==
    ASSUME TypeOK, LeasesOK, [Next]_vars
    PROVE  LeasesOK'
<1>1. ASSUME NEW c \in Calls, NEW w \in Ids, req'[c].pc = "call",
             \A d \in Calls \ {c} : req'[d] = req[d], TakeLease(c, w)
      PROVE  LeasesOK'
  BY <1>1, BridgeAssumption DEF LeasesOK, TakeLease, TypeOK, BridgeTypeOK, Ids
<1>2. ASSUME NEW c \in Calls, NEW cap, NEW how, req'[c].pc # "call",
             \A d \in Calls \ {c} : req'[d] = req[d], EndCall(c, cap, how)
      PROVE  LeasesOK'
  BY <1>2 DEF LeasesOK, EndCall, TypeOK, BridgeTypeOK
<1> QED BY <1>1, <1>2, BridgeMoves DEF LeasesOK, Quiet, TakesSlot, GivesSlot

LEMMA SlotsStep ==
    ASSUME TypeOK, LeasesOK, SlotsExact, [Next]_vars
    PROVE  SlotsExact'
<1>1. ASSUME NEW c \in Calls, req[c].pc = "dispatch"
      PROVE  lease[c] = None
  BY <1>1 DEF LeasesOK
<1>2. CASE Quiet
  BY <1>2 DEF Quiet, SlotsExact
<1>3. ASSUME NEW c \in Calls, TakesSlot(c)
      PROVE  SlotsExact'
  BY <1>1, <1>3, SlotTaken DEF TakesSlot, TypeOK
<1>4. ASSUME NEW c \in Calls, GivesSlot(c)
      PROVE  SlotsExact'
  BY <1>4, SlotGivenBack DEF GivesSlot, TypeOK
<1> QED BY <1>2, <1>3, <1>4, BridgeMoves

\* A worker's count is exactly the calls that hold a slot of it, never over its
\* ceiling, for any number of workers and calls, however calls end (pick,
\* Lease::drop, dispatch_with_timeout).
THEOREM SlotsSafe == Spec => [](TypeOK /\ SlotsExact)
<1>1. Init => TypeOK /\ LeasesOK /\ SlotsExact
  <2>1. Init => LeasesOK
    BY DEF Init, BridgeInit, LeasesOK, Idle
  <2>2. Init => SlotsExact
    <3> SUFFICES ASSUME Init, NEW w \in Ids
                 PROVE  inflight[w] = Cardinality({c \in Calls : lease[c] = w})
                        /\ inflight[w] <= MaxConcurrent
      BY DEF SlotsExact
    <3>1. {c \in Calls : lease[c] = w} = {}
      BY BridgeAssumption DEF Init, BridgeInit, Ids
    <3>2. inflight[w] = 0 /\ 0 <= MaxConcurrent
      BY BridgeAssumption DEF Init, BridgeInit
    <3> QED BY <3>1, <3>2, FS_EmptySet
  <2> QED BY <2>1, <2>2, TypeInit
<1>2. (TypeOK /\ LeasesOK /\ SlotsExact) /\ [Next]_vars => (TypeOK /\ LeasesOK /\ SlotsExact)'
  BY TypeStep, LeasesStep, SlotsStep
<1> QED BY <1>1, <1>2, PTL DEF Spec

-----------------------------------------------------------------------------
(* Where rows and the service's records may go. *)

\* The service's record only moves forward: a submit it has not seen creates
\* it, and a record it finished or lost stays so.
Forward(from, to) ==
    \/ from = to
    \/ from = "none" /\ to = "queued"
    \/ from \in Live /\ to \in {"running", "wiped"} \cup Terminal

LEMMA ServiceForward ==
    ASSUME TypeOK, SubmitOnce, [Next]_vars, NEW j \in Jobs
    PROVE  /\ Forward(svc[j], svc'[j])
           /\ svc' = svc \/ row' = row
<1>1. ASSUME NEW m \in wire, Handle(m)
      PROVE  Forward(svc[j], svc'[j]) /\ row' = row
  <2>1. m.job \in Jobs
    BY DEF TypeOK
  <2>2. m.op = "podcast.submit" => svc[m.job] = "none"
    BY <2>1 DEF SubmitOnce, SubmitFrames
  <2> QED BY <1>1, <2>1, <2>2 DEF Handle, Forward, TypeOK, Terminal
<1>2. ASSUME NEW i \in Jobs, NEW to \in {"running", "wiped"} \cup Terminal,
             ServiceMoves(i, to)
      PROVE  Forward(svc[j], svc'[j]) /\ row' = row
  BY <1>2 DEF ServiceMoves, Forward, TypeOK
<1>3. CASE Service
  BY <1>1, <1>2, <1>3 DEF Service, SendReport, SendUpload, Forward
<1>4. CASE ~Service
  <2>1. svc' = svc
    BY <1>4 DEF Next, Door, Submit, Cancel, Dispatch, Answered, Accepted, SubmitFailed,
                CancelReplied, CancelFailed, HangUp, Ingest, ReadReport, WriteReport,
                DropReport, ReadUpload, Rename, SetAudio, DropUpload, Bridge, Ages, vars,
                jobVars
  <2> QED BY <2>1 DEF Forward
<1> QED BY <1>3, <1>4

\* A row starts queued, leaves the live states only for what the service or a
\* failure says, and leaves a terminal state never.
RowStep(j) ==
    \/ row'[j].state = row[j].state
    \/ row[j].state = None /\ row'[j].state = "queued"
    \/ /\ row[j].state \in Live /\ row'[j].state \in Live \cup Terminal
       /\ row'[j].state \in {"done", "cancelled"} => svc[j] = row'[j].state
       /\ row'[j].state = "running" => svc[j] \notin {"none", "queued"}

LEMMA MarkStep ==
    ASSUME TypeOK, NEW i \in Jobs, NEW state \in Terminal, MarkIfLive(i, state),
           state = "done" => svc[i] = "done",
           state = "cancelled" => svc[i] = "cancelled",
           NEW j \in Jobs
    PROVE  RowStep(j)
<1>1. CASE IsLive(i)
  <2>1. Moves(i, state)
    BY <1>1 DEF MarkIfLive
  <2>2. j # i => row'[j] = row[j]
    BY <2>1 DEF Moves, TypeOK
  <2>3. row'[i].state = state
    BY <2>1 DEF Moves, TypeOK, JobRow
  <2> QED BY <1>1, <2>2, <2>3 DEF IsLive, RowStep, Terminal
<1>2. CASE ~IsLive(i)
  BY <1>2 DEF MarkIfLive, RowStep
<1> QED BY <1>1, <1>2

LEMMA RowForward ==
    ASSUME TypeOK, SubmitOnce, ReportsOK, RepliesOK, [Next]_vars, NEW j \in Jobs
    PROVE  RowStep(j)
<1>1. ASSUME NEW q \in Calls, NEW i \in Jobs, Submit(q, i)
      PROVE  RowStep(j)
  BY <1>1 DEF Submit, Stored, RowStep, TypeOK
<1>2. ASSUME NEW q \in Calls, Accepted(q)
      PROVE  RowStep(j)
  <2>1. req[q].job \in Jobs
    BY <1>2, Shapes DEF Accepted, Idle
  <2> QED BY <1>2, <2>1 DEF Accepted, RowStep, TypeOK, JobRow
<1>3. ASSUME NEW q \in Calls, SubmitFailed(q)
      PROVE  RowStep(j)
  <2>1. req[q].job \in Jobs
    BY <1>3, Shapes DEF SubmitFailed, Idle
  <2>2. "failed" \in Terminal
    BY DEF Terminal
  <2> QED BY <1>3, <2>1, <2>2, MarkStep DEF SubmitFailed
<1>4. ASSUME NEW q \in Calls, CancelReplied(q)
      PROVE  RowStep(j)
  <2>1. req[q].job \in Jobs
    BY <1>4, Shapes DEF CancelReplied, Idle
  <2>2. {"failed", "cancelled"} \subseteq Terminal
    BY DEF Terminal
  <2>3. req[q].reply = "cancelled" => svc[req[q].job] = "cancelled"
    BY <1>4 DEF CancelReplied, RepliesOK
  <2>4. \/ MarkIfLive(req[q].job, "cancelled") /\ req[q].reply = "cancelled"
        \/ MarkIfLive(req[q].job, "failed")
        \/ row' = row
    BY <1>4 DEF CancelReplied, CancelsOn
  <2> QED BY <2>1, <2>2, <2>3, <2>4, MarkStep DEF RowStep
<1>5. ASSUME NEW r \in Reports, WriteReport(r)
      PROVE  RowStep(j)
  <2> DEFINE i == report[r].job
             to == report[r].to
             from == report[r].from
  <2>1. /\ i \in Jobs /\ to \in Live \cup Terminal /\ from \in Live \cup Terminal
        /\ report[r] # Idle
    BY <1>5, ReportShapes DEF WriteReport, Idle
  <2>2. /\ svc[i] # "none"
        /\ to = "running" => svc[i] # "queued"
        /\ to \in Terminal => svc[i] = to
        /\ CanTransitionTo(from, to)
    BY <1>5, <2>1 DEF ReportsOK, WriteReport
  <2>3. CASE row' = row
    BY <2>3 DEF RowStep
  <2>4. CASE row[i].state = from /\ Moves(i, to)
    <3>1. j # i => row'[j] = row[j]
      BY <2>4 DEF Moves, TypeOK
    <3>2. row'[i].state = to
      BY <2>1, <2>4 DEF Moves, TypeOK, JobRow
    <3>3. from \in Terminal => to = from
      BY <2>2 DEF CanTransitionTo, Terminal
    <3> QED BY <2>1, <2>2, <2>4, <3>1, <3>2, <3>3 DEF RowStep, Live, Terminal
  <2> QED BY <1>5, <2>3, <2>4 DEF WriteReport, StillFrom
<1>6. ASSUME NEW u \in Uploads, SetAudio(u)
      PROVE  RowStep(j)
  <2>1. upload[u].job \in Jobs
    BY <1>6, UploadShapes DEF SetAudio
  <2>2. row' = [row EXCEPT ![upload[u].job] = [@ EXCEPT !.audio = TRUE, !.old = FALSE]]
           => row'[j].state = row[j].state
    BY <2>1 DEF TypeOK, JobRow
  <2> QED BY <1>6, <2>2 DEF SetAudio, RowStep
<1>7. ASSUME NEW i \in Jobs, Ages(i)
      PROVE  RowStep(j)
  BY <1>7 DEF Ages, RowStep, TypeOK, JobRow
<1>8. CASE row' = row
  BY <1>8 DEF RowStep
<1> QED BY <1>1, <1>2, <1>3, <1>4, <1>5, <1>6, <1>7, <1>8
        DEF Next, Door, Cancel, Dispatch, Answered, CancelFailed, HangUp, Ingest,
            ReadReport, DropReport, ReadUpload, Rename, DropUpload, Service, Handle,
            ServiceMoves, SendReport, SendUpload, Bridge, vars, jobVars

\* No row is ever deleted, and a finished one does not change.
LEMMA RowStays ==
    ASSUME TypeOK, NEW j \in Jobs, RowStep(j)
    PROVE  /\ Stored(j) => Stored(j)'
           /\ row[j].state \in Terminal => row'[j].state = row[j].state
  BY NoneIsNoState DEF RowStep, Stored, Live, Terminal, Replies

-----------------------------------------------------------------------------
(* The invariant, part by part. *)

\* Steps that hand nothing over: no request begins to submit, no frame moves.
LEMMA SubmitOnceQuiet ==
    ASSUME TypeOK, SubmitOnce, wire' = wire,
           \A j \in Jobs : Stored(j) => Stored(j)',
           \A j \in Jobs : svc'[j] = "none" <=> svc[j] = "none",
           \A q \in Calls : req'[q] # Idle => Stored(req[q].job)',
           \A q \in Calls, j \in Jobs : Submitting(q, j)' => Submitting(q, j)
    PROVE  SubmitOnce'
<1>1. \A j \in Jobs : SubmitFrames(j)' = SubmitFrames(j)
  BY DEF SubmitFrames
<1>2. \A m \in wire' : Stored(m.job)'
  BY DEF SubmitOnce, TypeOK
<1> QED BY <1>1, <1>2 DEF SubmitOnce

LEMMA SubmitOnceStep ==
    ASSUME TypeOK, SubmitOnce, ReportsOK, RepliesOK, [Next]_vars
    PROVE  SubmitOnce'
<1>0. \A j \in Jobs : (Stored(j) => Stored(j)')
  BY RowForward, RowStays
<1>00. ASSUME NEW q \in Calls, NEW r, Goes(q, r)
       PROVE  req'[q] = r /\ \A d \in Calls \ {q} : req'[d] = req[d]
  BY <1>00 DEF Goes, TypeOK
<1>000. \A q \in Calls :
           req[q] # Idle => req[q].job \in Jobs /\ row'[req[q].job].state # None
  BY <1>0, Shapes DEF SubmitOnce, Stored
<1>1. ASSUME NEW q \in Calls, NEW i \in Jobs, Submit(q, i)
      PROVE  SubmitOnce'
  <2>1. /\ req'[q] = [pc |-> "dispatch", op |-> "podcast.submit", job |-> i]
        /\ \A d \in Calls \ {q} : req'[d] = req[d]
        /\ wire' = wire /\ svc' = svc /\ ~Stored(i)
    BY <1>00, <1>1 DEF Submit
  <2>2. Stored(i)'
    BY <1>1, NoneIsNoState DEF Submit, Stored, TypeOK, Live
  <2>3. /\ svc[i] = "none" /\ SubmitFrames(i) = {}
        /\ \A p \in Calls : ~Submitting(p, i)
    BY <2>1, Shapes DEF SubmitOnce, SubmitFrames, Submitting, Idle
  <2>4. \A j \in Jobs : SubmitFrames(j)' = SubmitFrames(j)
    BY <2>1 DEF SubmitFrames
  <2>5. \A p \in Calls, j \in Jobs :
           Submitting(p, j)' => (p = q /\ j = i) \/ (j # i /\ Submitting(p, j))
    BY <2>1, <2>3 DEF Submitting
  <2>6. \A m \in wire' : Stored(m.job)'
    BY <1>0, <2>1 DEF SubmitOnce, TypeOK
  <2>7. \A p \in Calls : req'[p] # Idle => Stored(req[p].job)'
    BY <1>000, <2>1, <2>2 DEF Stored
  <2>8. ASSUME NEW j \in Jobs
        PROVE  /\ svc'[j] # "none" => Stored(j)' /\ SubmitFrames(j)' = {}
               /\ \A m, n \in SubmitFrames(j)' : m = n
               /\ \A p \in Calls : Submitting(p, j)' =>
                     /\ svc'[j] = "none" /\ SubmitFrames(j)' = {}
                     /\ \A d \in Calls : Submitting(d, j)' => d = p
    BY <1>0, <2>1, <2>3, <2>4, <2>5 DEF SubmitOnce
  <2> QED BY <2>6, <2>7, <2>8 DEF SubmitOnce
<1>2. ASSUME NEW q \in Calls, Dispatch(q)
      PROVE  SubmitOnce'
  <2>0. req[q] \in [pc : {"dispatch", "failed"}, op : Ops, job : Jobs] /\ req[q] # Idle
    BY <1>2, Shapes DEF Dispatch, Idle
  <2>1. /\ req'[q].job = req[q].job /\ req'[q].pc # "dispatch"
        /\ \A d \in Calls \ {q} : req'[d] = req[d]
        /\ svc' = svc
        /\ wire' \in {wire, wire \cup {[call |-> q, op |-> req[q].op, job |-> req[q].job]}}
    <3>1. CASE Goes(q, [req[q] EXCEPT !.pc = "failed"]) /\ wire' = wire
      BY <1>00, <1>2, <2>0, <3>1 DEF Dispatch
    <3>2. CASE /\ Goes(q, [pc |-> "call", op |-> req[q].op, job |-> req[q].job,
                           reply |-> None])
               /\ wire' = wire \cup {[call |-> q, op |-> req[q].op, job |-> req[q].job]}
      BY <1>00, <1>2, <3>2 DEF Dispatch
    <3> QED BY <1>2, <3>1, <3>2 DEF Dispatch
  <2>2. \A p \in Calls, j \in Jobs : Submitting(p, j)' => Submitting(p, j) /\ p # q
    BY <2>1 DEF Submitting
  <2>3. \A p \in Calls : req'[p] # Idle => Stored(req[p].job)'
    BY <1>000, <2>0, <2>1 DEF Stored
  <2>4. \A m \in wire' : Stored(m.job)'
    BY <1>0, <1>000, <2>0, <2>1 DEF SubmitOnce, TypeOK, Stored
  <2>5. ASSUME NEW j \in Jobs
        PROVE  /\ svc'[j] # "none" => Stored(j)' /\ SubmitFrames(j)' = {}
               /\ \A m, n \in SubmitFrames(j)' : m = n
               /\ \A p \in Calls : Submitting(p, j)' =>
                     /\ svc'[j] = "none" /\ SubmitFrames(j)' = {}
                     /\ \A d \in Calls : Submitting(d, j)' => d = p
    <3>1. CASE Submitting(q, j)
      <4>1. svc[j] = "none" /\ SubmitFrames(j) = {} /\ \A p \in Calls : ~Submitting(p, j)'
        BY <2>2, <3>1 DEF SubmitOnce
      <4>2. SubmitFrames(j)' \subseteq {[call |-> q, op |-> req[q].op, job |-> req[q].job]}
        BY <2>1, <4>1 DEF SubmitFrames
      <4> QED BY <2>1, <4>1, <4>2
    <3>2. CASE ~Submitting(q, j)
      <4>1. SubmitFrames(j)' = SubmitFrames(j)
        BY <1>2, <2>1, <3>2 DEF SubmitFrames, Submitting, Dispatch
      <4> QED BY <1>0, <2>1, <2>2, <4>1 DEF SubmitOnce
    <3> QED BY <3>1, <3>2
  <2> QED BY <2>3, <2>4, <2>5 DEF SubmitOnce
<1>3. ASSUME NEW m \in wire, Handle(m)
      PROVE  SubmitOnce'
  <2>1. m.call \in Calls /\ m.job \in Jobs
    BY DEF TypeOK
  <2>2. \A p \in Calls : \/ req'[p] = req[p]
                         \/ /\ req[p].pc = "call" /\ req'[p].pc = "call"
                            /\ req'[p].job = req[p].job
    BY <1>3, <2>1, Shapes DEF Handle, TypeOK
  <2>3. \A p \in Calls : req'[p] # Idle => Stored(req[p].job)'
    BY <1>000, <2>2 DEF Idle, Stored
  <2>4. \A p \in Calls, j \in Jobs : Submitting(p, j)' <=> Submitting(p, j)
    BY <2>2 DEF Submitting
  <2>5. \A n \in wire' : Stored(n.job)'
    BY <1>0, <1>3 DEF Handle, SubmitOnce, TypeOK
  <2>6. ASSUME NEW j \in Jobs
        PROVE  /\ SubmitFrames(j)' = SubmitFrames(j) \ {m}
               /\ m \in SubmitFrames(j) => svc[j] = "none"
               /\ m \notin SubmitFrames(j) => (svc'[j] = "none" <=> svc[j] = "none")
    BY <1>3, <2>1 DEF Handle, SubmitFrames, SubmitOnce, TypeOK, Live
  <2>7. \A j \in Jobs : Stored(j)' <=> Stored(j)
    BY <1>3 DEF Handle, Stored
  <2>8. ASSUME NEW j \in Jobs
        PROVE  /\ svc'[j] # "none" => Stored(j)' /\ SubmitFrames(j)' = {}
               /\ \A f, n \in SubmitFrames(j)' : f = n
               /\ \A p \in Calls : Submitting(p, j)' =>
                     /\ svc'[j] = "none" /\ SubmitFrames(j)' = {}
                     /\ \A d \in Calls : Submitting(d, j)' => d = p
    <3>1. CASE m \in SubmitFrames(j)
      <4>1. SubmitFrames(j)' = {} /\ Stored(j)'
        BY <2>6, <2>7, <3>1 DEF SubmitOnce, SubmitFrames
      <4>2. \A p \in Calls : ~Submitting(p, j)'
        BY <2>4, <3>1 DEF SubmitOnce
      <4> QED BY <4>1, <4>2
    <3>2. CASE m \notin SubmitFrames(j)
      <4>1. SubmitFrames(j)' = SubmitFrames(j)
        BY <2>6, <3>2
      <4> QED BY <2>4, <2>6, <2>7, <3>2, <4>1 DEF SubmitOnce
    <3> QED BY <3>1, <3>2
  <2> QED BY <2>3, <2>5, <2>8 DEF SubmitOnce
<1>4. ASSUME NEW i \in Jobs, NEW to \in {"running", "wiped"} \cup Terminal,
             ServiceMoves(i, to)
      PROVE  SubmitOnce'
  <2>1. \A j \in Jobs : svc'[j] = "none" <=> svc[j] = "none"
    BY <1>4 DEF ServiceMoves, TypeOK, Live, Terminal
  <2> QED BY <1>0, <1>000, <1>4, <2>1, SubmitOnceQuiet DEF ServiceMoves, Submitting, Stored
<1>5. ASSUME NEW q \in Calls, wire' = wire, svc' = svc,
             NEW r, Goes(q, r), r.pc # "dispatch" \/ r.op # "podcast.submit",
             row'[r.job].state # None
      PROVE  SubmitOnce'
  <2>1. req'[q] = r /\ \A d \in Calls \ {q} : req'[d] = req[d]
    BY <1>00, <1>5
  <2>2. \A p \in Calls : req'[p] # Idle => Stored(req[p].job)'
    BY <1>000, <1>5, <2>1 DEF Stored
  <2>3. \A p \in Calls, j \in Jobs : Submitting(p, j)' => Submitting(p, j)
    BY <1>5, <2>1 DEF Submitting
  <2> QED BY <1>0, <1>5, <2>2, <2>3, SubmitOnceQuiet
<1>6. ASSUME NEW q \in Calls, NEW i \in Jobs, Cancel(q, i)
      PROVE  SubmitOnce'
  <2>1. Stored(i)'
    BY <1>0, <1>6 DEF Cancel
  <2> QED BY <1>5, <1>6, <2>1 DEF Cancel, Stored
<1>7. ASSUME NEW q \in Calls, NEW how \in Hows, Answered(q, how)
      PROVE  SubmitOnce'
  <2>1. /\ req[q] \in [pc : {"call", "replied"}, op : Ops, job : Jobs,
                       reply : Replies \cup {None}]
        /\ req[q] # Idle
    BY <1>7, Shapes DEF Answered, Idle
  <2>2. PICK r \in {[req[q] EXCEPT !.pc = "replied"],
                    [pc |-> "failed", op |-> req[q].op, job |-> req[q].job]} : Goes(q, r)
    BY <1>7 DEF Answered
  <2>3. r.pc # "dispatch" /\ r.job = req[q].job
    BY <2>1, <2>2
  <2>4. row'[r.job].state # None
    BY <1>000, <2>1, <2>3
  <2> QED BY <1>5, <1>7, <2>2, <2>3, <2>4 DEF Answered
<1>8. ASSUME NEW q \in Calls, NEW told, req[q] # Idle, Ends(q, told),
             wire' = wire, svc' = svc
      PROVE  SubmitOnce'
  BY <1>5, <1>8, <1>000 DEF Ends
<1>9. ASSUME NEW q \in Calls, Accepted(q) \/ SubmitFailed(q) \/ CancelReplied(q)
                              \/ CancelFailed(q) \/ HangUp(q)
      PROVE  SubmitOnce'
  BY <1>8, <1>9 DEF Accepted, SubmitFailed, CancelReplied, CancelFailed, HangUp, Idle
<1>10. ASSUME req' = req, wire' = wire, svc' = svc
       PROVE  SubmitOnce'
  BY <1>0, <1>000, <1>10, SubmitOnceQuiet DEF Submitting, Stored
<1>11. CASE Ingest \/ Bridge \/ (\E j \in Jobs : Ages(j)) \/ UNCHANGED vars
  BY <1>10, <1>11 DEF Ingest, ReadReport, WriteReport, DropReport, ReadUpload, Rename,
              SetAudio, DropUpload, Bridge, Ages, vars, jobVars
<1>12. CASE Service
  BY <1>3, <1>4, <1>10, <1>12 DEF Service, SendReport, SendUpload
<1> QED BY <1>1, <1>2, <1>6, <1>7, <1>9, <1>11, <1>12 DEF Next, Door

\* What a report says stays true: the service's record only moves forward.
LEMMA ReportsStep ==
    ASSUME TypeOK, SubmitOnce, ReportsOK, [Next]_vars
    PROVE  ReportsOK'
<1> SUFFICES ASSUME NEW r \in Reports, report'[r] # Idle
             PROVE  /\ svc'[report'[r].job] # "none"
                    /\ report'[r].to = "running" => svc'[report'[r].job] # "queued"
                    /\ report'[r].to \in Terminal => svc'[report'[r].job] = report'[r].to
                    /\ report'[r].pc = "write"
                          => CanTransitionTo(report'[r].from, report'[r].to)
  BY DEF ReportsOK, CanTransitionTo
<1>1. ASSUME report[r] # Idle, report'[r].job = report[r].job, report'[r].to = report[r].to
      PROVE  /\ svc'[report'[r].job] # "none"
             /\ report'[r].to = "running" => svc'[report'[r].job] # "queued"
             /\ report'[r].to \in Terminal => svc'[report'[r].job] = report'[r].to
  <2>1. report[r].job \in Jobs
    BY <1>1, ReportShapes
  <2>2. Forward(svc[report[r].job], svc'[report[r].job])
    BY <2>1, ServiceForward
  <2> QED BY <1>1, <2>2 DEF ReportsOK, Forward, Live, Terminal
<1>2. CASE report'[r] = report[r]
  BY <1>1, <1>2 DEF ReportsOK
<1>3. ASSUME NEW i \in Reports, ReadReport(i), report'[r] # report[r]
      PROVE  /\ report[r] # Idle
             /\ report'[r].job = report[r].job /\ report'[r].to = report[r].to
             /\ CanTransitionTo(report'[r].from, report'[r].to)
  <2>1. i = r
    BY <1>3 DEF ReadReport, Answers, TypeOK
  <2>2. report'[r] \in {[pc |-> "write", job |-> report[r].job, to |-> report[r].to,
                         from |-> row[report[r].job].state], Idle}
        /\ (report'[r] # Idle => CanTransitionTo(row[report[r].job].state, report[r].to))
    BY <1>3, <2>1 DEF ReadReport, Answers, TypeOK
  <2>3. report[r] # Idle
    BY <1>3, <2>1 DEF ReadReport, Idle
  <2> QED BY <2>2, <2>3
<1>4. ASSUME NEW i \in Reports, WriteReport(i) \/ DropReport(i)
      PROVE  report'[r] = report[r]
  BY <1>4 DEF WriteReport, DropReport, Answers, TypeOK
<1>5. ASSUME NEW i \in Reports, NEW j \in Jobs, SendReport(i, j), report'[r] # report[r]
      PROVE  /\ report'[r] = [pc |-> "sent", job |-> j, to |-> svc[j]]
             /\ svc' = svc /\ svc[j] \in Live \cup Terminal
  BY <1>5 DEF SendReport, Answers, TypeOK
<1>6. CASE \E i \in Reports : ReadReport(i) \/ WriteReport(i) \/ DropReport(i)
  BY <1>1, <1>2, <1>3, <1>4, <1>6
<1>7. CASE \E i \in Reports, j \in Jobs : SendReport(i, j)
  <2>1. CASE report'[r] # report[r]
    <3>1. PICK j \in Jobs : /\ report'[r] = [pc |-> "sent", job |-> j, to |-> svc[j]]
                            /\ svc' = svc /\ svc[j] \in Live \cup Terminal
      BY <1>5, <1>7, <2>1
    <3>2. report'[r].job = j /\ report'[r].to = svc[j] /\ report'[r].pc = "sent"
      BY <3>1
    <3> QED BY <3>1, <3>2 DEF Live, Terminal
  <2> QED BY <1>2, <2>1
<1>8. CASE report' = report
  BY <1>2, <1>8
<1> QED BY <1>6, <1>7, <1>8 DEF Next, Door, Submit, Cancel, Dispatch, Answered, Accepted,
        SubmitFailed, CancelReplied, CancelFailed, HangUp, Ingest, ReadUpload, Rename,
        SetAudio, DropUpload, Service, Handle, ServiceMoves, SendUpload, Bridge, Ages,
        vars, jobVars

\* Where a request may go, with what it is told and what that did to the row.
Over(q) ==
    /\ req'[q].pc = "over" /\ req[q].pc # "over"
    /\ req'[q].told = "cancelled" =>
          /\ req[q].pc = "replied" /\ req[q].reply = "cancelled"
          /\ MarkIfLive(req[q].job, "cancelled")
    /\ req'[q].told = "refused" => MarkIfLive(req[q].job, "failed")

RequestStep(q) ==
    \/ req'[q] = req[q]
    \/ /\ req[q] = Idle /\ req'[q] # Idle
       /\ \/ req'[q].pc = "dispatch"
          \/ req'[q].pc = "over" /\ req'[q].told = "not_cancelled"
    \/ /\ req[q] # Idle /\ req'[q] # Idle /\ req'[q].job = req[q].job
       /\ \/ req'[q].pc = "failed"
          \/ req'[q].pc = "call" /\ req'[q].reply = None
          \/ req[q].pc = "call" /\ req'[q].pc = "replied" /\ req'[q].reply = req[q].reply
          \/ /\ req[q].pc = "call" /\ req'[q].pc = "call"
             /\ \E m \in wire : m.call = q /\ Handle(m) /\ req'[q].reply = Verdict(m)
          \/ Over(q)

LEMMA EndsOver ==
    ASSUME TypeOK, NEW q \in Calls, req[q] # Idle, req[q].pc # "over", NEW told,
           Ends(q, told),
           told = "cancelled" => /\ req[q].pc = "replied" /\ req[q].reply = "cancelled"
                                 /\ MarkIfLive(req[q].job, "cancelled"),
           told = "refused" => MarkIfLive(req[q].job, "failed"),
           NEW p \in Calls
    PROVE  RequestStep(p)
<1>1. req'[q] = [pc |-> "over", job |-> req[q].job, told |-> told]
  BY DEF Ends, Goes, TypeOK
<1>2. p # q => req'[p] = req[p]
  BY DEF Ends, Goes, TypeOK
<1>3. /\ req'[q].pc = "over" /\ req'[q].told = told /\ req'[q].job = req[q].job
      /\ req'[q] # Idle
  BY <1>1 DEF Idle
<1> QED BY <1>2, <1>3 DEF RequestStep, Over

LEMMA RequestsStep ==
    ASSUME TypeOK, [Next]_vars, NEW p \in Calls
    PROVE  RequestStep(p)
<1>1. ASSUME NEW q \in Calls, NEW r, Goes(q, r)
      PROVE  req'[q] = r /\ (p # q => req'[p] = req[p])
  BY <1>1 DEF Goes, TypeOK
<1>2. ASSUME NEW q \in Calls, NEW j \in Jobs, Submit(q, j) \/ Cancel(q, j)
      PROVE  RequestStep(p)
  BY <1>1, <1>2 DEF Submit, Cancel, RequestStep, Idle
<1>3. ASSUME NEW q \in Calls, Dispatch(q)
      PROVE  RequestStep(p)
  <2>1. req[q] \in [pc : {"dispatch", "failed"}, op : Ops, job : Jobs] /\ req[q] # Idle
    BY <1>3, Shapes DEF Dispatch, Idle
  <2>2. /\ p # q => req'[p] = req[p]
        /\ \/ req'[q] = [req[q] EXCEPT !.pc = "failed"]
           \/ req'[q] = [pc |-> "call", op |-> req[q].op, job |-> req[q].job, reply |-> None]
    BY <1>1, <1>3 DEF Dispatch
  <2>3. /\ req'[q].job = req[q].job /\ req'[q] # Idle
        /\ req'[q].pc = "failed" \/ (req'[q].pc = "call" /\ req'[q].reply = None)
    BY <2>1, <2>2 DEF Idle
  <2> QED BY <2>1, <2>2, <2>3 DEF RequestStep
<1>4. ASSUME NEW q \in Calls, NEW how \in Hows, Answered(q, how)
      PROVE  RequestStep(p)
  <2>1. /\ req[q] \in [pc : {"call", "replied"}, op : Ops, job : Jobs,
                       reply : Replies \cup {None}]
        /\ req[q] # Idle /\ req[q].pc = "call"
    BY <1>4, Shapes DEF Answered, Idle
  <2>2. /\ p # q => req'[p] = req[p]
        /\ \/ req'[q] = [req[q] EXCEPT !.pc = "replied"]
           \/ req'[q] = [pc |-> "failed", op |-> req[q].op, job |-> req[q].job]
    BY <1>1, <1>4 DEF Answered
  <2>3. /\ req'[q].job = req[q].job /\ req'[q] # Idle
        /\ \/ req'[q].pc = "failed"
           \/ req'[q].pc = "replied" /\ req'[q].reply = req[q].reply
    BY <2>1, <2>2 DEF Idle
  <2> QED BY <2>1, <2>2, <2>3 DEF RequestStep
<1>5. ASSUME NEW q \in Calls, Accepted(q) \/ SubmitFailed(q) \/ CancelFailed(q) \/ HangUp(q)
      PROVE  RequestStep(p)
  <2>1. req[q] # Idle /\ req[q].pc # "over"
    BY <1>5 DEF Accepted, SubmitFailed, CancelFailed, HangUp, Idle
  <2>2. /\ None # "cancelled" /\ None # "refused"
    BY NoneIsNoState DEF Terminal
  <2> QED BY <1>5, <2>1, <2>2, EndsOver DEF Accepted, SubmitFailed, CancelFailed, HangUp
<1>6. ASSUME NEW q \in Calls, CancelReplied(q)
      PROVE  RequestStep(p)
  <2>1. req[q] # Idle /\ req[q].pc # "over" /\ req[q].pc = "replied"
    BY <1>6 DEF CancelReplied, Idle
  <2>2. \/ Ends(q, "not_cancelled")
        \/ /\ Ends(q, "cancelled") /\ req[q].reply = "cancelled"
           /\ MarkIfLive(req[q].job, "cancelled")
    BY <1>6 DEF CancelReplied, CancelsOn
  <2> QED BY <2>1, <2>2, EndsOver
<1>7. ASSUME NEW m \in wire, Handle(m)
      PROVE  RequestStep(p)
  <2>1. m.call \in Calls
    BY DEF TypeOK
  <2>2. CASE req' = req
    BY <2>2 DEF RequestStep
  <2>3. CASE req[m.call].pc = "call" /\ req' = [req EXCEPT ![m.call].reply = Verdict(m)]
    <3>1. req[m.call] \in [pc : {"call", "replied"}, op : Ops, job : Jobs,
                           reply : Replies \cup {None}]
          /\ req[m.call] # Idle
      BY <2>1, <2>3, Shapes DEF Idle
    <3>2. /\ p # m.call => req'[p] = req[p]
          /\ req'[m.call] = [req[m.call] EXCEPT !.reply = Verdict(m)]
      BY <2>1, <2>3 DEF TypeOK
    <3>3. /\ req'[m.call].pc = "call" /\ req'[m.call].reply = Verdict(m)
          /\ req'[m.call].job = req[m.call].job /\ req'[m.call] # Idle
      BY <2>3, <3>1, <3>2 DEF Idle
    <3> HIDE DEF Handle, Verdict
    <3> QED BY <1>7, <2>3, <3>1, <3>2, <3>3 DEF RequestStep
  <2> QED BY <1>7, <2>2, <2>3 DEF Handle
<1>8. CASE req' = req
  BY <1>8 DEF RequestStep
<1> QED BY <1>2, <1>3, <1>4, <1>5, <1>6, <1>7, <1>8
        DEF Next, Door, Ingest, ReadReport, WriteReport, DropReport, ReadUpload, Rename,
            SetAudio, DropUpload, Service, ServiceMoves, SendReport, SendUpload, Bridge,
            Ages, vars, jobVars

LEMMA FramesStep ==
    ASSUME TypeOK, FramesOK, [Next]_vars
    PROVE  FramesOK'
<1>1. \A q \in Calls : req[q] # Idle => req'[q] # Idle /\ req'[q].job = req[q].job
  BY RequestsStep DEF RequestStep
<1>2. ASSUME NEW q \in Calls, Dispatch(q), NEW m \in wire' \ wire
      PROVE  m.call = q /\ m.job = req[q].job /\ req[q] # Idle
  BY <1>2 DEF Dispatch, Idle
<1>3. \A m \in wire : m.call \in Calls
  BY DEF TypeOK
<1>4. CASE \E q \in Calls : Dispatch(q)
  BY <1>1, <1>2, <1>3, <1>4 DEF FramesOK
<1>5. CASE wire' \subseteq wire
  BY <1>1, <1>3, <1>5 DEF FramesOK
<1> QED BY <1>4, <1>5 DEF Next, Door, Submit, Cancel, Answered, Accepted, SubmitFailed,
        CancelReplied, CancelFailed, HangUp, Ingest, ReadReport, WriteReport, DropReport,
        ReadUpload, Rename, SetAudio, DropUpload, Service, Handle, ServiceMoves,
        SendReport, SendUpload, Bridge, Ages, vars, jobVars

\* The service says it cancelled a job in the step that makes it so.
LEMMA CancelledVerdict ==
    ASSUME TypeOK, NEW m \in wire, Handle(m), Verdict(m) = "cancelled"
    PROVE  svc'[m.job] = "cancelled"
<1>1. m.job \in Jobs /\ m.op \in Ops
  BY DEF TypeOK
<1>2. m.op # "podcast.submit" /\ svc[m.job] \in Live
  BY <1>1 DEF Verdict, TypeOK, Live, Terminal
<1> QED BY <1>1, <1>2 DEF Handle, TypeOK

LEMMA RepliesStep ==
    ASSUME TypeOK, SubmitOnce, FramesOK, RepliesOK, [Next]_vars
    PROVE  RepliesOK'
<1> SUFFICES ASSUME NEW q \in Calls, req'[q].pc \in {"call", "replied"},
                    req'[q].reply = "cancelled"
             PROVE  svc'[req'[q].job] = "cancelled"
  BY DEF RepliesOK
<1>1. ASSUME req[q].pc \in {"call", "replied"}, req[q].reply = "cancelled",
             req'[q].job = req[q].job
      PROVE  svc'[req'[q].job] = "cancelled"
  <2>1. req[q].job \in Jobs
    BY <1>1, Shapes DEF Idle
  <2>2. Forward(svc[req[q].job], svc'[req[q].job])
    BY <2>1, ServiceForward
  <2> QED BY <1>1, <2>2 DEF RepliesOK, Forward, Live
<1>2. ASSUME NEW m \in wire, m.call = q, Handle(m), req'[q].reply = Verdict(m),
             req'[q].job = req[q].job
      PROVE  svc'[req'[q].job] = "cancelled"
  <2>1. m.job = req[q].job
    BY <1>2 DEF FramesOK
  <2> QED BY <1>2, <2>1, CancelledVerdict
<1>3. None # "cancelled"
  BY NoneIsNoState DEF Terminal
<1>4. RequestStep(q)
  BY RequestsStep
<1> QED BY <1>1, <1>2, <1>3, <1>4 DEF RequestStep, Over

LEMMA FollowsStep ==
    ASSUME TypeOK, SubmitOnce, ReportsOK, RepliesOK, RowFollowsService, [Next]_vars
    PROVE  RowFollowsService'
<1> SUFFICES ASSUME NEW j \in Jobs
             PROVE  /\ row'[j].state \in {"done", "cancelled"} => svc'[j] = row'[j].state
                    /\ row'[j].state = "running" => svc'[j] \notin {"none", "queued"}
  BY DEF RowFollowsService
<1>1. RowStep(j) /\ Forward(svc[j], svc'[j]) /\ (svc' = svc \/ row' = row)
  BY RowForward, ServiceForward
<1> QED BY <1>1 DEF RowFollowsService, RowStep, Forward, Live, Terminal

LEMMA VerdictsStep ==
    ASSUME TypeOK, SubmitOnce, ReportsOK, RepliesOK, RowFollowsService, VerdictsEndTheJob,
           [Next]_vars
    PROVE  VerdictsEndTheJob'
<1> SUFFICES ASSUME NEW q \in Calls, req'[q].pc = "over"
             PROVE  /\ req'[q].told = "cancelled" =>
                          /\ svc'[req'[q].job] = "cancelled"
                          /\ row'[req'[q].job].state \in Terminal \ {"done"}
                    /\ req'[q].told = "refused" => row'[req'[q].job].state \in Terminal
  BY DEF VerdictsEndTheJob
<1>0. ASSUME NEW j \in Jobs, svc[j] = "cancelled"
      PROVE  svc'[j] = "cancelled"
  BY <1>0, ServiceForward DEF Forward, Live
<1>1. ASSUME NEW j \in Jobs
      PROVE  /\ row[j].state \in Terminal => row'[j].state = row[j].state
             /\ Stored(j) => Stored(j)'
  BY RowForward, RowStays
<1>2. ASSUME NEW j \in Jobs, NEW state \in Terminal, MarkIfLive(j, state), Stored(j)
      PROVE  row'[j].state \in {row[j].state, state} /\ row'[j].state \in Terminal
  <2>1. row[j].state \in Live \cup Terminal
    BY <1>2 DEF TypeOK, JobRow, Stored
  <2>2. CASE IsLive(j)
    <3>1. row' = [row EXCEPT ![j] = [row[j] EXCEPT !.state = state, !.old = FALSE]]
      BY <1>2, <2>2 DEF MarkIfLive, Moves
    <3>2. row'[j] = [row[j] EXCEPT !.state = state, !.old = FALSE]
      BY <3>1 DEF TypeOK
    <3>3. row'[j].state = state
      BY <3>2 DEF TypeOK, JobRow
    <3> QED BY <3>3
  <2>3. CASE ~IsLive(j)
    BY <1>2, <2>1, <2>3 DEF MarkIfLive, IsLive
  <2> QED BY <2>2, <2>3
<1>3. CASE req'[q] = req[q]
  <2>1. req[q].job \in Jobs
    BY <1>3, Shapes DEF Idle
  <2> QED BY <1>0, <1>1, <1>3, <2>1 DEF VerdictsEndTheJob, Terminal
<1>4. CASE req'[q].told = "not_cancelled"
  BY <1>4
<1>5. CASE req[q] # Idle /\ req'[q].job = req[q].job /\ Over(q)
  <2>1. req[q].job \in Jobs /\ Stored(req[q].job)
    BY <1>5, Shapes DEF SubmitOnce
  <2>2. {"failed", "cancelled"} \subseteq Terminal
    BY DEF Terminal
  <2>3. ASSUME req'[q].told = "refused"
        PROVE  row'[req'[q].job].state \in Terminal
    BY <1>2, <1>5, <2>1, <2>2, <2>3 DEF Over
  <2>4. ASSUME req'[q].told = "cancelled"
        PROVE  /\ svc'[req'[q].job] = "cancelled"
               /\ row'[req'[q].job].state \in Terminal \ {"done"}
    <3>1. svc[req[q].job] = "cancelled"
      BY <1>5, <2>4 DEF Over, RepliesOK
    <3>2. row[req[q].job].state # "done"
      BY <2>1, <3>1 DEF RowFollowsService
    <3>3. /\ row'[req[q].job].state \in {row[req[q].job].state, "cancelled"}
          /\ row'[req[q].job].state \in Terminal
      BY <1>2, <1>5, <2>1, <2>2, <2>4 DEF Over
    <3> QED BY <1>0, <1>5, <2>1, <3>1, <3>2, <3>3 DEF Terminal
  <2> QED BY <2>3, <2>4
<1>6. RequestStep(q)
  BY RequestsStep
<1> QED BY <1>3, <1>4, <1>5, <1>6 DEF RequestStep

LEMMA InvStep == Inv /\ [Next]_vars => Inv'
  BY TypeStep, LeasesStep, SubmitOnceStep, ReportsStep, FramesStep, RepliesStep,
     FollowsStep, VerdictsStep DEF Inv

LEMMA InvInit == Init => Inv
<1> SUFFICES ASSUME Init PROVE Inv
  OBVIOUS
<1>1. TypeOK
  BY TypeInit
<1>2. LeasesOK
  BY DEF Init, BridgeInit, LeasesOK, Idle
<1>3. SubmitOnce /\ FramesOK
  BY DEF Init, SubmitOnce, SubmitFrames, Submitting, FramesOK, Idle
<1>4. ReportsOK /\ RepliesOK
  BY DEF Init, ReportsOK, RepliesOK, Idle
<1>5. RowFollowsService /\ VerdictsEndTheJob
  BY NoneIsNoState DEF Init, RowFollowsService, VerdictsEndTheJob, Idle, Live, Terminal
<1> QED BY <1>1, <1>2, <1>3, <1>4, <1>5 DEF Inv

LEMMA InvAlways == Spec => []Inv
  BY InvInit, InvStep, PTL DEF Spec

\* The row never runs ahead of the service, however a cancel races the service's
\* reports, and reports each other, for any number of jobs (cancel, report,
\* set_cancelled).
THEOREM FollowsSafe == Spec => []RowFollowsService
<1>1. Inv => RowFollowsService
  BY DEF Inv
<1> QED BY <1>1, InvAlways, PTL

\* A cancel that answered true stopped the service's work for good and left a row
\* that finished without an episode, a submit that answered an error left one
\* that finished, for any number of jobs, calls and reports (submit, cancel,
\* mark_cancelled, mark_failed).
THEOREM VerdictsSafe == Spec => []VerdictsEndTheJob
<1>1. Inv => VerdictsEndTheJob
  BY DEF Inv
<1> QED BY <1>1, InvAlways, PTL

-----------------------------------------------------------------------------
(* The rows implement AsyncAnswer. *)

\* A step changes the state of one job's row at most.
LEMMA OneRow ==
    ASSUME TypeOK, [Next]_vars, NEW i \in Jobs, NEW j \in Jobs,
           row'[i].state # row[i].state, row'[j].state # row[j].state
    PROVE  i = j
<1>1. ASSUME NEW k \in Jobs, NEW r, row' = [row EXCEPT ![k] = r]
      PROVE  i = j
  BY <1>1 DEF TypeOK
<1>2. ASSUME NEW k \in Jobs, NEW state, Moves(k, state) \/ MarkIfLive(k, state)
      PROVE  i = j
  <2>1. row' = row \/ row' = [row EXCEPT ![k] = [row[k] EXCEPT !.state = state, !.old = FALSE]]
    BY <1>2 DEF Moves, MarkIfLive
  <2> QED BY <1>1, <2>1
<1>3. ASSUME NEW q \in Calls, Accepted(q)
      PROVE  i = j
  <2>1. req[q].job \in Jobs
    BY <1>3, Shapes DEF Accepted, Idle
  <2>2. PICK old : row' = [row EXCEPT ![req[q].job].old = old]
    BY <1>3 DEF Accepted
  <2>3. row' = [row EXCEPT ![req[q].job] = [row[req[q].job] EXCEPT !.old = old]]
    BY <2>2
  <2> QED BY <1>1, <2>1, <2>3
<1>4. ASSUME NEW q \in Calls, SubmitFailed(q) \/ CancelReplied(q)
      PROVE  i = j
  <2>1. req[q].job \in Jobs
    BY <1>4, Shapes DEF SubmitFailed, CancelReplied, Idle
  <2> QED BY <1>2, <1>4, <2>1 DEF SubmitFailed, CancelReplied
<1>5. ASSUME NEW r \in Reports, WriteReport(r)
      PROVE  i = j
  <2>1. report[r].job \in Jobs
    BY <1>5, ReportShapes DEF WriteReport, Idle
  <2> QED BY <1>2, <1>5, <2>1 DEF WriteReport
<1>6. ASSUME NEW u \in Uploads, SetAudio(u)
      PROVE  i = j
  <2>1. upload[u].job \in Jobs
    BY <1>6, UploadShapes DEF SetAudio
  <2> QED BY <1>1, <1>6, <2>1 DEF SetAudio
<1>7. ASSUME NEW k \in Jobs, Ages(k)
      PROVE  i = j
  BY <1>7, <1>1 DEF Ages
<1>8. ASSUME NEW q \in Calls, NEW k \in Jobs, Submit(q, k)
      PROVE  i = j
  BY <1>8, <1>1 DEF Submit
<1>9. row' # row
  OBVIOUS
<1> QED BY <1>3, <1>4, <1>5, <1>6, <1>7, <1>8, <1>9
        DEF Next, Door, Cancel, Dispatch, Answered, CancelFailed, HangUp, Ingest,
            ReadReport, DropReport, ReadUpload, Rename, DropUpload, Service, Handle,
            ServiceMoves, SendReport, SendUpload, Bridge, vars, jobVars

\* What a row's state says of its answer.
LEMMA AnswerShapes ==
    ASSUME NEW j \in Jobs
    PROVE  /\ row[j].state = None => AnswerOf(j) = "none"
           /\ row[j].state \in Live => AnswerOf(j) = "owed"
           /\ row[j].state = "done" => AnswerOf(j) = "kept"
           /\ row[j].state \in {"failed", "cancelled"} => AnswerOf(j) = "broken"
           /\ row'[j].state = row[j].state => AnswerOf(j)' = AnswerOf(j)
           /\ row'[j].state \in Live => AnswerOf(j)' = "owed"
           /\ row'[j].state = "done" => AnswerOf(j)' = "kept"
           /\ row'[j].state \in {"failed", "cancelled"} => AnswerOf(j)' = "broken"
  BY NoneIsNoState DEF AnswerOf, Live, Terminal

LEMMA RowsImplement ==
    ASSUME Inv, [Next]_vars
    PROVE  [Promise!Next]_([j \in Jobs |-> AnswerOf(j)])
<1> DEFINE answers == [j \in Jobs |-> AnswerOf(j)]
<1>1. CASE \A j \in Jobs : row'[j].state = row[j].state
  <2>1. answers' = answers
    BY <1>1, AnswerShapes
  <2> QED BY <2>1
<1>2. ASSUME NEW i \in Jobs, row'[i].state # row[i].state
      PROVE  [Promise!Next]_answers
  <2>1. \A j \in Jobs \ {i} : AnswerOf(j)' = AnswerOf(j)
    BY <1>2, OneRow, AnswerShapes DEF Inv
  <2>2. answers' = [answers EXCEPT ![i] = AnswerOf(i)']
    BY <2>1
  <2>3. RowStep(i)
    BY RowForward DEF Inv
  <2>4. \/ AnswerOf(i) = "none" /\ AnswerOf(i)' = "owed"
        \/ AnswerOf(i) = "owed" /\ AnswerOf(i)' \in {"owed", "kept", "broken"}
    BY <1>2, <2>3, AnswerShapes DEF RowStep, Live, Terminal
  <2>5. answers[i] = AnswerOf(i)
    OBVIOUS
  <2>6. CASE AnswerOf(i) = "none" /\ AnswerOf(i)' = "owed"
    <3>1. Promise!Accept(i)
      BY <2>2, <2>5, <2>6 DEF Promise!Accept
    <3> QED BY <3>1 DEF Promise!Next
  <2>7. CASE AnswerOf(i) = "owed" /\ AnswerOf(i)' = "owed"
    <3>1. answers' = answers
      BY <2>2, <2>5, <2>7
    <3> QED BY <3>1
  <2>8. CASE AnswerOf(i) = "owed" /\ AnswerOf(i)' = "kept"
    <3>1. Promise!Keep(i)
      BY <2>2, <2>5, <2>8 DEF Promise!Keep
    <3> QED BY <3>1 DEF Promise!Next
  <2>9. CASE AnswerOf(i) = "owed" /\ AnswerOf(i)' = "broken"
    <3>1. Promise!Break({i})
      BY <2>2, <2>5, <2>9 DEF Promise!Break
    <3>2. {i} \in SUBSET Jobs
      OBVIOUS
    <3> QED BY <3>1, <3>2 DEF Promise!Next
  <2> QED BY <2>4, <2>6, <2>7, <2>8, <2>9
<1> QED BY <1>1, <1>2

\* A finished job stays as it finished, whatever arrives afterwards: the rows
\* implement AsyncAnswer for any number of jobs, reports, cancels and timeouts
\* (report's condition, set_cancelled, set_failed).
THEOREM JobsRefine == Spec => JobsSettleOnce
<1>1. Init => Promise!Init
  <2>1. ASSUME Init, NEW j \in Jobs PROVE AnswerOf(j) = "none"
    BY <2>1, AnswerShapes DEF Init
  <2> QED BY <2>1 DEF Promise!Init
<1>2. Inv /\ [Next]_vars => [Promise!Next]_([j \in Jobs |-> AnswerOf(j)])
  BY RowsImplement
<1> QED BY <1>1, <1>2, InvAlways, PTL DEF Spec, JobsSettleOnce, Promise!Spec

=============================================================================
