---------------------------- MODULE PodcastJobs -----------------------------
(***************************************************************************)
(* Podcast jobs over the AI bridge.  The backend writes a row, hands the   *)
(* job to the service and is told of it afterwards by the service's own    *)
(* calls: reports of the job's state and an upload of the episode.  A      *)
(* frame handed to the service may be acted on after the caller gave up on *)
(* it; a report may be late, repeated or refused.                          *)
(*                                                                         *)
(* The service is external: it keeps a record of its own per job, which    *)
(* moves the way can_transition_to says, and echoes what it was given.     *)
(* Left out: the note's attachments, format, transcript, sources, stage,   *)
(* progress; whose job it is; the episode's file, which no statement reads *)
(* back to decide.  No row is ever deleted.                                *)
(***************************************************************************)
EXTENDS AiBridge

CONSTANTS
    Jobs,      \* jobs ever submitted
    Reports,   \* podcast.report calls under way at once
    Uploads    \* episode uploads under way at once

VARIABLES
    row,     \* per job: its state, whether it names audio, whether updated_at is
             \* so long ago that a live row is stale and a finished one expired
    req,     \* per call, the HTTP request that makes it
    wire,    \* frames the service has not looked at
    svc,     \* per job, the service's own record
    report,  \* per report, where it is suspended
    upload   \* per upload, the same

jobVars == <<row, req, wire, svc, report, upload>>
vars == <<bridgeVars, jobVars>>

Live == {"queued", "running"}
Terminal == {"done", "failed", "cancelled"}   \* is_terminal
Replies == {"accepted", "cancelled", "not_cancelled", "not_found"}

ASSUME NoneIsNoState == None \notin Live \cup Terminal \cup Replies \cup {"refused"}

Stored(j) == row[j].state # None

Idle == [pc |-> "idle"]
Goes(q, r) == req' = [req EXCEPT ![q] = r]
Ends(q, told) == Goes(q, [pc |-> "over", job |-> req[q].job, told |-> told])

\* can_transition_to, the identity included.
CanTransitionTo(from, to) ==
    \/ from = to
    \/ from = "queued" /\ to \in {"running", "cancelled", "failed"}
    \/ from = "running" /\ to \in {"done", "failed", "cancelled"}

\* projected: a live row nobody has updated in its window shows as failed.
Shown(j) == IF row[j].state \in Live /\ row[j].old THEN "failed" ELSE row[j].state

\* is_expired.
Expired(j) == row[j].state \in Terminal /\ row[j].old

\* A write of the state also stamps updated_at.
Moves(j, state) ==
    row' = [row EXCEPT ![j] = [@ EXCEPT !.state = state, !.old = FALSE]]

-----------------------------------------------------------------------------
(* POST /podcast/jobs *)

\* The gate, then the row, before the dispatch.
Submit(q, j) ==
    /\ req[q] = Idle /\ ~Stored(j)
    /\ HasCapability("podcast.submit")
    /\ row' = [row EXCEPT ![j] = [state |-> "queued", audio |-> FALSE, old |-> FALSE]]
    /\ Goes(q, [pc |-> "dispatch", op |-> "podcast.submit", job |-> j])
    /\ UNCHANGED bridgeVars
    /\ UNCHANGED <<wire, svc, report, upload>>

(* POST /podcast/jobs/{id}/cancel *)

\* owned: an expired job is a 410.  A finished one is answered from the row.
Cancel(q, j) ==
    /\ req[q] = Idle /\ Stored(j) /\ ~Expired(j)
    /\ \/ /\ Shown(j) \in Terminal
          /\ Goes(q, [pc |-> "over", job |-> j, told |-> "not_cancelled"])
       \/ /\ Shown(j) \in Live /\ HasCapability("podcast.cancel")
          /\ Goes(q, [pc |-> "dispatch", op |-> "podcast.cancel", job |-> j])
    /\ UNCHANGED bridgeVars
    /\ UNCHANGED <<row, wire, svc, report, upload>>

\* dispatch: a worker is leased and the frame is out, or nobody is.
Dispatch(q) ==
    /\ req[q].pc = "dispatch"
    /\ \/ /\ NobodyPicked(req[q].op)
          /\ Goes(q, [req[q] EXCEPT !.pc = "failed"])
          /\ UNCHANGED <<bridgeVars, wire>>
       \/ \E w \in Ids :
             /\ Picks(w, req[q].op) /\ TakeLease(q, w)
             /\ Goes(q, [pc |-> "call", op |-> req[q].op, job |-> req[q].job,
                         reply |-> None])
             /\ wire' = wire \cup {[call |-> q, op |-> req[q].op, job |-> req[q].job]}
    /\ UNCHANGED <<row, svc, report, upload>>

\* The round trip ends; only a reply carries a verdict.
Answered(q, how) ==
    /\ req[q].pc = "call" /\ MayEnd(q, how)
    /\ how = "reply" => req[q].reply # None
    /\ EndCall(q, req[q].op, how)
    /\ Goes(q, IF how = "reply"
               THEN [req[q] EXCEPT !.pc = "replied"]
               ELSE [pc |-> "failed", op |-> req[q].op, job |-> req[q].job])
    /\ UNCHANGED <<row, wire, svc, report, upload>>

\* Variant: only a row nobody has run yet is moved.
IsLiveQueued(j) == row[j].state = "queued"

\* set_cancelled and set_failed move a live row, and nothing else.
IsLive(j) == row[j].state \in Live

MarkIfLive(j, state) == IF IsLive(j) THEN Moves(j, state) ELSE UNCHANGED row

\* The service took it: set_eta, which may widen the window.
Accepted(q) ==
    /\ req[q].pc = "replied" /\ req[q].op = "podcast.submit"
    /\ \E old \in {row[req[q].job].old, row[req[q].job].old /\ ~IsLive(req[q].job)} :
          row' = [row EXCEPT ![req[q].job].old = old]
    /\ Ends(q, "accepted")
    /\ UNCHANGED bridgeVars
    /\ UNCHANGED <<wire, svc, report, upload>>

\* It did not, or nobody knows: mark_failed.
SubmitFailed(q) ==
    /\ req[q].pc = "failed" /\ req[q].op = "podcast.submit"
    /\ MarkIfLive(req[q].job, "failed")
    /\ Ends(q, "refused")
    /\ UNCHANGED bridgeVars
    /\ UNCHANGED <<wire, svc, report, upload>>

\* Variant: any verdict of the service moves the row.
CancelsOnAnyVerdict(reply) == reply \in {"cancelled", "not_cancelled"}

\* reply.cancelled
CancelsOn(reply) == reply = "cancelled"

\* The service's verdict on a cancel; a job it never heard of cannot finish.
CancelReplied(q) ==
    /\ req[q].pc = "replied" /\ req[q].op = "podcast.cancel"
    /\ LET j == req[q].job  reply == req[q].reply
       IN \/ CancelsOn(reply) /\ MarkIfLive(j, "cancelled") /\ Ends(q, "cancelled")
          \/ /\ ~CancelsOn(reply) /\ reply = "not_cancelled"
             /\ UNCHANGED row /\ Ends(q, "not_cancelled")
          \/ reply = "not_found" /\ MarkIfLive(j, "failed") /\ Ends(q, "not_cancelled")
    /\ UNCHANGED bridgeVars
    /\ UNCHANGED <<wire, svc, report, upload>>

\* A cancel that reached nobody changes nothing.
CancelFailed(q) ==
    /\ req[q].pc = "failed" /\ req[q].op = "podcast.cancel"
    /\ Ends(q, "error")
    /\ UNCHANGED bridgeVars
    /\ UNCHANGED <<row, wire, svc, report, upload>>

\* The client hangs up: the handler and its lease are dropped where they stand.
HangUp(q) ==
    /\ req[q].pc \in {"dispatch", "call", "replied", "failed"}
    /\ Ends(q, None)
    /\ IF req[q].pc = "call" THEN EndCall(q, req[q].op, "timeout")
       ELSE UNCHANGED bridgeVars
    /\ UNCHANGED <<row, wire, svc, report, upload>>

-----------------------------------------------------------------------------
(* podcast.report *)

Answers(r, p) == report' = [report EXCEPT ![r] = p]

\* The reads of a report: refused, or on to its write.
ReadReport(r) ==
    /\ report[r].pc = "sent"
    /\ LET j == report[r].job  to == report[r].to
       IN Answers(r,
            IF /\ Stored(j) /\ ~Expired(j)
               /\ CanTransitionTo(row[j].state, to)
               /\ to = "done" => row[j].audio
            THEN [pc |-> "write", job |-> j, to |-> to, from |-> row[j].state]
            ELSE Idle)
    /\ UNCHANGED bridgeVars
    /\ UNCHANGED <<row, req, wire, svc, upload>>

\* Variant: the row is written whatever it has become.
StillFromAny(r) == TRUE

\* The statement's condition: the state the checks were made on.
StillFrom(r) == row[report[r].job].state = report[r].from

WriteReport(r) ==
    /\ report[r].pc = "write"
    /\ IF StillFrom(r) THEN Moves(report[r].job, report[r].to) ELSE UNCHANGED row
    /\ Answers(r, Idle)
    /\ UNCHANGED bridgeVars
    /\ UNCHANGED <<req, wire, svc, upload>>

\* serve_capability's deadline, or the process, ends it unwritten.
DropReport(r) ==
    /\ report[r].pc # "idle"
    /\ Answers(r, Idle)
    /\ UNCHANGED bridgeVars
    /\ UNCHANGED <<row, req, wire, svc, upload>>

-----------------------------------------------------------------------------
(* The upload *)

Takes(u, p) == upload' = [upload EXCEPT ![u] = p]

\* The job is read before a byte is.
ReadUpload(u) ==
    /\ upload[u].pc = "sent"
    /\ Takes(u, IF Stored(upload[u].job) /\ ~Expired(upload[u].job)
                THEN [upload[u] EXCEPT !.pc = "bytes"] ELSE Idle)
    /\ UNCHANGED bridgeVars
    /\ UNCHANGED <<row, req, wire, svc, report>>

\* All of them arrived: the temp file is renamed into place.
Rename(u) ==
    /\ upload[u].pc = "bytes"
    /\ Takes(u, [upload[u] EXCEPT !.pc = "stamp"])
    /\ UNCHANGED bridgeVars
    /\ UNCHANGED <<row, req, wire, svc, report>>

\* set_audio, or the store refuses it and the file is taken out again.
SetAudio(u) ==
    /\ upload[u].pc = "stamp"
    /\ \/ row' = [row EXCEPT ![upload[u].job] =
                     [@ EXCEPT !.audio = TRUE, !.old = FALSE]]
       \/ UNCHANGED row
    /\ Takes(u, Idle)
    /\ UNCHANGED bridgeVars
    /\ UNCHANGED <<req, wire, svc, report>>

\* The stream ends early, or the process does; a temp file nobody names.
DropUpload(u) ==
    /\ upload[u].pc # "idle"
    /\ Takes(u, Idle)
    /\ UNCHANGED bridgeVars
    /\ UNCHANGED <<row, req, wire, svc, report>>

-----------------------------------------------------------------------------
(* The service, and the clock *)

Verdict(m) ==
    CASE m.op = "podcast.submit" -> "accepted"
      [] m.op # "podcast.submit" /\ svc[m.job] \in {"none", "wiped"} -> "not_found"
      [] m.op # "podcast.submit" /\ svc[m.job] \in Live -> "cancelled"
      [] OTHER -> "not_cancelled"

\* It looks at a frame, perhaps after its caller has gone: its record moves and
\* it answers a caller that is still there.
Handle(m) ==
    /\ m \in wire /\ wire' = wire \ {m}
    /\ svc' = [svc EXCEPT ![m.job] =
           IF m.op = "podcast.submit" THEN "queued"
           ELSE IF @ \in Live THEN "cancelled" ELSE @]
    /\ req' = IF req[m.call].pc = "call"
              THEN [req EXCEPT ![m.call].reply = Verdict(m)] ELSE req
    /\ UNCHANGED bridgeVars
    /\ UNCHANGED <<row, report, upload>>

\* It works on the job, or loses it with its store.
ServiceMoves(j, to) ==
    /\ svc[j] \in Live
    /\ \/ to = "wiped"
       \/ CanTransitionTo(svc[j], to) /\ to \notin {svc[j], "cancelled"}
    /\ svc' = [svc EXCEPT ![j] = to]
    /\ UNCHANGED bridgeVars
    /\ UNCHANGED <<row, req, wire, report, upload>>

\* Its calls come in over a worker's connection.
Connected == \E w \in Ids : worker[w].status = "live"

\* It reports where the job is, as often as it likes.
SendReport(r, j) ==
    /\ report[r] = Idle /\ Connected /\ svc[j] \in Live \cup Terminal
    /\ Answers(r, [pc |-> "sent", job |-> j, to |-> svc[j]])
    /\ UNCHANGED bridgeVars
    /\ UNCHANGED <<row, req, wire, svc, upload>>

\* It sends the episode, or sends it again.
SendUpload(u, j) ==
    /\ upload[u] = Idle /\ Connected /\ svc[j] \in {"running", "done"}
    /\ Takes(u, [pc |-> "sent", job |-> j])
    /\ UNCHANGED bridgeVars
    /\ UNCHANGED <<row, req, wire, svc, report>>

\* The window of a live row, or the retention of a finished one, is over.
Ages(j) ==
    /\ Stored(j) /\ ~row[j].old
    /\ row' = [row EXCEPT ![j].old = TRUE]
    /\ UNCHANGED bridgeVars
    /\ UNCHANGED <<req, wire, svc, report, upload>>

Init ==
    /\ BridgeInit
    /\ row = [j \in Jobs |-> [state |-> None, audio |-> FALSE, old |-> FALSE]]
    /\ req = [q \in Calls |-> Idle]
    /\ wire = {}
    /\ svc = [j \in Jobs |-> "none"]
    /\ report = [r \in Reports |-> Idle]
    /\ upload = [u \in Uploads |-> Idle]

Hows == {"reply", "error", "refused", "mismatch", "transport", "timeout"}

Door(q) ==
    \/ \E j \in Jobs : Submit(q, j) \/ Cancel(q, j)
    \/ Dispatch(q) \/ \E how \in Hows : Answered(q, how)
    \/ Accepted(q) \/ SubmitFailed(q) \/ CancelReplied(q) \/ CancelFailed(q)
    \/ HangUp(q)

Ingest ==
    \/ \E r \in Reports : ReadReport(r) \/ WriteReport(r) \/ DropReport(r)
    \/ \E u \in Uploads : ReadUpload(u) \/ Rename(u) \/ SetAudio(u) \/ DropUpload(u)

Service ==
    \/ \E m \in wire : Handle(m)
    \/ \E j \in Jobs :
          \/ \E to \in {"running", "wiped"} \cup Terminal : ServiceMoves(j, to)
          \/ \E r \in Reports : SendReport(r, j)
          \/ \E u \in Uploads : SendUpload(u, j)

Bridge == (Register \/ \E w \in Ids : Vanish(w) \/ Remove(w)) /\ UNCHANGED jobVars

Next ==
    \/ \E q \in Calls : Door(q)
    \/ Ingest \/ Service \/ Bridge
    \/ \E j \in Jobs : Ages(j)

Spec == Init /\ [][Next]_vars

-----------------------------------------------------------------------------
Ops == {"podcast.submit", "podcast.cancel"}

\* A request has a reply from its round trip on, and a verdict at its end.
Request ==
    {Idle}
    \cup [pc : {"dispatch", "failed"}, op : Ops, job : Jobs]
    \cup [pc : {"call", "replied"}, op : Ops, job : Jobs, reply : Replies \cup {None}]
    \cup [pc : {"over"}, job : Jobs,
          told : {"accepted", "refused", "cancelled", "not_cancelled", "error", None}]

JobRow == [state : Live \cup Terminal \cup {None}, audio : BOOLEAN, old : BOOLEAN]

Report ==
    {Idle}
    \cup [pc : {"sent"}, job : Jobs, to : Live \cup Terminal]
    \cup [pc : {"write"}, job : Jobs, to : Live \cup Terminal, from : Live \cup Terminal]

\* Every variable keeps its shape; what a request, a report or an upload knows
\* follows from where it is suspended.
TypeOK ==
    /\ BridgeTypeOK
    /\ row \in [Jobs -> JobRow]
    /\ req \in [Calls -> Request]
    /\ wire \subseteq [call : Calls, op : Ops, job : Jobs]
    /\ svc \in [Jobs -> Live \cup Terminal \cup {"none", "wiped"}]
    /\ report \in [Reports -> Report]
    /\ upload \in [Uploads -> {Idle} \cup [pc : {"sent", "bytes", "stamp"}, job : Jobs]]

\* The row never runs ahead of the service: a row called cancelled or done is a
\* job the service cancelled or finished, though a cancel races its terminal
\* report (cancel, report, set_cancelled).
RowFollowsService ==
    \A j \in Jobs :
        /\ row[j].state \in {"done", "cancelled"} => svc[j] = row[j].state
        /\ row[j].state = "running" => svc[j] \notin {"none", "queued"}

\* A verdict that a job is over is true: a cancel that answered true stopped the
\* service's work for good and left a row that finished without an episode, and
\* a submit that answered an error left one that finished, not queued forever
\* (submit, cancel, mark_cancelled, mark_failed).  The row need not be cancelled:
\* cancel drops what mark_cancelled says of a row that was no longer live.
VerdictsEndTheJob ==
    \A q \in Calls : req[q].pc = "over" =>
        LET j == req[q].job
        IN /\ req[q].told = "cancelled" =>
                 svc[j] = "cancelled" /\ row[j].state \in Terminal \ {"done"}
           /\ req[q].told = "refused" => row[j].state \in Terminal

\* A finished job stays as it finished, though late and repeated reports, cancels
\* and timeouts go on arriving: the rows implement AsyncAnswer (report's
\* condition, set_cancelled, set_failed).
AnswerOf(j) ==
    CASE row[j].state = None -> "none"
      [] row[j].state \in Live -> "owed"
      [] row[j].state = "done" -> "kept"
      [] OTHER -> "broken"
Promise == INSTANCE AsyncAnswer WITH
    Requests <- Jobs, answer <- [j \in Jobs |-> AnswerOf(j)]
JobsSettleOnce == Promise!Spec
=============================================================================
