------------------------------ MODULE AiTurns -------------------------------
(***************************************************************************)
(* The two chat nests over the AI bridge.  A POST writes the question and  *)
(* an empty pending answer, each through its thread's row, answers 202 and *)
(* leaves a task behind; the task asks a worker and settles the answer.    *)
(* Readers poll the row or watch it as a stream, and see a row that stayed *)
(* pending past the horizon as failed; a boot stamps that verdict.         *)
(*                                                                         *)
(* The chatbot's and the RAG nest's code are twins over tables of their    *)
(* own, but for what a thread's delete does to a turn that slipped in      *)
(* behind its sweep: the one table refuses it, the other cascades.         *)
(*                                                                         *)
(* One school, one user.  Titles, rate limits, the replayed history,       *)
(* citations and the text itself are left out: an answer is the turn whose *)
(* question it answers.                                                    *)
(***************************************************************************)
EXTENDS AiBridge

CONSTANTS
    Threads,     \* thread ids, of either table
    Turns,       \* POSTs of a message
    Streams,     \* SSE streams
    MaxThreads,  \* max_chatbot_threads
    MaxBoots     \* bound: restarts of the process

ASSUME TurnsAssumption ==
    /\ MaxThreads \in Nat /\ MaxBoots \in Nat
    /\ Turns = Calls /\ IsFiniteSet(Threads)

VARIABLES
    thread,   \* per id, the table its row is in and whether it still is
    seats,    \* the user's two thread counters
    msg,      \* per turn, its question row and its answer row
    turn,     \* per turn, where its request or its task is suspended
    sweep,    \* per thread, the rows an open delete has taken
    stream,   \* per stream, the turn it watches
    boots     \* restarts so far

turnVars == <<thread, seats, msg, turn, sweep, stream, boots>>
vars == <<bridgeVars, turnVars>>

Nests == {"chat", "rag"}
Statuses == {"pending", "complete", "failed"}

ASSUME NoneIsNoValue == None \notin Nests \cup Statuses \cup Turns

CapabilityOf(th) == IF thread[th].nest = "chat" THEN "chat.reply" ELSE "rag.chat"
There(th) == thread[th].there
Of(nest) == {th \in Threads : thread[th].nest = nest}

\* A thread's rows: a turn has one for its question and one for its answer.
Questions(th) == {t \in Turns : msg[t].thread = th /\ msg[t].question}
Answers(th) == {t \in Turns : msg[t].thread = th /\ msg[t].status # None}
RowsOf(th) ==
    (Questions(th) \X {"question"}) \cup (Answers(th) \X {"answer"})

NoRow == [thread |-> None, question |-> FALSE, status |-> None, text |-> None,
          stale |-> FALSE]
Over == [pc |-> "over"]
\* What a restart leaves of a turn, and a handler dropped before it spawned.
Lost == [pc |-> "lost"]

-----------------------------------------------------------------------------
(* Threads. *)

\* create_capped: the seat and the row are one statement.
CreateThread(th, nest) ==
    /\ thread[th].nest = None
    /\ seats[nest] < MaxThreads
    /\ seats' = [seats EXCEPT ![nest] = @ + 1]
    /\ thread' = [thread EXCEPT ![th] = [nest |-> nest, there |-> TRUE]]
    /\ UNCHANGED bridgeVars
    /\ UNCHANGED <<msg, turn, sweep, stream, boots>>

\* delete, its first statement: the rows it can see.
SweepTurns(th) ==
    /\ There(th) /\ sweep[th] = None
    /\ sweep' = [sweep EXCEPT ![th] = RowsOf(th)]
    /\ UNCHANGED bridgeVars
    /\ UNCHANGED <<thread, seats, msg, turn, stream, boots>>

\* Variant: no foreign key looks after a row behind the sweep.
StrandedFree(th) == {}

\* A row inserted behind the sweep keeps the foreign key of its thread.
Stranded(th) == RowsOf(th) \ sweep[th]

\* What is left of a turn when some rows are gone.
Without(t, gone) ==
    LET answer == IF <<t, "answer">> \in gone
                  THEN [msg[t] EXCEPT !.status = None, !.text = None, !.stale = FALSE]
                  ELSE msg[t]
    IN IF <<t, "question">> \in gone THEN [answer EXCEPT !.question = FALSE] ELSE answer

TakesThread(th, gone) ==
    /\ thread' = [thread EXCEPT ![th].there = FALSE]
    /\ seats' = [seats EXCEPT ![thread[th].nest] = IF @ > 0 THEN @ - 1 ELSE 0]
    /\ msg' = [t \in Turns |-> Without(t, gone)]

\* The chatbot's delete, its second statement and commit: a stranded row
\* refuses it, and all of it is rolled back.
DeleteChat(th) ==
    /\ thread[th].nest = "chat" /\ sweep[th] # None
    /\ IF Stranded(th) = {} THEN TakesThread(th, sweep[th])
       ELSE UNCHANGED <<thread, seats, msg>>
    /\ sweep' = [sweep EXCEPT ![th] = None]
    /\ UNCHANGED bridgeVars
    /\ UNCHANGED <<turn, stream, boots>>

\* The RAG nest's: the delete cascades to it.
DeleteRag(th) ==
    /\ thread[th].nest = "rag" /\ sweep[th] # None
    /\ TakesThread(th, sweep[th] \cup Stranded(th))
    /\ sweep' = [sweep EXCEPT ![th] = None]
    /\ UNCHANGED bridgeVars
    /\ UNCHANGED <<turn, stream, boots>>

-----------------------------------------------------------------------------
(* The POST. *)

Goes(t, q) == turn' = [turn EXCEPT ![t] = q]
Asks(t, th) == Goes(t, [pc |-> "question", thread |-> th])

\* send_message: the thread, and a worker that offers the capability, are read
\* before anything is written.
SendChat(t, th) ==
    /\ turn[t].pc = "new" /\ thread[th].nest = "chat" /\ There(th)
    /\ HasCapability(CapabilityOf(th))
    /\ Asks(t, th)
    /\ UNCHANGED bridgeVars
    /\ UNCHANGED <<thread, seats, msg, sweep, stream, boots>>

SendRag(t, th) ==
    /\ turn[t].pc = "new" /\ thread[th].nest = "rag" /\ There(th)
    /\ HasCapability(CapabilityOf(th))
    /\ Asks(t, th)
    /\ UNCHANGED bridgeVars
    /\ UNCHANGED <<thread, seats, msg, sweep, stream, boots>>

\* insert: the row goes in through its thread's row, or not at all.
Touch(th) == There(th)

\* append_user, then the next statement.
AppendUser(t) ==
    /\ turn[t].pc = "question"
    /\ LET th == turn[t].thread
       IN IF Touch(th)
          THEN /\ msg' = [msg EXCEPT ![t] = [@ EXCEPT !.thread = th, !.question = TRUE]]
               /\ Goes(t, [turn[t] EXCEPT !.pc = "answer"])
          ELSE Goes(t, Over) /\ UNCHANGED msg
    /\ UNCHANGED bridgeVars
    /\ UNCHANGED <<thread, seats, sweep, stream, boots>>

\* append_pending_assistant commits; the handler has yet to be told.  A delete
\* between the two rows has taken the first.
AppendPendingAssistant(t) ==
    /\ turn[t].pc = "answer"
    /\ IF Touch(turn[t].thread)
       THEN /\ msg' = [msg EXCEPT ![t] = [@ EXCEPT !.status = "pending"]]
            /\ Goes(t, [turn[t] EXCEPT !.pc = "spawn"])
       ELSE Goes(t, Over) /\ UNCHANGED msg
    /\ UNCHANGED bridgeVars
    /\ UNCHANGED <<thread, seats, sweep, stream, boots>>

\* It is: the task is spawned and the POST answers 202.
SpawnTask(t) ==
    /\ turn[t].pc = "spawn"
    /\ Goes(t, [turn[t] EXCEPT !.pc = "read"])
    /\ UNCHANGED bridgeVars
    /\ UNCHANGED <<thread, seats, msg, sweep, stream, boots>>

\* The client hangs up or request_timeout fires: the handler is dropped at its
\* await, and nobody is spawned for a pending answer that is already written.
HangUp(t) ==
    /\ turn[t].pc \in {"question", "answer", "spawn"}
    /\ Goes(t, IF turn[t].pc = "spawn" THEN Lost ELSE Over)
    /\ UNCHANGED bridgeVars
    /\ UNCHANGED <<thread, seats, msg, sweep, stream, boots>>

-----------------------------------------------------------------------------
(* The task. *)

\* prompt_of: the question by the id the task carries.
Prompt(t) == t

Fails(t) == [pc |-> "settle", thread |-> turn[t].thread, text |-> None]

\* answer_turn begins: a question that is gone settles as failed.
ReadPrompt(t) ==
    /\ turn[t].pc = "read"
    /\ Goes(t, IF msg[t].question
               THEN [pc |-> "dispatch", thread |-> turn[t].thread, asked |-> Prompt(t)]
               ELSE Fails(t))
    /\ UNCHANGED bridgeVars
    /\ UNCHANGED <<thread, seats, msg, sweep, stream, boots>>

\* dispatch: a worker is leased, or the turn fails as unavailable or busy.
Dispatch(t) ==
    /\ turn[t].pc = "dispatch"
    /\ LET cap == CapabilityOf(turn[t].thread)
       IN \/ /\ NobodyPicked(cap)
             /\ Goes(t, Fails(t))
             /\ UNCHANGED bridgeVars
          \/ \E w \in Ids :
                /\ Picks(w, cap)
                /\ TakeLease(t, w)
                /\ Goes(t, [turn[t] EXCEPT !.pc = "call"])
    /\ UNCHANGED <<thread, seats, msg, sweep, stream, boots>>

\* Variant: an answer is taken whichever request it names.
TakenFromAnyone(how) == how \in {"reply", "mismatch"}

\* Only an answer that names this call's id is handed on.
Taken(how) == how = "reply"

\* The round trip ends.  A mismatched answer carries another call's text.
Answered(t, how, other) ==
    /\ turn[t].pc = "call" /\ MayEnd(t, how)
    /\ how # "mismatch" => other = t
    /\ EndCall(t, CapabilityOf(turn[t].thread), how)
    /\ Goes(t, IF Taken(how)
               THEN [pc |-> "settle", thread |-> turn[t].thread,
                     text |-> IF how = "mismatch" THEN other ELSE turn[t].asked]
               ELSE Fails(t))
    /\ UNCHANGED <<thread, seats, msg, sweep, stream, boots>>

\* Variant: the verdict is written over whatever stands there.
UnsettledAlways(t) == msg[t].status # None

\* settle's own condition.
Unsettled(t) == msg[t].status = "pending"

SettleRow(t) ==
    msg' = IF Unsettled(t)
           THEN [msg EXCEPT ![t] = [@ EXCEPT
                    !.status = IF turn[t].text = None THEN "failed" ELSE "complete",
                    !.text = turn[t].text, !.stale = FALSE]]
           ELSE msg

\* Variant: a failed call leaves its row to the horizon.
SettlesReplies(t) == turn[t].text # None

\* Every path of the task settles.
Settles(t) == TRUE

\* A delete that is still open has the answer's row.
Held(t) ==
    \E th \in Threads : IF sweep[th] = None THEN FALSE ELSE <<t, "answer">> \in sweep[th]

\* complete or fail: waits for a delete that holds the row.
SettleChat(t) ==
    /\ turn[t].pc = "settle" /\ thread[turn[t].thread].nest = "chat"
    /\ ~Held(t)
    /\ IF Settles(t) THEN SettleRow(t) ELSE UNCHANGED msg
    /\ Goes(t, Over)
    /\ UNCHANGED bridgeVars
    /\ UNCHANGED <<thread, seats, sweep, stream, boots>>

SettleRag(t) ==
    /\ turn[t].pc = "settle" /\ thread[turn[t].thread].nest = "rag"
    /\ ~Held(t)
    /\ IF Settles(t) THEN SettleRow(t) ELSE UNCHANGED msg
    /\ Goes(t, Over)
    /\ UNCHANGED bridgeVars
    /\ UNCHANGED <<thread, seats, sweep, stream, boots>>

-----------------------------------------------------------------------------
(* Readers. *)

\* Variant: a row shows as what it is.
ProjectedAsStored(t) == msg[t].status

\* projected: a row pending past the horizon shows as failed.
Projected(t) ==
    IF msg[t].status = "pending" /\ msg[t].stale THEN "failed" ELSE msg[t].status

\* stream_message: the thread and the row are read before it opens.
OpenStream(s, t) ==
    /\ stream[s] = None /\ msg[t].status # None
    /\ stream' = [stream EXCEPT ![s] = t]
    /\ UNCHANGED bridgeVars
    /\ UNCHANGED <<thread, seats, msg, turn, sweep, boots>>

\* A poll that finds the turn settled, shown as failed or gone ends the stream;
\* one that finds it pending changes nothing.
EndStream(s) ==
    /\ stream[s] # None /\ Projected(stream[s]) # "pending"
    /\ stream' = [stream EXCEPT ![s] = None]
    /\ UNCHANGED bridgeVars
    /\ UNCHANGED <<thread, seats, msg, turn, sweep, boots>>

-----------------------------------------------------------------------------
(* The world. *)

\* The clock passes created_at + CHATBOT_PENDING_STALE_SECS.
PassesHorizon(t) ==
    /\ msg[t].status = "pending" /\ ~msg[t].stale
    /\ msg' = [msg EXCEPT ![t] = [@ EXCEPT !.stale = TRUE]]
    /\ UNCHANGED bridgeVars
    /\ UNCHANGED <<thread, seats, turn, sweep, stream, boots>>

\* migrate_school's sweep at a boot.
Abandoned(t) == msg[t].status = "pending" /\ msg[t].stale
Stamp ==
    msg' = [t \in Turns |->
        IF Abandoned(t) THEN [msg[t] EXCEPT !.status = "failed", !.stale = FALSE]
        ELSE msg[t]]

\* Boots of one deployment overlap: another process sweeps while this one's
\* tasks run.  Its update waits for a delete that holds a row.
SiblingBoots ==
    /\ \E t \in Turns : Abandoned(t)
    /\ \A t \in Turns : Abandoned(t) => ~Held(t)
    /\ Stamp
    /\ UNCHANGED bridgeVars
    /\ UNCHANGED <<thread, seats, turn, sweep, stream, boots>>

\* The process dies and boots: requests, tasks, streams and the registry are
\* gone and an open delete is rolled back.
Reboot ==
    /\ boots < MaxBoots
    /\ boots' = boots + 1
    /\ turn' = [t \in Turns |-> IF turn[t].pc \in {"new", "over"} THEN turn[t] ELSE Lost]
    /\ stream' = [s \in Streams |-> None]
    /\ sweep' = [th \in Threads |-> None]
    /\ Stamp
    /\ Forget
    /\ UNCHANGED <<thread, seats>>

Init ==
    /\ BridgeInit
    /\ thread = [th \in Threads |-> [nest |-> None, there |-> FALSE]]
    /\ seats = [nest \in Nests |-> 0]
    /\ msg = [t \in Turns |-> NoRow]
    /\ turn = [t \in Turns |-> [pc |-> "new"]]
    /\ sweep = [th \in Threads |-> None]
    /\ stream = [s \in Streams |-> None]
    /\ boots = 0

Post(t) ==
    \/ \E th \in Threads : SendChat(t, th) \/ SendRag(t, th)
    \/ AppendUser(t) \/ AppendPendingAssistant(t) \/ SpawnTask(t) \/ HangUp(t)

Task(t) ==
    \/ ReadPrompt(t) \/ Dispatch(t) \/ SettleChat(t) \/ SettleRag(t)

Hows == {"reply", "error", "refused", "mismatch", "transport", "timeout"}

Bridge == (Register \/ \E w \in Ids : Vanish(w) \/ Remove(w)) /\ UNCHANGED turnVars

Next ==
    \/ \E t \in Turns : Post(t) \/ Task(t)
    \/ \E t, u \in Turns, how \in Hows : Answered(t, how, u)
    \/ \E th \in Threads :
          \/ \E nest \in Nests : CreateThread(th, nest)
          \/ SweepTurns(th) \/ DeleteChat(th) \/ DeleteRag(th)
    \/ \E s \in Streams : (\E t \in Turns : OpenStream(s, t)) \/ EndStream(s)
    \/ \E t \in Turns : PassesHorizon(t)
    \/ Bridge \/ SiblingBoots \/ Reboot

Spec == Init /\ [][Next]_vars

\* The scheduler runs a handler or a task that can run, a call's deadline fires,
\* an open delete goes on, a stream's ticker ticks and the clock moves.  Nothing
\* makes a worker answer, a client send or stay, or the process restart.
Fairness ==
    /\ \A t \in Turns :
          WF_vars(SpawnTask(t)) /\ WF_vars(Task(t)) /\ WF_vars(Answered(t, "timeout", t))
    /\ \A th \in Threads : WF_vars(DeleteChat(th) \/ DeleteRag(th))
    /\ \A s \in Streams : WF_vars(EndStream(s))
    /\ \A t \in Turns : WF_vars(PassesHorizon(t))

FairSpec == Spec /\ Fairness

-----------------------------------------------------------------------------
MsgRow == [thread : Threads \cup {None}, question : BOOLEAN,
           status : Statuses \cup {None}, text : Turns \cup {None}, stale : BOOLEAN]

\* What a turn carries from one suspension to the next.
TurnState ==
    {[pc |-> "new"], Over, Lost}
    \cup [pc : {"question", "answer", "spawn", "read"}, thread : Threads]
    \cup [pc : {"dispatch", "call"}, thread : Threads, asked : Turns]
    \cup [pc : {"settle"}, thread : Threads, text : Turns \cup {None}]

\* Every variable keeps its shape.
TypeOK ==
    /\ BridgeTypeOK
    /\ thread \in [Threads -> [nest : Nests \cup {None}, there : BOOLEAN]]
    /\ seats \in [Nests -> Nat]
    /\ msg \in [Turns -> MsgRow]
    /\ turn \in [Turns -> TurnState]
    /\ sweep \in [Threads -> (SUBSET (Turns \X {"question", "answer"})) \cup {None}]
    /\ stream \in [Streams -> Turns \cup {None}]
    /\ boots \in 0 .. MaxBoots

\* An answer that landed is the answer to the question of its own POST, though
\* two POSTs on a thread interleave their rows and a worker mixes up its streams
\* (prompt_of, dispatch_with_timeout).
AnswersOwnQuestion ==
    \A t \in Turns : msg[t].status = "complete" => msg[t].text = t

\* No row outlives its thread, though the delete sweeps the rows before it
\* takes the one they hang on; and the counter the cap is judged on is the
\* number of threads (insert, delete, create_capped).
ThreadsWhole ==
    /\ \A th \in Threads : RowsOf(th) # {} => There(th)
    /\ \A nest \in Nests : seats[nest] = Cardinality({th \in Of(nest) : There(th)})

\* A settled answer is final: a reply after a timeout, another process's boot
\* or a delete changes nothing.  The answer rows implement AsyncAnswer (settle,
\* migrate_school, delete).
AnswerOf(t) ==
    CASE msg[t].status = None -> "none"
      [] msg[t].status = "pending" -> "owed"
      [] msg[t].status = "complete" -> "kept"
      [] OTHER -> "broken"
Promise == INSTANCE AsyncAnswer WITH
    Requests <- Turns, answer <- [t \in Turns |-> AnswerOf(t)]
TurnsSettleOnce == Promise!Spec

\* Once the rows are written the turn settles: its task stamps it, on every
\* path; and where a restart, or a handler dropped between the row and the
\* spawn, left no task to do so, every reader is shown a failure instead
\* (send_message, answer_turn, projected).
TasksSettle ==
    \A t \in Turns :
        msg[t].status = "pending" ~>
            \/ msg[t].status # "pending"
            \/ turn[t].pc = "lost" /\ Projected(t) = "failed"

\* Every stream ends, even on a row whose task died with an earlier process or
\* was never spawned: the projection ends it (stream_message, projected).
StreamsEnd == \A s \in Streams : stream[s] # None ~> stream[s] = None
=============================================================================
