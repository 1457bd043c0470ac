---------------------------- MODULE AiTurnsProofs ----------------------------
(***************************************************************************)
(* What AiTurns' run checks of its safety on a small instance, for any     *)
(* number of threads, turns, streams, workers and restarts.                *)
(*                                                                         *)
(* A landed answer is its own question's because of what the task carries  *)
(* to it (CarriesOwn); no row outlives its thread because an answer goes   *)
(* in through the thread its question went in (RowsBelong) and a delete    *)
(* that has begun still has its thread (SweepsOpen); and an answer is owed *)
(* once because a POST that has not reserved it yet finds none (NotYet).   *)
(***************************************************************************)
EXTENDS AiTurns, FiniteSetTheorems, TLAPS

\* What a task asked and what it is about to write is its own.
CarriesOwn ==
    \A t \in Turns :
        /\ turn[t].pc \in {"dispatch", "call"} => turn[t].asked = t
        /\ turn[t].pc = "settle" => turn[t].text \in {t, None}

\* A POST between its two rows has the thread its question is in.
RowsBelong == \A t \in Turns : turn[t].pc = "answer" => msg[t].thread = turn[t].thread

\* A POST that has not reserved its answer has none.
NotYet == \A t \in Turns :
    turn[t].pc \in {"new", "question", "answer"} => msg[t].status = None

\* An open delete has its thread.
SweepsOpen == \A th \in Threads : sweep[th] # None => There(th)

RowsThere == \A th \in Threads : RowsOf(th) # {} => There(th)
SeatsExact == \A nest \in Nests : seats[nest] = Cardinality({th \in Of(nest) : There(th)})

Inv ==
    /\ TypeOK /\ CarriesOwn /\ AnswersOwnQuestion
    /\ RowsBelong /\ NotYet /\ SweepsOpen /\ RowsThere /\ SeatsExact

-----------------------------------------------------------------------------
(* Types. *)

\* The bridge's variables keep their shape, whatever a step does to it.
LEMMA TakeLeaseTyped ==
    ASSUME BridgeTypeOK, NEW c \in Calls, NEW w \in Ids, TakeLease(c, w)
    PROVE  BridgeTypeOK'
  BY DEF BridgeTypeOK, TakeLease

LEMMA EndCallTyped ==
    ASSUME BridgeTypeOK, NEW c \in Calls, lease[c] # None, NEW cap \in Capabilities, NEW how,
           EndCall(c, cap, how)
    PROVE  BridgeTypeOK'
<1>1. lease[c] \in Ids
  BY DEF BridgeTypeOK
<1> QED BY <1>1 DEF BridgeTypeOK, EndCall

LEMMA BridgeStepTyped ==
    ASSUME BridgeTypeOK, (Register \/ \E w \in Ids : Vanish(w) \/ Remove(w)) \/ Forget
    PROVE  BridgeTypeOK'
  BY DEF BridgeTypeOK, Register, Vanish, Remove, Forget

\* Where a turn is suspended tells what it knows.
LEMMA Shapes ==
    ASSUME TypeOK, NEW t \in Turns
    PROVE  /\ turn[t].pc \in {"question", "answer", "spawn", "read"} =>
                 turn[t] \in [pc : {"question", "answer", "spawn", "read"}, thread : Threads]
           /\ turn[t].pc \in {"dispatch", "call"} =>
                 turn[t] \in [pc : {"dispatch", "call"}, thread : Threads, asked : Turns]
           /\ turn[t].pc = "settle" =>
                 turn[t] \in [pc : {"settle"}, thread : Threads, text : Turns \cup {None}]
           /\ turn[t].pc \in {"new", "over", "lost", "question", "answer", "spawn", "read",
                              "dispatch", "call", "settle"}
  BY DEF TypeOK, TurnState, Over, Lost

LEMMA GoesTyped ==
    ASSUME TypeOK, NEW t \in Turns, NEW q \in TurnState, Goes(t, q)
    PROVE  turn' \in [Turns -> TurnState]
  BY DEF TypeOK, Goes

\* The records a step may leave a turn's rows as.
LEMMA RowsTyped ==
    ASSUME TypeOK, NEW t \in Turns
    PROVE  /\ \A th \in Threads :
                 [msg[t] EXCEPT !.thread = th, !.question = TRUE] \in MsgRow
           /\ [msg[t] EXCEPT !.status = "pending"] \in MsgRow
           /\ [msg[t] EXCEPT !.stale = TRUE] \in MsgRow
           /\ [msg[t] EXCEPT !.status = "failed", !.stale = FALSE] \in MsgRow
           /\ \A s \in Statuses, x \in Turns \cup {None} :
                 [msg[t] EXCEPT !.status = s, !.text = x, !.stale = FALSE] \in MsgRow
<1>1. msg[t] \in MsgRow
  BY DEF TypeOK
<1> QED BY <1>1 DEF MsgRow, Statuses

\* What a delete leaves of a turn: rows only go, and those it names are gone.
LEMMA WithoutShape ==
    ASSUME TypeOK, NEW t \in Turns, NEW gone
    PROVE  /\ Without(t, gone) \in MsgRow
           /\ Without(t, gone).thread = msg[t].thread
           /\ Without(t, gone).question => msg[t].question /\ <<t, "question">> \notin gone
           /\ <<t, "answer">> \in gone => Without(t, gone).status = None
           /\ <<t, "answer">> \notin gone => /\ Without(t, gone).status = msg[t].status
                                             /\ Without(t, gone).text = msg[t].text
<1>1. msg[t] \in MsgRow
  BY DEF TypeOK
<1> DEFINE bare == [msg[t] EXCEPT !.status = None, !.text = None, !.stale = FALSE]
<1>2. /\ bare \in MsgRow /\ bare.thread = msg[t].thread
      /\ bare.question = msg[t].question /\ bare.status = None
  BY <1>1 DEF MsgRow
<1>4. ASSUME NEW m \in MsgRow
      PROVE  /\ [m EXCEPT !.question = FALSE] \in MsgRow
             /\ [m EXCEPT !.question = FALSE].thread = m.thread
             /\ [m EXCEPT !.question = FALSE].status = m.status
             /\ [m EXCEPT !.question = FALSE].text = m.text
             /\ ~[m EXCEPT !.question = FALSE].question
  BY DEF MsgRow
<1>5. PICK m \in MsgRow :
         /\ m = IF <<t, "answer">> \in gone THEN bare ELSE msg[t]
         /\ Without(t, gone) =
               IF <<t, "question">> \in gone THEN [m EXCEPT !.question = FALSE] ELSE m
  BY <1>1, <1>2 DEF Without
<1>6. /\ m.thread = msg[t].thread /\ m.question = msg[t].question
      /\ <<t, "answer">> \in gone => m.status = None
      /\ <<t, "answer">> \notin gone => m.status = msg[t].status /\ m.text = msg[t].text
  <2> HIDE DEF bare
  <2> QED BY <1>2, <1>5
<1>7. CASE <<t, "question">> \in gone
  BY <1>4, <1>5, <1>6, <1>7
<1>8. CASE <<t, "question">> \notin gone
  BY <1>5, <1>6, <1>8
<1> QED BY <1>7, <1>8

LEMMA TypeInit == Init => TypeOK
<1> SUFFICES ASSUME Init PROVE TypeOK
  OBVIOUS
<1>1. BridgeTypeOK
  BY BridgeAssumption DEF Init, BridgeInit, BridgeTypeOK
<1>2. NoRow \in MsgRow
  BY DEF NoRow, MsgRow
<1>3. [pc |-> "new"] \in TurnState
  BY DEF TurnState
<1>4. boots \in 0 .. MaxBoots
  BY TurnsAssumption DEF Init
<1> QED BY <1>1, <1>2, <1>3, <1>4 DEF Init, TypeOK

\* One turn's rows change to rows, and the others stay.
LEMMA RowTyped ==
    ASSUME TypeOK, NEW t \in Turns, NEW m \in MsgRow, msg' = [msg EXCEPT ![t] = m]
    PROVE  msg' \in [Turns -> MsgRow]
  BY DEF TypeOK

LEMMA TypeStep == TypeOK /\ [Next]_vars => TypeOK'
<1> SUFFICES ASSUME TypeOK, [Next]_vars PROVE TypeOK'
  OBVIOUS
<1>0. ASSUME UNCHANGED bridgeVars PROVE BridgeTypeOK'
  BY <1>0 DEF TypeOK, BridgeTypeOK, bridgeVars
<1>00. Over \in TurnState
  BY DEF TurnState
<1>1. ASSUME NEW t \in Turns, NEW th \in Threads, SendChat(t, th) \/ SendRag(t, th)
      PROVE  TypeOK'
  <2>1. [pc |-> "question", thread |-> th] \in TurnState
    BY DEF TurnState
  <2>2. turn' \in [Turns -> TurnState]
    BY <1>1, <2>1, GoesTyped DEF SendChat, SendRag, Asks
  <2> QED BY <1>0, <1>1, <2>2 DEF SendChat, SendRag, TypeOK
<1>2. ASSUME NEW t \in Turns, AppendUser(t) \/ AppendPendingAssistant(t)
      PROVE  TypeOK'
  <2>1. turn[t] \in [pc : {"question", "answer", "spawn", "read"}, thread : Threads]
    BY <1>2, Shapes DEF AppendUser, AppendPendingAssistant
  <2>2. /\ [turn[t] EXCEPT !.pc = "answer"] \in TurnState
        /\ [turn[t] EXCEPT !.pc = "spawn"] \in TurnState
    BY <2>1 DEF TurnState
  <2>3. turn' \in [Turns -> TurnState]
    BY <1>00, <1>2, <2>2, GoesTyped DEF AppendUser, AppendPendingAssistant
  <2>4. msg' \in [Turns -> MsgRow]
    <3>1. turn[t].thread \in Threads
      BY <2>1
    <3>2. CASE msg' = msg
      BY <3>2 DEF TypeOK
    <3>3. CASE msg' = [msg EXCEPT ![t] =
                          [msg[t] EXCEPT !.thread = turn[t].thread, !.question = TRUE]]
      BY <3>1, <3>3, RowsTyped, RowTyped
    <3>4. CASE msg' = [msg EXCEPT ![t] = [msg[t] EXCEPT !.status = "pending"]]
      BY <3>4, RowsTyped, RowTyped
    <3> QED BY <1>2, <3>2, <3>3, <3>4 DEF AppendUser, AppendPendingAssistant
  <2> QED BY <1>0, <1>2, <2>3, <2>4 DEF AppendUser, AppendPendingAssistant, TypeOK
<1>3. ASSUME NEW t \in Turns, HangUp(t)
      PROVE  TypeOK'
  <2>1. Lost \in TurnState
    BY DEF TurnState
  <2>2. turn' \in [Turns -> TurnState]
    BY <1>00, <1>3, <2>1, GoesTyped DEF HangUp
  <2> QED BY <1>0, <1>3, <2>2 DEF HangUp, TypeOK
<1>3a. ASSUME NEW t \in Turns, SpawnTask(t)
       PROVE  TypeOK'
  <2>1. turn[t] \in [pc : {"question", "answer", "spawn", "read"}, thread : Threads]
    BY <1>3a, Shapes DEF SpawnTask
  <2>2. [turn[t] EXCEPT !.pc = "read"] \in TurnState
    BY <2>1 DEF TurnState
  <2>3. turn' \in [Turns -> TurnState]
    BY <1>3a, <2>2, GoesTyped DEF SpawnTask
  <2> QED BY <1>0, <1>3a, <2>3 DEF SpawnTask, TypeOK
<1>4. ASSUME NEW t \in Turns, turn[t].thread \in Threads
      PROVE  Fails(t) \in TurnState
  BY <1>4 DEF Fails, TurnState
<1>5. ASSUME NEW t \in Turns, ReadPrompt(t)
      PROVE  TypeOK'
  <2>1. turn[t].thread \in Threads
    BY <1>5, Shapes DEF ReadPrompt
  <2>2. [pc |-> "dispatch", thread |-> turn[t].thread, asked |-> Prompt(t)] \in TurnState
    BY <2>1 DEF TurnState, Prompt
  <2>3. turn' \in [Turns -> TurnState]
    BY <1>4, <1>5, <2>1, <2>2, GoesTyped DEF ReadPrompt
  <2> QED BY <1>0, <1>5, <2>3 DEF ReadPrompt, TypeOK
<1>6. ASSUME NEW t \in Turns, Dispatch(t)
      PROVE  TypeOK'
  <2>1. turn[t] \in [pc : {"dispatch", "call"}, thread : Threads, asked : Turns]
    BY <1>6, Shapes DEF Dispatch
  <2>2. [turn[t] EXCEPT !.pc = "call"] \in TurnState /\ Fails(t) \in TurnState
    BY <1>4, <2>1 DEF TurnState
  <2>3. turn' \in [Turns -> TurnState]
    BY <1>6, <2>2, GoesTyped DEF Dispatch
  <2>4. BridgeTypeOK'
    BY <1>0, <1>6, TakeLeaseTyped, TurnsAssumption DEF Dispatch, TypeOK
  <2> QED BY <1>6, <2>3, <2>4 DEF Dispatch, TypeOK
<1>7. ASSUME NEW t \in Turns, NEW u \in Turns, NEW how \in Hows, Answered(t, how, u)
      PROVE  TypeOK'
  <2>1. turn[t] \in [pc : {"dispatch", "call"}, thread : Threads, asked : Turns]
    BY <1>7, Shapes DEF Answered
  <2>2. /\ \A x \in Turns :
              [pc |-> "settle", thread |-> turn[t].thread, text |-> x] \in TurnState
        /\ Fails(t) \in TurnState
    BY <1>4, <2>1 DEF TurnState
  <2>3. turn' \in [Turns -> TurnState]
    BY <1>7, <2>1, <2>2, GoesTyped DEF Answered
  <2>4. CapabilityOf(turn[t].thread) \in Capabilities
    BY DEF CapabilityOf, Capabilities
  <2>5. BridgeTypeOK'
    BY <1>7, <2>4, EndCallTyped, TurnsAssumption DEF Answered, MayEnd, TypeOK
  <2> QED BY <1>7, <2>3, <2>5 DEF Answered, TypeOK
<1>8. ASSUME NEW t \in Turns, SettleChat(t) \/ SettleRag(t)
      PROVE  TypeOK'
  <2>1. turn[t].text \in Turns \cup {None}
    BY <1>8, Shapes DEF SettleChat, SettleRag
  <2>2. msg' \in [Turns -> MsgRow]
    <3>1. CASE msg' = msg
      BY <3>1 DEF TypeOK
    <3>2. ASSUME NEW s \in Statuses,
                 msg' = [msg EXCEPT ![t] =
                    [msg[t] EXCEPT !.status = s, !.text = turn[t].text, !.stale = FALSE]]
          PROVE  msg' \in [Turns -> MsgRow]
      BY <2>1, <3>2, RowsTyped, RowTyped
    <3>3. "failed" \in Statuses /\ "complete" \in Statuses
      BY DEF Statuses
    <3> QED BY <1>8, <3>1, <3>2, <3>3 DEF SettleChat, SettleRag, SettleRow
  <2>3. turn' \in [Turns -> TurnState]
    BY <1>00, <1>8, GoesTyped DEF SettleChat, SettleRag
  <2> QED BY <1>0, <1>8, <2>2, <2>3 DEF SettleChat, SettleRag, TypeOK
<1>9. ASSUME NEW th \in Threads, NEW nest \in Nests, CreateThread(th, nest)
      PROVE  TypeOK'
  <2>1. [nest |-> nest, there |-> TRUE] \in [nest : Nests \cup {None}, there : BOOLEAN]
    OBVIOUS
  <2>2. thread' \in [Threads -> [nest : Nests \cup {None}, there : BOOLEAN]]
    BY <1>9, <2>1 DEF CreateThread, TypeOK
  <2>3. seats' \in [Nests -> Nat]
    BY <1>9 DEF CreateThread, TypeOK
  <2> QED BY <1>0, <1>9, <2>2, <2>3 DEF CreateThread, TypeOK
<1>10. ASSUME NEW th \in Threads, SweepTurns(th)
       PROVE  TypeOK'
  <2>1. RowsOf(th) \in SUBSET (Turns \X {"question", "answer"})
    BY DEF RowsOf, Questions, Answers
  <2>2. sweep' \in [Threads -> (SUBSET (Turns \X {"question", "answer"})) \cup {None}]
    BY <1>10, <2>1 DEF SweepTurns, TypeOK
  <2> QED BY <1>0, <1>10, <2>2 DEF SweepTurns, TypeOK
<1>11. ASSUME NEW th \in Threads, DeleteChat(th) \/ DeleteRag(th)
       PROVE  TypeOK'
  <2>1. sweep' \in [Threads -> (SUBSET (Turns \X {"question", "answer"})) \cup {None}]
    BY <1>11 DEF DeleteChat, DeleteRag, TypeOK
  <2>2. \/ UNCHANGED <<thread, seats, msg>>
        \/ TakesThread(th, sweep[th])
        \/ TakesThread(th, sweep[th] \cup Stranded(th))
    BY <1>11 DEF DeleteChat, DeleteRag
  <2>3. ASSUME NEW gone, TakesThread(th, gone)
        PROVE  /\ thread' \in [Threads -> [nest : Nests \cup {None}, there : BOOLEAN]]
               /\ seats' \in [Nests -> Nat]
               /\ msg' \in [Turns -> MsgRow]
    <3>1. [thread[th] EXCEPT !.there = FALSE] \in [nest : Nests \cup {None}, there : BOOLEAN]
      BY DEF TypeOK
    <3>2. thread' \in [Threads -> [nest : Nests \cup {None}, there : BOOLEAN]]
      BY <2>3, <3>1 DEF TakesThread, TypeOK
    <3>3. seats' \in [Nests -> Nat]
      <4> DEFINE n == thread[th].nest
                 k == IF seats[n] > 0 THEN seats[n] - 1 ELSE 0
      <4>1. n \in Nests
        BY <1>11 DEF DeleteChat, DeleteRag, Nests
      <4>2. k \in Nat
        BY <4>1 DEF TypeOK
      <4>3. seats' = [seats EXCEPT ![n] = k]
        BY <2>3 DEF TakesThread
      <4> HIDE DEF n, k
      <4> QED BY <4>1, <4>2, <4>3 DEF TypeOK
    <3>4. msg' \in [Turns -> MsgRow]
      BY <2>3, WithoutShape DEF TakesThread
    <3> QED BY <3>2, <3>3, <3>4
  <2>4. /\ thread' \in [Threads -> [nest : Nests \cup {None}, there : BOOLEAN]]
        /\ seats' \in [Nests -> Nat]
        /\ msg' \in [Turns -> MsgRow]
    BY <2>2, <2>3 DEF TypeOK
  <2> QED BY <1>0, <1>11, <2>1, <2>4 DEF DeleteChat, DeleteRag, TypeOK
<1>12. ASSUME NEW s \in Streams, (\E t \in Turns : OpenStream(s, t)) \/ EndStream(s)
       PROVE  TypeOK'
  <2>1. stream' \in [Streams -> Turns \cup {None}]
    BY <1>12 DEF OpenStream, EndStream, TypeOK
  <2> QED BY <1>0, <1>12, <2>1 DEF OpenStream, EndStream, TypeOK
<1>13. ASSUME NEW t \in Turns, PassesHorizon(t)
       PROVE  TypeOK'
  <2>1. msg' \in [Turns -> MsgRow]
    BY <1>13, RowsTyped, RowTyped DEF PassesHorizon
  <2> QED BY <1>0, <1>13, <2>1 DEF PassesHorizon, TypeOK
<1>14. ASSUME Stamp PROVE msg' \in [Turns -> MsgRow]
  BY <1>14, RowsTyped DEF Stamp, TypeOK
<1>15. CASE SiblingBoots
  BY <1>0, <1>14, <1>15 DEF SiblingBoots, TypeOK
<1>16. CASE Reboot
  <2>1. BridgeTypeOK'
    BY <1>16, BridgeStepTyped DEF Reboot, TypeOK
  <2>2. turn' \in [Turns -> TurnState]
    BY <1>16 DEF Reboot, TypeOK, TurnState
  <2>3. boots' \in 0 .. MaxBoots
    BY <1>16, TurnsAssumption DEF Reboot, TypeOK
  <2> QED BY <1>14, <1>16, <2>1, <2>2, <2>3 DEF Reboot, TypeOK
<1>17. CASE Bridge
  BY <1>17, BridgeStepTyped DEF Bridge, turnVars, TypeOK
<1>18. CASE UNCHANGED vars
  BY <1>0, <1>18 DEF vars, turnVars, TypeOK
<1> QED BY <1>1, <1>2, <1>3, <1>3a, <1>5, <1>6, <1>7, <1>8, <1>9, <1>10, <1>11, <1>12,
           <1>13, <1>15, <1>16, <1>17, <1>18 DEF Next, Post, Task

-----------------------------------------------------------------------------
(* What a step may do to one turn. *)

\* The answer's row is reserved by the POST that has not done so, settled while
\* it is pending, with the text its task carries, taken away, or left alone.
AnswerStep(t) ==
    \/ msg'[t].status = msg[t].status /\ msg'[t].text = msg[t].text
    \/ /\ turn[t].pc = "answer" /\ turn'[t].pc = "spawn" /\ msg'[t].status = "pending"
    \/ msg[t].status = "pending" /\ msg'[t].status = "failed"
    \/ /\ msg[t].status = "pending" /\ turn[t].pc = "settle"
       /\ msg'[t].status = "complete" /\ msg'[t].text = turn[t].text
       /\ turn[t].text # None
    \/ msg'[t].status = None

\* The request or task goes one suspension on, keeping what it asked.
TaskStep(t) ==
    \/ turn'[t] = turn[t]
    \/ turn'[t].pc \in {"over", "lost", "spawn", "read"}
    \/ turn[t].pc = "new" /\ turn'[t].pc = "question"
    \/ /\ turn[t].pc = "question" /\ turn'[t].pc = "answer"
       /\ msg'[t].thread = turn'[t].thread
    \/ turn[t].pc = "read" /\ turn'[t].pc = "dispatch" /\ turn'[t].asked = t
    \/ turn[t].pc = "dispatch" /\ turn'[t].pc = "call" /\ turn'[t].asked = turn[t].asked
    \/ /\ turn'[t].pc = "settle"
       /\ turn'[t].text = None \/ (turn[t].pc = "call" /\ turn'[t].text = turn[t].asked)

\* Its rows stay in their thread once they are in one.
PlaceStep(t) == turn[t].pc = "question" \/ msg'[t].thread = msg[t].thread

LEMMA OneTurn ==
    ASSUME TypeOK, NEW t \in Turns, NEW q, Goes(t, q), NEW u \in Turns
    PROVE  turn'[t] = q /\ (u # t => turn'[u] = turn[u])
  BY DEF Goes, TypeOK

LEMMA OneMsg ==
    ASSUME TypeOK, NEW t \in Turns, NEW m, msg' = [msg EXCEPT ![t] = m], NEW u \in Turns
    PROVE  msg'[t] = m /\ (u # t => msg'[u] = msg[u])
  BY DEF TypeOK

LEMMA TaskSteps ==
    ASSUME TypeOK, [Next]_vars, NEW u \in Turns
    PROVE  TaskStep(u)
<1>1. ASSUME NEW t \in Turns, NEW th \in Threads, SendChat(t, th) \/ SendRag(t, th)
      PROVE  TaskStep(u)
  BY <1>1, OneTurn DEF SendChat, SendRag, Asks, TaskStep
<1>2. ASSUME NEW t \in Turns, AppendUser(t)
      PROVE  TaskStep(u)
  <2>1. turn[t] \in [pc : {"question", "answer", "spawn", "read"}, thread : Threads]
    BY <1>2, Shapes DEF AppendUser
  <2>2. CASE Goes(t, Over)
    BY <2>2, OneTurn DEF Over, TaskStep
  <2>3. CASE /\ Goes(t, [turn[t] EXCEPT !.pc = "answer"])
             /\ msg' = [msg EXCEPT ![t] =
                          [msg[t] EXCEPT !.thread = turn[t].thread, !.question = TRUE]]
    <3>1. turn'[t].pc = "answer" /\ turn'[t].thread = turn[t].thread
      BY <2>1, <2>3, OneTurn
    <3>2. msg'[t].thread = turn[t].thread
      BY <2>3, OneMsg DEF TypeOK, MsgRow
    <3>3. u # t => turn'[u] = turn[u]
      BY <2>3, OneTurn
    <3> QED BY <1>2, <3>1, <3>2, <3>3 DEF AppendUser, TaskStep
  <2> QED BY <1>2, <2>2, <2>3 DEF AppendUser
<1>3. ASSUME NEW t \in Turns, AppendPendingAssistant(t)
      PROVE  TaskStep(u)
  <2>1. turn[t] \in [pc : {"question", "answer", "spawn", "read"}, thread : Threads]
    BY <1>3, Shapes DEF AppendPendingAssistant
  <2>2. /\ u # t => turn'[u] = turn[u]
        /\ turn'[t] \in {Over, [turn[t] EXCEPT !.pc = "spawn"]}
    BY <1>3, OneTurn DEF AppendPendingAssistant
  <2>3. turn'[t].pc \in {"over", "spawn"}
    BY <2>1, <2>2 DEF Over
  <2> QED BY <2>2, <2>3 DEF TaskStep
<1>3a. ASSUME NEW t \in Turns, SpawnTask(t)
       PROVE  TaskStep(u)
  <2>1. turn[t] \in [pc : {"question", "answer", "spawn", "read"}, thread : Threads]
    BY <1>3a, Shapes DEF SpawnTask
  <2>2. /\ u # t => turn'[u] = turn[u]
        /\ turn'[t] = [turn[t] EXCEPT !.pc = "read"]
    BY <1>3a, OneTurn DEF SpawnTask
  <2>3. turn'[t].pc = "read"
    BY <2>1, <2>2
  <2> QED BY <2>2, <2>3 DEF TaskStep
<1>4. ASSUME NEW t \in Turns, HangUp(t) \/ SettleChat(t) \/ SettleRag(t)
      PROVE  TaskStep(u)
  BY <1>4, OneTurn DEF HangUp, SettleChat, SettleRag, Over, Lost, TaskStep
<1>5. ASSUME NEW t \in Turns, ReadPrompt(t)
      PROVE  TaskStep(u)
  BY <1>5, OneTurn DEF ReadPrompt, Fails, Prompt, TaskStep
<1>6. ASSUME NEW t \in Turns, Dispatch(t)
      PROVE  TaskStep(u)
  <2>1. turn[t] \in [pc : {"dispatch", "call"}, thread : Threads, asked : Turns]
    BY <1>6, Shapes DEF Dispatch
  <2>2. /\ u # t => turn'[u] = turn[u]
        /\ turn'[t] \in {Fails(t), [turn[t] EXCEPT !.pc = "call"]}
    BY <1>6, OneTurn DEF Dispatch
  <2>3. \/ turn'[t].pc = "settle" /\ turn'[t].text = None
        \/ turn'[t].pc = "call" /\ turn'[t].asked = turn[t].asked
    BY <2>1, <2>2 DEF Fails
  <2> QED BY <1>6, <2>2, <2>3 DEF Dispatch, TaskStep
<1>7. ASSUME NEW t \in Turns, NEW v \in Turns, NEW how \in Hows, Answered(t, how, v)
      PROVE  TaskStep(u)
  <2>1. /\ u # t => turn'[u] = turn[u]
        /\ turn'[t] \in {Fails(t), [pc |-> "settle", thread |-> turn[t].thread,
                                    text |-> turn[t].asked]}
    BY <1>7, OneTurn DEF Answered, Taken
  <2>2. /\ turn'[t].pc = "settle"
        /\ turn'[t].text = None \/ turn'[t].text = turn[t].asked
    BY <2>1 DEF Fails
  <2> QED BY <1>7, <2>1, <2>2 DEF Answered, TaskStep
<1>8. CASE Reboot
  BY <1>8 DEF Reboot, Lost, TaskStep
<1>9. CASE turn' = turn
  BY <1>9 DEF TaskStep
<1> QED BY <1>1, <1>2, <1>3, <1>3a, <1>4, <1>5, <1>6, <1>7, <1>8, <1>9
        DEF Next, Post, Task, CreateThread, SweepTurns, DeleteChat, DeleteRag, OpenStream,
            EndStream, PassesHorizon, Bridge, SiblingBoots, vars, turnVars

LEMMA StampSteps ==
    ASSUME TypeOK, Stamp, NEW u \in Turns
    PROVE  /\ AnswerStep(u) /\ msg'[u].thread = msg[u].thread
           /\ msg'[u].question = msg[u].question
<1>1. msg[u] \in MsgRow
  BY DEF TypeOK
<1>2. /\ ~Abandoned(u) => msg'[u] = msg[u]
      /\ Abandoned(u) => msg'[u] = [msg[u] EXCEPT !.status = "failed", !.stale = FALSE]
  BY DEF Stamp
<1>3. CASE Abandoned(u)
  <2>1. /\ msg'[u].status = "failed" /\ msg'[u].thread = msg[u].thread
        /\ msg'[u].question = msg[u].question
    BY <1>1, <1>2, <1>3 DEF MsgRow
  <2> QED BY <1>3, <2>1 DEF Abandoned, AnswerStep
<1>4. CASE ~Abandoned(u)
  BY <1>2, <1>4 DEF AnswerStep
<1> QED BY <1>3, <1>4

LEMMA AnswerSteps ==
    ASSUME TypeOK, [Next]_vars, NEW u \in Turns
    PROVE  AnswerStep(u) /\ PlaceStep(u)
<1>0. msg[u] \in MsgRow
  BY DEF TypeOK
<1>1. ASSUME NEW t \in Turns, AppendUser(t)
      PROVE  AnswerStep(u) /\ PlaceStep(u)
  <2>1. CASE msg' = msg
    BY <2>1 DEF AnswerStep, PlaceStep
  <2>2. CASE msg' = [msg EXCEPT ![t] =
                       [msg[t] EXCEPT !.thread = turn[t].thread, !.question = TRUE]]
    <3>1. u # t => msg'[u] = msg[u]
      BY <2>2, OneMsg
    <3>2. u = t => msg'[u] = [msg[u] EXCEPT !.thread = turn[t].thread, !.question = TRUE]
      BY <2>2, OneMsg
    <3>2a. u = t => msg'[u].status = msg[u].status /\ msg'[u].text = msg[u].text
      BY <1>0, <3>2 DEF MsgRow
    <3> QED BY <1>1, <3>1, <3>2a DEF AppendUser, AnswerStep, PlaceStep
  <2> QED BY <1>1, <2>1, <2>2 DEF AppendUser
<1>2. ASSUME NEW t \in Turns, AppendPendingAssistant(t)
      PROVE  AnswerStep(u) /\ PlaceStep(u)
  <2>1. CASE msg' = msg
    BY <2>1 DEF AnswerStep, PlaceStep
  <2>2. CASE /\ msg' = [msg EXCEPT ![t] = [msg[t] EXCEPT !.status = "pending"]]
             /\ Goes(t, [turn[t] EXCEPT !.pc = "spawn"])
    <3>1. u # t => msg'[u] = msg[u]
      BY <2>2, OneMsg
    <3>2. u = t => msg'[u] = [msg[u] EXCEPT !.status = "pending"]
      BY <2>2, OneMsg
    <3>2a. u = t => msg'[u].status = "pending" /\ msg'[u].thread = msg[u].thread
      BY <1>0, <3>2 DEF MsgRow
    <3>3. turn[t] \in [pc : {"question", "answer", "spawn", "read"}, thread : Threads]
      BY <1>2, Shapes DEF AppendPendingAssistant
    <3>4. turn'[t].pc = "spawn"
      BY <2>2, <3>3, OneTurn
    <3> QED BY <1>2, <3>1, <3>2a, <3>4 DEF AppendPendingAssistant, AnswerStep, PlaceStep
  <2> QED BY <1>2, <2>1, <2>2 DEF AppendPendingAssistant
<1>3. ASSUME NEW t \in Turns, SettleChat(t) \/ SettleRag(t)
      PROVE  AnswerStep(u) /\ PlaceStep(u)
  <2>1. CASE msg' = msg
    BY <2>1 DEF AnswerStep, PlaceStep
  <2> DEFINE status == IF turn[t].text = None THEN "failed" ELSE "complete"
  <2>2. CASE /\ Unsettled(t)
             /\ msg' = [msg EXCEPT ![t] = [msg[t] EXCEPT !.status = status,
                                              !.text = turn[t].text, !.stale = FALSE]]
    <3>1. u # t => msg'[u] = msg[u]
      BY <2>2, OneMsg
    <3>2. u = t => msg'[u] = [msg[u] EXCEPT !.status = status, !.text = turn[t].text,
                                            !.stale = FALSE]
      BY <2>2, OneMsg
    <3>3. u = t => /\ msg'[u].status = status /\ msg'[u].thread = msg[u].thread
                   /\ msg'[u].text = turn[t].text
      BY <1>0, <3>2 DEF MsgRow
    <3> QED BY <1>3, <2>2, <3>1, <3>3
            DEF SettleChat, SettleRag, Unsettled, AnswerStep, PlaceStep
  <2> QED BY <1>3, <2>1, <2>2 DEF SettleChat, SettleRag, SettleRow
<1>4. ASSUME NEW th \in Threads, NEW gone, TakesThread(th, gone)
      PROVE  AnswerStep(u) /\ PlaceStep(u)
  BY <1>4, WithoutShape DEF TakesThread, AnswerStep, PlaceStep
<1>5. ASSUME NEW th \in Threads, DeleteChat(th) \/ DeleteRag(th), msg' # msg
      PROVE  AnswerStep(u) /\ PlaceStep(u)
  BY <1>4, <1>5 DEF DeleteChat, DeleteRag
<1>6. ASSUME NEW t \in Turns, PassesHorizon(t)
      PROVE  AnswerStep(u) /\ PlaceStep(u)
  <2>1. u # t => msg'[u] = msg[u]
    BY <1>6, OneMsg DEF PassesHorizon
  <2>2. u = t => /\ msg'[u].status = msg[u].status /\ msg'[u].text = msg[u].text
                 /\ msg'[u].thread = msg[u].thread
    BY <1>0, <1>6, OneMsg DEF PassesHorizon, MsgRow
  <2> QED BY <2>1, <2>2 DEF AnswerStep, PlaceStep
<1>7. CASE SiblingBoots \/ Reboot
  BY <1>7, StampSteps DEF SiblingBoots, Reboot, PlaceStep
<1>8. CASE msg' = msg
  BY <1>8 DEF AnswerStep, PlaceStep
<1> QED BY <1>1, <1>2, <1>3, <1>5, <1>6, <1>7, <1>8
        DEF Next, Post, SendChat, SendRag, SpawnTask, HangUp, Task, ReadPrompt, Dispatch,
            Answered, CreateThread, SweepTurns, OpenStream, EndStream, Bridge, vars, turnVars

LEMMA OwnStep ==
    ASSUME TypeOK, CarriesOwn, AnswersOwnQuestion, [Next]_vars
    PROVE  CarriesOwn' /\ AnswersOwnQuestion'
<1>1. CarriesOwn'
  BY TaskSteps DEF CarriesOwn, TaskStep
<1>2. None # "complete"
  BY NoneIsNoValue DEF Statuses
<1>3. AnswersOwnQuestion'
  BY <1>2, AnswerSteps DEF CarriesOwn, AnswersOwnQuestion, AnswerStep
<1> QED BY <1>1, <1>3

LEMMA BelongStep ==
    ASSUME TypeOK, RowsBelong, NotYet, [Next]_vars
    PROVE  RowsBelong' /\ NotYet'
<1>1. RowsBelong'
  BY TaskSteps, AnswerSteps DEF RowsBelong, TaskStep, PlaceStep
<1>2. None # "pending"
  BY NoneIsNoValue DEF Statuses
<1>3. NotYet'
  <2> SUFFICES ASSUME NEW t \in Turns, turn'[t].pc \in {"new", "question", "answer"}
               PROVE  msg'[t].status = None
    BY DEF NotYet
  <2>1. turn[t].pc \in {"new", "question", "answer"}
    BY TaskSteps DEF TaskStep
  <2> QED BY <1>2, <2>1, AnswerSteps DEF NotYet, AnswerStep
<1> QED BY <1>1, <1>3

-----------------------------------------------------------------------------
(* Threads and the rows that hang on them. *)

HasRow(t) == msg[t].question \/ msg[t].status # None

LEMMA RowsUsed ==
    ASSUME NEW th \in Threads
    PROVE  RowsOf(th) # {} <=> \E t \in Turns : msg[t].thread = th /\ HasRow(t)
<1>1. \A t \in Questions(th) : <<t, "question">> \in RowsOf(th)
  BY DEF RowsOf
<1>2. \A t \in Answers(th) : <<t, "answer">> \in RowsOf(th)
  BY DEF RowsOf
<1>3. RowsOf(th) # {} => Questions(th) # {} \/ Answers(th) # {}
  BY DEF RowsOf
<1> QED BY <1>1, <1>2, <1>3 DEF Questions, Answers, HasRow

\* A turn that has a row after the step had one before, in the same thread, or
\* the thread was there when the row went in.
LEMMA InsertStep ==
    ASSUME TypeOK, RowsBelong, [Next]_vars, NEW u \in Turns, HasRow(u)'
    PROVE  \/ HasRow(u) /\ msg'[u].thread = msg[u].thread
           \/ There(msg'[u].thread) /\ thread' = thread
<1>0. msg[u] \in MsgRow
  BY DEF TypeOK
<1>1. ASSUME NEW t \in Turns, AppendUser(t), msg'[u] # msg[u]
      PROVE  There(msg'[u].thread) /\ thread' = thread
  <2>1. /\ msg' = [msg EXCEPT ![t] =
                     [msg[t] EXCEPT !.thread = turn[t].thread, !.question = TRUE]]
        /\ There(turn[t].thread) /\ thread' = thread
    BY <1>1 DEF AppendUser, Touch
  <2>2. u = t
    BY <1>1, <2>1, OneMsg
  <2>3. msg'[u] = [msg[u] EXCEPT !.thread = turn[u].thread, !.question = TRUE]
    BY <2>1, <2>2, OneMsg
  <2>4. msg'[u].thread = turn[u].thread
    BY <1>0, <2>3 DEF MsgRow
  <2> QED BY <2>1, <2>2, <2>4
<1>2. ASSUME NEW t \in Turns, AppendPendingAssistant(t), msg'[u] # msg[u]
      PROVE  There(msg'[u].thread) /\ thread' = thread
  <2>1. /\ msg' = [msg EXCEPT ![t] = [msg[t] EXCEPT !.status = "pending"]]
        /\ There(turn[t].thread) /\ thread' = thread
    BY <1>2 DEF AppendPendingAssistant, Touch
  <2>2. u = t
    BY <1>2, <2>1, OneMsg
  <2>3. msg'[u] = [msg[u] EXCEPT !.status = "pending"]
    BY <2>1, <2>2, OneMsg
  <2>4. msg'[u].thread = msg[u].thread
    BY <1>0, <2>3 DEF MsgRow
  <2> QED BY <1>2, <2>1, <2>2, <2>4 DEF AppendPendingAssistant, RowsBelong
<1>3. ASSUME NEW t \in Turns, SettleChat(t) \/ SettleRag(t), msg'[u] # msg[u]
      PROVE  HasRow(u) /\ msg'[u].thread = msg[u].thread
  <2>1. PICK s : /\ Unsettled(t)
                 /\ msg' = [msg EXCEPT ![t] = [msg[t] EXCEPT !.status = s,
                                               !.text = turn[t].text, !.stale = FALSE]]
    BY <1>3 DEF SettleChat, SettleRag, SettleRow
  <2>2. u = t
    BY <1>3, <2>1, OneMsg
  <2>3. msg'[u] = [msg[u] EXCEPT !.status = s, !.text = turn[u].text, !.stale = FALSE]
    BY <2>1, <2>2, OneMsg
  <2>4. msg'[u].thread = msg[u].thread
    BY <1>0, <2>3 DEF MsgRow
  <2> QED BY <2>1, <2>2, <2>4, NoneIsNoValue DEF Unsettled, HasRow, Statuses
<1>4. ASSUME NEW th \in Threads, NEW gone, TakesThread(th, gone)
      PROVE  HasRow(u) /\ msg'[u].thread = msg[u].thread
  BY <1>4, WithoutShape DEF TakesThread, HasRow
<1>5. ASSUME NEW t \in Turns, PassesHorizon(t), msg'[u] # msg[u]
      PROVE  HasRow(u) /\ msg'[u].thread = msg[u].thread
  <2>1. u = t /\ msg'[u] = [msg[u] EXCEPT !.stale = TRUE]
    BY <1>5, OneMsg DEF PassesHorizon
  <2>2. msg'[u].thread = msg[u].thread
    BY <1>0, <2>1 DEF MsgRow
  <2> QED BY <1>5, <2>1, <2>2, NoneIsNoValue DEF PassesHorizon, HasRow, Statuses
<1>6. ASSUME Stamp
      PROVE  HasRow(u) /\ msg'[u].thread = msg[u].thread
  <2>1. msg'[u] = msg[u] \/ Abandoned(u)
    BY <1>6 DEF Stamp
  <2> QED BY <1>6, <2>1, StampSteps, NoneIsNoValue DEF Abandoned, HasRow, Statuses
<1>7. CASE msg'[u] = msg[u]
  BY <1>7 DEF HasRow
<1> QED BY <1>1, <1>2, <1>3, <1>4, <1>5, <1>6, <1>7
        DEF Next, Post, SendChat, SendRag, SpawnTask, HangUp, Task, ReadPrompt, Dispatch,
            Answered, CreateThread, SweepTurns, DeleteChat, DeleteRag, OpenStream, EndStream,
            Bridge, SiblingBoots, Reboot, vars, turnVars

\* What a delete that goes through has found: no row of the thread is left.
LEMMA DeleteTakesAll ==
    ASSUME TypeOK, NEW th \in Threads, DeleteChat(th) \/ DeleteRag(th),
           thread' # thread \/ seats' # seats \/ msg' # msg
    PROVE  \E gone : TakesThread(th, gone) /\ RowsOf(th) \subseteq gone
<1>1. CASE DeleteChat(th)
  <2>1. TakesThread(th, sweep[th]) /\ Stranded(th) = {}
    BY <1>1 DEF DeleteChat
  <2> QED BY <2>1 DEF Stranded
<1>2. CASE DeleteRag(th)
  <2>1. TakesThread(th, sweep[th] \cup Stranded(th))
    BY <1>2 DEF DeleteRag
  <2> QED BY <2>1 DEF Stranded
<1> QED BY <1>1, <1>2

LEMMA RowsThereStep ==
    ASSUME TypeOK, RowsBelong, RowsThere, [Next]_vars
    PROVE  RowsThere'
<1> SUFFICES ASSUME NEW h \in Threads, NEW u \in Turns, msg'[u].thread = h, HasRow(u)'
             PROVE  thread'[h].there
  <2>1. \A h \in Threads : RowsOf(h)' # {} =>
                              \E u \in Turns : msg'[u].thread = h /\ HasRow(u)'
    BY DEF RowsOf, Questions, Answers, HasRow
  <2> QED BY <2>1 DEF RowsThere, There
<1>1. HasRow(u) /\ msg[u].thread = h => There(h)
  BY RowsUsed DEF RowsThere
<1>2. CASE thread' = thread
  BY <1>1, <1>2, InsertStep DEF There
<1>3. ASSUME NEW th \in Threads, NEW nest \in Nests, CreateThread(th, nest)
      PROVE  thread'[h].there
  <2>1. HasRow(u) /\ msg[u].thread = h
    BY <1>3 DEF CreateThread, HasRow
  <2> QED BY <1>1, <1>3, <2>1 DEF CreateThread, There, TypeOK
<1>4. ASSUME NEW th \in Threads, DeleteChat(th) \/ DeleteRag(th), thread' # thread
      PROVE  thread'[h].there
  <2>1. PICK gone : TakesThread(th, gone) /\ RowsOf(th) \subseteq gone
    BY <1>4, DeleteTakesAll
  <2>2. /\ msg[u].thread = h
        /\ msg'[u].question => msg[u].question /\ <<u, "question">> \notin gone
        /\ msg'[u].status # None => msg[u].status # None /\ <<u, "answer">> \notin gone
    BY <2>1, WithoutShape DEF TakesThread
  <2>3. h # th
    BY <2>1, <2>2 DEF HasRow, RowsOf, Questions, Answers
  <2>4. HasRow(u)
    BY <2>2 DEF HasRow
  <2> QED BY <1>1, <2>1, <2>2, <2>3, <2>4 DEF TakesThread, There, TypeOK
<1> QED BY <1>2, <1>3, <1>4
        DEF Next, Post, SendChat, SendRag, AppendUser, AppendPendingAssistant, SpawnTask,
            HangUp, Task, ReadPrompt, Dispatch, SettleChat, SettleRag, Answered, SweepTurns,
            OpenStream, EndStream, PassesHorizon, Bridge, SiblingBoots, Reboot, vars, turnVars

LEMMA SweepsStep ==
    ASSUME TypeOK, SweepsOpen, [Next]_vars
    PROVE  SweepsOpen'
<1>1. ASSUME NEW th \in Threads, NEW nest \in Nests, CreateThread(th, nest)
      PROVE  SweepsOpen'
  BY <1>1 DEF CreateThread, SweepsOpen, There, TypeOK
<1>2. ASSUME NEW th \in Threads, SweepTurns(th)
      PROVE  SweepsOpen'
  BY <1>2 DEF SweepTurns, SweepsOpen, There, TypeOK
<1>3. ASSUME NEW th \in Threads, DeleteChat(th) \/ DeleteRag(th)
      PROVE  SweepsOpen'
  <2>1. sweep' = [sweep EXCEPT ![th] = None]
    BY <1>3 DEF DeleteChat, DeleteRag
  <2>2. \A h \in Threads \ {th} : thread'[h] = thread[h]
    BY <1>3 DEF DeleteChat, DeleteRag, TakesThread, TypeOK
  <2> QED BY <2>1, <2>2 DEF SweepsOpen, There, TypeOK
<1>4. CASE Reboot
  BY <1>4 DEF Reboot, SweepsOpen
<1>5. CASE thread' = thread /\ sweep' = sweep
  BY <1>5 DEF SweepsOpen, There
<1> QED BY <1>1, <1>2, <1>3, <1>4, <1>5
        DEF Next, Post, SendChat, SendRag, AppendUser, AppendPendingAssistant, SpawnTask,
            HangUp, Task, ReadPrompt, Dispatch, SettleChat, SettleRag, Answered, OpenStream,
            EndStream, PassesHorizon, Bridge, SiblingBoots, vars, turnVars

LEMMA SeatsStep ==
    ASSUME TypeOK, SweepsOpen, SeatsExact, [Next]_vars
    PROVE  SeatsExact'
<1> DEFINE Open(n) == {th \in Of(n) : There(th)}
<1>0. \A n \in Nests : IsFiniteSet(Open(n)) /\ Cardinality(Open(n)) \in Nat
  <2>1. \A n \in Nests : Open(n) \in SUBSET Threads
    BY DEF Of
  <2> QED BY <2>1, TurnsAssumption, FS_Subset, FS_CardinalityType
<1>1. ASSUME NEW th \in Threads, NEW nest \in Nests, CreateThread(th, nest)
      PROVE  SeatsExact'
  <2>1. th \notin Open(nest)
    BY <1>1, NoneIsNoValue DEF CreateThread, Of
  <2>2. Open(nest)' = Open(nest) \cup {th}
    BY <1>1 DEF CreateThread, Of, There, TypeOK
  <2>3. \A n \in Nests \ {nest} : Open(n)' = Open(n)
    BY <1>1, NoneIsNoValue DEF CreateThread, Of, There, TypeOK
  <2>4. Cardinality(Open(nest)') = Cardinality(Open(nest)) + 1
    BY <1>0, <2>1, <2>2, FS_AddElement
  <2>5. /\ seats'[nest] = seats[nest] + 1
        /\ \A n \in Nests \ {nest} : seats'[n] = seats[n]
    BY <1>1 DEF CreateThread, TypeOK
  <2>6. \A n \in Nests : seats[n] = Cardinality(Open(n))
    BY DEF SeatsExact
  <2> HIDE DEF Open
  <2>7. \A n \in Nests : seats'[n] = Cardinality(Open(n)')
    BY <2>3, <2>4, <2>5, <2>6
  <2> QED BY <2>7 DEF SeatsExact, Open
<1>2. ASSUME NEW th \in Threads, NEW gone, TakesThread(th, gone),
             DeleteChat(th) \/ DeleteRag(th)
      PROVE  SeatsExact'
  <2>0. PICK nest \in Nests : nest = thread[th].nest
    BY <1>2 DEF DeleteChat, DeleteRag, Nests
  <2>1. th \in Open(nest)
    BY <1>2, <2>0 DEF DeleteChat, DeleteRag, SweepsOpen, Of
  <2>2. /\ thread'[th].nest = nest /\ ~thread'[th].there
        /\ \A h \in Threads \ {th} : thread'[h] = thread[h]
    BY <1>2, <2>0 DEF TakesThread, TypeOK
  <2>3. \A n \in Nests : Open(n)' = IF n = nest THEN Open(n) \ {th} ELSE Open(n)
    BY <2>0, <2>2 DEF Of, There
  <2>4. /\ Cardinality(Open(nest)') = Cardinality(Open(nest)) - 1
        /\ Cardinality(Open(nest)) # 0
    <3>1. Open(nest)' = Open(nest) \ {th} /\ IsFiniteSet(Open(nest))
      BY <1>0, <2>3
    <3> HIDE DEF Open
    <3> QED BY <2>1, <3>1, FS_RemoveElement, FS_EmptySet
  <2>5. \A n \in Nests : seats[n] = Cardinality(Open(n))
    BY DEF SeatsExact
  <2>6. seats' = [seats EXCEPT ![nest] = IF seats[nest] > 0 THEN seats[nest] - 1 ELSE 0]
    BY <1>2, <2>0 DEF TakesThread
  <2> HIDE DEF Open
  <2>7. seats[nest] \in Nat /\ seats[nest] # 0
    BY <1>0, <2>0, <2>4, <2>5
  <2>8. seats'[nest] = seats[nest] - 1 /\ \A n \in Nests \ {nest} : seats'[n] = seats[n]
    BY <2>0, <2>6, <2>7 DEF TypeOK
  <2>9. \A n \in Nests : seats'[n] = Cardinality(Open(n)')
    BY <2>3, <2>4, <2>5, <2>8
  <2> QED BY <2>9 DEF SeatsExact, Open
<1>3. ASSUME NEW th \in Threads, DeleteChat(th) \/ DeleteRag(th),
             thread' # thread \/ seats' # seats
      PROVE  SeatsExact'
  BY <1>2, <1>3, DeleteTakesAll
<1>4. CASE thread' = thread /\ seats' = seats
  BY <1>4 DEF SeatsExact, Of, There
<1> QED BY <1>1, <1>3, <1>4
        DEF Next, Post, SendChat, SendRag, AppendUser, AppendPendingAssistant, SpawnTask,
            HangUp, Task, ReadPrompt, Dispatch, SettleChat, SettleRag, Answered, SweepTurns,
            OpenStream, EndStream, PassesHorizon, Bridge, SiblingBoots, Reboot, vars, turnVars

-----------------------------------------------------------------------------
LEMMA InvInit == Init => Inv
<1> SUFFICES ASSUME Init PROVE Inv
  OBVIOUS
<1>1. CarriesOwn /\ NotYet /\ RowsBelong /\ SweepsOpen
  BY DEF Init, CarriesOwn, NotYet, RowsBelong, SweepsOpen, NoRow
<1>2. AnswersOwnQuestion
  BY NoneIsNoValue DEF Init, AnswersOwnQuestion, NoRow, Statuses
<1>3. RowsThere
  BY DEF Init, RowsThere, RowsOf, Questions, Answers, NoRow
<1>4. SeatsExact
  <2>1. \A n \in Nests : {th \in Of(n) : There(th)} = {}
    BY DEF Init, Of, There
  <2> QED BY <2>1, FS_EmptySet DEF Init, SeatsExact
<1> QED BY <1>1, <1>2, <1>3, <1>4, TypeInit DEF Inv

LEMMA InvStep == Inv /\ [Next]_vars => Inv'
  BY TypeStep, OwnStep, BelongStep, SweepsStep, RowsThereStep, SeatsStep DEF Inv

LEMMA InvAlways == Spec => []Inv
  BY InvInit, InvStep, PTL DEF Spec

\* Every variable of the two nests keeps its shape through POSTs, tasks, deletes
\* and restarts (send_message, answer_turn, delete, migrate_school).
THEOREM TypeSafe == Spec => []TypeOK
<1>1. Inv => TypeOK
  BY DEF Inv
<1> QED BY <1>1, InvAlways, PTL

\* An answer that landed answers the question of its own POST, for any number of
\* turns and whatever streams a worker mixes up (prompt_of, dispatch_with_timeout).
THEOREM AnswersSafe == Spec => []AnswersOwnQuestion
<1>1. Inv => AnswersOwnQuestion
  BY DEF Inv
<1> QED BY <1>1, InvAlways, PTL

\* No row outlives its thread and the counters are the threads there are, for any
\* number of threads and of turns behind a delete's sweep (insert, delete,
\* create_capped).
THEOREM ThreadsSafe == Spec => []ThreadsWhole
<1>1. Inv => ThreadsWhole
  BY DEF Inv, ThreadsWhole, RowsThere, SeatsExact
<1> QED BY <1>1, InvAlways, PTL

-----------------------------------------------------------------------------
(* The answer rows implement AsyncAnswer. *)

\* What a status says of the answer.
LEMMA AnswerShapes ==
    ASSUME NEW t \in Turns
    PROVE  /\ msg[t].status = None => AnswerOf(t) = "none"
           /\ msg[t].status = "pending" => AnswerOf(t) = "owed"
           /\ msg'[t].status = msg[t].status => AnswerOf(t)' = AnswerOf(t)
           /\ msg'[t].status = None => AnswerOf(t)' = "none"
           /\ msg'[t].status = "pending" => AnswerOf(t)' = "owed"
           /\ msg'[t].status = "complete" => AnswerOf(t)' = "kept"
           /\ msg'[t].status = "failed" => AnswerOf(t)' = "broken"
  BY NoneIsNoValue DEF AnswerOf, Statuses

\* A step that touches one turn's answer.
LEMMA OneAnswer ==
    ASSUME Inv, [Next]_vars, NEW t \in Turns, \A u \in Turns \ {t} : msg'[u] = msg[u]
    PROVE  [Promise!Next]_([u \in Turns |-> AnswerOf(u)])
<1> DEFINE answers == [u \in Turns |-> AnswerOf(u)]
<1>1. \A u \in Turns \ {t} : AnswerOf(u)' = AnswerOf(u)
  BY AnswerShapes
<1>2. answers' = [answers EXCEPT ![t] = AnswerOf(t)']
  BY <1>1
<1>3. answers[t] = AnswerOf(t)
  OBVIOUS
<1>4. AnswerStep(t)
  BY AnswerSteps DEF Inv
<1>5. turn[t].pc = "answer" => msg[t].status = None
  BY DEF Inv, NotYet
<1>6. \/ AnswerOf(t)' = AnswerOf(t)
      \/ AnswerOf(t) = "none" /\ AnswerOf(t)' = "owed"
      \/ AnswerOf(t) = "owed" /\ AnswerOf(t)' = "kept"
      \/ AnswerOf(t) = "owed" /\ AnswerOf(t)' = "broken"
      \/ AnswerOf(t)' = "none"
  BY <1>4, <1>5, AnswerShapes DEF AnswerStep
<1>7. CASE AnswerOf(t)' = AnswerOf(t)
  <2>1. answers' = answers
    BY <1>2, <1>3, <1>7
  <2> QED BY <2>1
<1>8. CASE AnswerOf(t) = "none" /\ AnswerOf(t)' = "owed"
  <2>1. Promise!Accept(t)
    BY <1>2, <1>3, <1>8 DEF Promise!Accept
  <2> QED BY <2>1 DEF Promise!Next
<1>9. CASE AnswerOf(t) = "owed" /\ AnswerOf(t)' = "kept"
  <2>1. Promise!Keep(t)
    BY <1>2, <1>3, <1>9 DEF Promise!Keep
  <2> QED BY <2>1 DEF Promise!Next
<1>10. {t} \in SUBSET Turns
  OBVIOUS
<1>11. CASE AnswerOf(t) = "owed" /\ AnswerOf(t)' = "broken"
  <2>1. Promise!Break({t})
    BY <1>2, <1>3, <1>11 DEF Promise!Break
  <2> QED BY <1>10, <2>1 DEF Promise!Next
<1>12. CASE AnswerOf(t)' = "none"
  <2>1. Promise!Withdraw({t})
    BY <1>2, <1>3, <1>12 DEF Promise!Withdraw
  <2> QED BY <1>10, <2>1 DEF Promise!Next
<1> QED BY <1>6, <1>7, <1>8, <1>9, <1>11, <1>12

LEMMA AnswersImplement ==
    ASSUME Inv, [Next]_vars
    PROVE  [Promise!Next]_([t \in Turns |-> AnswerOf(t)])
<1> DEFINE answers == [t \in Turns |-> AnswerOf(t)]
<1>0. TypeOK
  BY DEF Inv
<1>1. ASSUME NEW t \in Turns, NEW m, msg' = [msg EXCEPT ![t] = m]
      PROVE  [Promise!Next]_answers
  <2>1. \A u \in Turns \ {t} : msg'[u] = msg[u]
    BY <1>0, <1>1 DEF TypeOK
  <2> QED BY <2>1, OneAnswer
<1>2. CASE msg' = msg
  <2>1. answers' = answers
    BY <1>2, AnswerShapes
  <2> QED BY <2>1
<1>3. ASSUME NEW th \in Threads, NEW gone, TakesThread(th, gone)
      PROVE  [Promise!Next]_answers
  <2> DEFINE R == {t \in Turns : <<t, "answer">> \in gone}
  <2>1. \A t \in Turns : IF t \in R THEN msg'[t].status = None
                         ELSE msg'[t].status = msg[t].status
    BY <1>0, <1>3, WithoutShape DEF TakesThread
  <2>2. \A t \in Turns : AnswerOf(t)' = IF t \in R THEN "none" ELSE AnswerOf(t)
    BY <2>1, AnswerShapes
  <2>3. R \in SUBSET Turns
    OBVIOUS
  <2> HIDE DEF R
  <2>4. Promise!Withdraw(R)
    BY <2>2 DEF Promise!Withdraw
  <2> QED BY <2>3, <2>4 DEF Promise!Next
<1>4. ASSUME Stamp
      PROVE  [Promise!Next]_answers
  <2> DEFINE R == {t \in Turns : Abandoned(t)}
  <2>1. ASSUME NEW t \in Turns
        PROVE  IF t \in R THEN msg[t].status = "pending" /\ msg'[t].status = "failed"
               ELSE msg'[t] = msg[t]
    <3>1. msg[t] \in MsgRow
      BY <1>0 DEF TypeOK
    <3>2. msg'[t] = IF Abandoned(t) THEN [msg[t] EXCEPT !.status = "failed", !.stale = FALSE]
                    ELSE msg[t]
      BY <1>4 DEF Stamp
    <3>3. CASE t \in R
      <4>1. msg'[t].status = "failed"
        BY <3>1, <3>2, <3>3 DEF MsgRow
      <4> QED BY <3>3, <4>1 DEF Abandoned
    <3> QED BY <3>2, <3>3
  <2>2. \A t \in Turns : AnswerOf(t)' = IF t \in R THEN "broken" ELSE AnswerOf(t)
    BY <2>1, AnswerShapes
  <2>3. \A t \in R : AnswerOf(t) = "owed" /\ t \in Turns
    BY <2>1, AnswerShapes
  <2>4. R \in SUBSET Turns
    OBVIOUS
  <2> HIDE DEF R
  <2>5. Promise!Break(R)
    BY <2>2, <2>3 DEF Promise!Break
  <2> QED BY <2>4, <2>5 DEF Promise!Next
<1>5. ASSUME NEW t \in Turns, Post(t) \/ Task(t) \/ PassesHorizon(t)
      PROVE  msg' = msg \/ \E m : msg' = [msg EXCEPT ![t] = m]
  BY <1>5 DEF Post, SendChat, SendRag, AppendUser, AppendPendingAssistant, SpawnTask,
              HangUp, Task, ReadPrompt, Dispatch, SettleChat, SettleRag, SettleRow,
              PassesHorizon
<1>6. ASSUME NEW th \in Threads, DeleteChat(th) \/ DeleteRag(th)
      PROVE  msg' = msg \/ \E gone : TakesThread(th, gone)
  BY <1>6 DEF DeleteChat, DeleteRag
<1>7. CASE \E t \in Turns : Post(t) \/ Task(t) \/ PassesHorizon(t)
  BY <1>1, <1>2, <1>5, <1>7
<1>8. CASE \E th \in Threads : DeleteChat(th) \/ DeleteRag(th)
  BY <1>2, <1>3, <1>6, <1>8
<1>9. CASE SiblingBoots \/ Reboot
  BY <1>4, <1>9 DEF SiblingBoots, Reboot
<1>10. [Promise!Next]_answers
  BY <1>2, <1>7, <1>8, <1>9
     DEF Next, Answered, CreateThread, SweepTurns, OpenStream, EndStream, Bridge, vars,
         turnVars
<1> QED BY <1>10

\* A settled answer is final, whatever replies, boots and deletes arrive after
\* it: the answer rows implement AsyncAnswer for any number of turns and threads
\* (settle, migrate_school, delete).
THEOREM TurnsRefine == Spec => TurnsSettleOnce
<1>1. Init => Promise!Init
  <2>1. ASSUME Init, NEW t \in Turns PROVE AnswerOf(t) = "none"
    BY <2>1, AnswerShapes DEF Init, NoRow
  <2> QED BY <2>1 DEF Promise!Init
<1>2. Inv /\ [Next]_vars => [Promise!Next]_([t \in Turns |-> AnswerOf(t)])
  BY AnswersImplement
<1> QED BY <1>1, <1>2, InvAlways, PTL DEF Spec, TurnsSettleOnce, Promise!Spec

=============================================================================
