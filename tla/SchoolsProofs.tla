--------------------------- MODULE SchoolsProofs ----------------------------
(***************************************************************************)
(* What Schools' run checks on a small instance, for any number of         *)
(* schools, requests, processes, crashes and faults.                       *)
(*                                                                         *)
(* CreatedIsWhole is not inductive alone: a create is answered 201 after   *)
(* six statements on two databases, and what an earlier one wrote must     *)
(* still stand when the answer is made.  CreateOK says what a create may   *)
(* rely on at each of its statements while no delete of its school has     *)
(* begun; OneCreate, that no other create works on that school.            *)
(***************************************************************************)
EXTENDS Schools, WellFoundedInduction, TLAPS

\* Some delete of the school has arrived, whatever became of it.
DeleteBegan(s) ==
    \E u \in Requests : req[u] # Idle /\ req[u].of = "delete" /\ req[u].school = s

Creates(t) == req[t] # Idle /\ req[t].of = "create"

\* Ids are minted once.
OneCreate ==
    \A t, u \in Requests :
        Creates(t) /\ Creates(u) /\ t # u => req[t].school # req[u].school

\* What a create's earlier statements wrote.
CreateOK(t) ==
    LET s == req[t].school  pc == req[t].pc
    IN /\ pc \in {"ensure", "migrate", "activate"} => row[s] # None
       /\ pc \in {"seed", "link", "read_back", "created"}
             => row[s] \in {"active", "suspended"}
       /\ pc \in {"link", "read_back", "created"} => database[s] = "seeded"
       /\ pc \in {"read_back", "created"} => member[s]

CreatesOK ==
    \A t \in Requests : Creates(t) => DeleteBegan(req[t].school) \/ CreateOK(t)

Inv == TypeOK /\ OneCreate /\ CreatesOK

-----------------------------------------------------------------------------
(* Types. *)

\* The school that a boot visits next is one of those it listed: a set of
\* numbers that is not empty has a least one.
LEMMA MinIsMember ==
    ASSUME NEW S \in SUBSET Nat, S # {}
    PROVE  Min(S) \in S
<1> DEFINE R == OpToRel(<, Nat)
<1>1. PICK x \in S : \A y \in S : ~(<<y, x>> \in R)
  <2> HIDE DEF R
  <2>1. IsWellFoundedOn(R, Nat)
    BY NatLessThanWellFounded DEF R
  <2> QED BY <2>1, WFMin
<1>2. \A y \in S : y < x => <<y, x>> \in R
  BY DEF OpToRel
<1>3. \A y \in S : x =< y
  <2> HIDE DEF R
  <2>1. \A y \in S : ~(y < x)
    BY <1>1, <1>2
  <2>2. \A y \in S : y \in Int /\ x \in Int
    OBVIOUS
  <2> QED BY <2>1, <2>2
<1> QED BY <1>3 DEF Min

\* The kinds of requests, by what their records say.
LEMMA Shapes ==
    ASSUME TypeOK, NEW t \in Requests
    PROVE  /\ req[t] = Idle <=> req[t].pc = "idle"
           /\ req[t] # Idle => /\ req[t] \in CreateRequest \cup DeleteRequest
                               /\ req[t].school \in Schools
                               /\ req[t].of \in {"create", "delete"}
           /\ req[t] # Idle /\ req[t].of = "create" => req[t] \in CreateRequest
           /\ req[t] # Idle /\ req[t].of = "delete" => req[t] \in DeleteRequest
  BY DEF TypeOK, Idle, CreateRequest, DeleteRequest

\* A request that goes to another of its own statements keeps its shape.
LEMMA GoesTyped ==
    ASSUME TypeOK, NEW t \in Requests, NEW pc, Goes(t, pc),
           [req[t] EXCEPT !.pc = pc] \in CreateRequest \cup DeleteRequest
    PROVE  req' \in [Requests -> {Idle} \cup CreateRequest \cup DeleteRequest]
  BY DEF TypeOK, Goes

\* The three statements of bring_up write what they may.
LEMMA BringUpTyped ==
    ASSUME TypeOK, NEW s \in Schools, NEW step \in {"ensure", "migrate", "activate"},
           BringUp(s, step)
    PROVE  /\ row' \in [Schools -> Status \cup {None}]
           /\ database' \in [Schools -> {"none", "bare", "head", "seeded"}]
           /\ faults' = faults
  BY DEF TypeOK, BringUp, Ensured, Migrated, Status

\* A fault is one more of those the bound allows.
LEMMA FaultTyped ==
    ASSUME TypeOK, Fault
    PROVE  faults' \in 0 .. MaxFaults
  BY BoundsAreNat DEF TypeOK, Fault

USE DEF TypeOK

LEMMA TypeInit == Init => TypeOK
  BY BoundsAreNat DEF Init, Idle, Down, Status, BootState

LEMMA BootTyped ==
    ASSUME TypeOK, NEW p \in Servers, BootStep(p) \/ BootFails(p) \/ Crash(p)
    PROVE  TypeOK'
<1>1. CASE Boot(p)
  BY <1>1 DEF Boot, Down, BootState
<1>2. CASE ReconcileNext(p)
  BY <1>2, MinIsMember DEF ReconcileNext, Visit, Schools, BootState
<1>3. CASE ReconcileBringsUp(p)
  <2> DEFINE s == boot[p].at.school
             step == boot[p].at.step
  <2>1. boot[p].at \in Visit
    BY <1>3 DEF ReconcileBringsUp, BootState
  <2>2. s \in Schools /\ step \in {"ensure", "migrate", "activate"}
    BY <2>1 DEF Visit
  <2>3. /\ row' \in [Schools -> Status \cup {None}]
        /\ database' \in [Schools -> {"none", "bare", "head", "seeded"}]
        /\ faults' \in 0 .. MaxFaults
    BY <1>3, <2>2, BringUpTyped, FaultTyped DEF ReconcileBringsUp, BringUpFails
  <2>4. boot' \in [Servers -> BootState]
    <3> HIDE DEF s, step
    <3>0. boot[p] \in BootState
      OBVIOUS
    <3>1. CASE boot' = [boot EXCEPT ![p] =
                          IF step = "activate"
                          THEN [@ EXCEPT !.at = None, !.todo = boot[p].todo \ {s}]
                          ELSE [@ EXCEPT !.at.step = StepOf[step]]]
      <4>1. step # "activate" => StepOf[step] \in {"migrate", "activate"}
        BY <2>2 DEF StepOf
      <4> QED BY <2>1, <3>0, <3>1, <4>1 DEF BootState, Visit
    <3>2. CASE boot' = [boot EXCEPT ![p] =
                          [@ EXCEPT !.at = None, !.todo = Remaining(p, s),
                                    !.failed = boot[p].failed \cup {s}]]
      BY <2>2, <3>0, <3>2 DEF BootState, Remaining
    <3> QED BY <1>3, <3>1, <3>2 DEF ReconcileBringsUp, s, step
  <2> QED BY <1>3, <2>3, <2>4 DEF ReconcileBringsUp
<1>4. CASE SweepList(p)
  BY <1>4, FaultTyped DEF SweepList, BootState
<1>5. CASE SweepSchool(p)
  <2>1. Min(boot[p].todo) \in Schools
    BY <1>5, MinIsMember DEF SweepSchool, Schools, BootState
  <2> QED BY <1>5, <2>1, FaultTyped DEF SweepSchool, Migrated, BootState
<1>6. CASE Serve(p)
  BY <1>6 DEF Serve, BootState
<1>7. CASE BootFails(p)
  BY <1>7, FaultTyped DEF BootFails
<1>8. CASE Crash(p)
  <2>1. crashes' \in 0 .. MaxCrashes
    BY <1>8, BoundsAreNat DEF Crash
  <2>2. req' \in [Requests -> {Idle} \cup CreateRequest \cup DeleteRequest]
    BY <1>8 DEF Crash, CreateRequest, DeleteRequest
  <2> QED BY <1>8, <2>1, <2>2 DEF Crash, Down, BootState
<1> QED BY <1>1, <1>2, <1>3, <1>4, <1>5, <1>6, <1>7, <1>8 DEF BootStep

LEMMA RequestTyped ==
    ASSUME TypeOK, NEW t \in Requests, RequestStep(t)
    PROVE  TypeOK'
<1> DEFINE s == req[t].school
<1>0. ASSUME req[t] # Idle
      PROVE  req[t] \in CreateRequest \cup DeleteRequest /\ s \in Schools
  BY <1>0, Shapes
<1>1. CASE CreateBringsUp(t)
  <2>1. req[t] \in CreateRequest /\ req[t].pc \in {"ensure", "migrate", "activate"}
    BY <1>1, Shapes DEF CreateBringsUp, StepOf, Idle, DeleteRequest
  <2>2. req' \in [Requests -> {Idle} \cup CreateRequest \cup DeleteRequest]
    <3>1. PICK pc \in {"migrate", "activate", "seed", "undo_row"} : Goes(t, pc)
      BY <1>1, <2>1 DEF CreateBringsUp, StepOf, Under
    <3>2. [req[t] EXCEPT !.pc = pc] \in CreateRequest
      BY <2>1 DEF CreateRequest
    <3> QED BY <3>1, <3>2, GoesTyped
  <2>3. /\ row' \in [Schools -> Status \cup {None}]
        /\ database' \in [Schools -> {"none", "bare", "head", "seeded"}]
        /\ faults' \in 0 .. MaxFaults
    BY <1>1, <2>1, BringUpTyped, FaultTyped
       DEF CreateBringsUp, BringUpFails, CreateRequest
  <2> QED BY <1>1, <2>2, <2>3 DEF CreateBringsUp
<1>2. CASE UndoRow(t)
  BY <1>2, Shapes, GoesTyped, FaultTyped DEF UndoRow, Under, CreateRequest, DeleteRequest
<1>3. CASE UndoDatabase(t)
  BY <1>3, Shapes, GoesTyped, FaultTyped DEF UndoDatabase, Under, CreateRequest, DeleteRequest
<1>4. CASE Seed(t)
  <2>1. req[t] \in CreateRequest
    BY <1>4, Shapes DEF Seed, Under, Idle, DeleteRequest
  <2>2. \A pc \in {"link", "drop_read"} : [req[t] EXCEPT !.pc = pc] \in CreateRequest
    BY <2>1 DEF CreateRequest
  <2>3. req' \in [Requests -> {Idle} \cup CreateRequest \cup DeleteRequest]
    BY <1>4, <2>2, GoesTyped DEF Seed
  <2> QED BY <1>4, <2>1, <2>3, FaultTyped DEF Seed, CreateRequest
<1>5. CASE Link(t)
  BY <1>5, Shapes, GoesTyped, FaultTyped DEF Link, Under, CreateRequest, DeleteRequest
<1>6. CASE ReadBack(t)
  BY <1>6, Shapes, GoesTyped DEF ReadBack, Under, CreateRequest, DeleteRequest
<1>7. CASE DropRead(t)
  BY <1>7, Shapes, GoesTyped DEF DropRead, Dropped, Under, CreateRequest, DeleteRequest
<1>8. CASE DropDatabase(t)
  BY <1>8, Shapes, GoesTyped, FaultTyped DEF DropDatabase, Under, CreateRequest, DeleteRequest
<1>9. CASE DropRows(t)
  BY <1>9, Shapes, GoesTyped, FaultTyped
     DEF DropRows, Dropped, Under, CreateRequest, DeleteRequest
<1> QED BY <1>1, <1>2, <1>3, <1>4, <1>5, <1>6, <1>7, <1>8, <1>9 DEF RequestStep

LEMMA TypeStep == TypeOK /\ [Next]_vars => TypeOK'
<1> SUFFICES ASSUME TypeOK, [Next]_vars PROVE TypeOK'
  OBVIOUS
<1>1. CASE \E p \in Servers : BootStep(p) \/ BootFails(p) \/ Crash(p)
  BY <1>1, BootTyped
<1>2. CASE \E t \in Requests : RequestStep(t)
  BY <1>2, RequestTyped
<1>3. ASSUME NEW t \in Requests, NEW p \in Servers, NEW s \in Schools,
             Create(t, p, s) \/ Delete(t, p, s)
      PROVE  TypeOK'
  BY <1>3 DEF Create, Delete, CreateRequest, DeleteRequest, Status
<1>4. ASSUME NEW s \in Schools, NEW status \in {"active", "suspended"},
             UpdateSchool(s, status)
      PROVE  TypeOK'
  BY <1>4 DEF UpdateSchool, Status
<1>5. CASE UNCHANGED vars
  BY <1>5 DEF vars
<1> QED BY <1>1, <1>2, <1>3, <1>4, <1>5 DEF Next

\* Every variable keeps its shape, whatever requests, boots, crashes and faults
\* interleave (create_school, delete_school, init).
THEOREM TypeSafe == Spec => []TypeOK
  BY TypeInit, TypeStep, PTL DEF Spec

-----------------------------------------------------------------------------
(* A created school is whole. *)

\* A request never changes what it is and which school it is for.
LEMMA SameRequest ==
    ASSUME TypeOK, [Next]_vars, NEW u \in Requests, req[u] # Idle
    PROVE  /\ req'[u] # Idle
           /\ req'[u].of = req[u].of /\ req'[u].school = req[u].school
<1>1. ASSUME NEW t \in Requests, NEW pc, Goes(t, pc), req[t] # Idle
      PROVE  /\ req'[u] # Idle
             /\ req'[u].of = req[u].of /\ req'[u].school = req[u].school
  BY <1>1, Shapes DEF Goes, Idle, CreateRequest, DeleteRequest
<1>2. ASSUME NEW t \in Requests, RequestStep(t)
      PROVE  /\ req[t] # Idle
             /\ \E pc : Goes(t, pc)
  BY <1>2 DEF RequestStep, CreateBringsUp, UndoRow, UndoDatabase, Seed, Link, ReadBack,
              DropRead, DropDatabase, DropRows, Under, Idle, StepOf, Dropped
<1>3. ASSUME NEW p \in Servers, BootStep(p) \/ BootFails(p)
      PROVE  req' = req
  BY <1>3 DEF BootStep, Boot, BootFails, ReconcileNext, ReconcileBringsUp, SweepList,
              SweepSchool, Serve
<1>4. ASSUME NEW p \in Servers, Crash(p)
      PROVE  /\ req'[u] # Idle
             /\ req'[u].of = req[u].of /\ req'[u].school = req[u].school
  BY <1>4, Shapes DEF Crash, Idle, CreateRequest, DeleteRequest
<1>5. ASSUME NEW t \in Requests, NEW p \in Servers, NEW s \in Schools,
             Create(t, p, s) \/ Delete(t, p, s)
      PROVE  req'[u] = req[u]
  BY <1>5 DEF Create, Delete, Arrives
<1>6. ASSUME NEW s \in Schools, NEW status \in {"active", "suspended"},
             UpdateSchool(s, status)
      PROVE  req' = req
  BY <1>6 DEF UpdateSchool
<1>7. CASE UNCHANGED vars
  BY <1>7 DEF vars
<1> QED BY <1>1, <1>2, <1>3, <1>4, <1>5, <1>6, <1>7 DEF Next

\* A delete that began is not forgotten.
LEMMA DeleteStays ==
    ASSUME TypeOK, [Next]_vars, NEW s, DeleteBegan(s)
    PROVE  DeleteBegan(s)'
  BY SameRequest DEF DeleteBegan

\* A request that was not there before has just arrived; a create is the first
\* of its school.
LEMMA NewRequest ==
    ASSUME TypeOK, [Next]_vars, NEW u \in Requests, req[u] = Idle, req'[u] # Idle
    PROVE  \E p \in Servers, s \in Schools : Create(u, p, s) \/ Delete(u, p, s)
<1>1. ASSUME NEW t \in Requests, RequestStep(t)
      PROVE  req'[u] = Idle
  BY <1>1 DEF RequestStep, CreateBringsUp, UndoRow, UndoDatabase, Seed, Link, ReadBack,
              DropRead, DropDatabase, DropRows, Under, Idle, StepOf, Goes
<1>2. ASSUME NEW p \in Servers, BootStep(p) \/ BootFails(p) \/ Crash(p)
      PROVE  req'[u] = Idle
  BY <1>2 DEF BootStep, Boot, BootFails, ReconcileNext, ReconcileBringsUp, SweepList,
              SweepSchool, Serve, Crash
<1>3. ASSUME NEW t \in Requests, NEW p \in Servers, NEW s \in Schools,
             Create(t, p, s) \/ Delete(t, p, s)
      PROVE  t = u
  BY <1>3 DEF Create, Delete
<1>4. ASSUME NEW s \in Schools, NEW status \in {"active", "suspended"},
             UpdateSchool(s, status)
      PROVE  req'[u] = Idle
  BY <1>4 DEF UpdateSchool
<1>5. CASE UNCHANGED vars
  BY <1>5 DEF vars
<1> QED BY <1>1, <1>2, <1>3, <1>4, <1>5 DEF Next

LEMMA OneCreateStep ==
    ASSUME TypeOK, OneCreate, [Next]_vars
    PROVE  OneCreate'
<1> SUFFICES ASSUME NEW t \in Requests, NEW u \in Requests, t # u,
                    Creates(t)', Creates(u)', req'[t].school = req'[u].school
             PROVE  FALSE
  BY DEF OneCreate, Creates
<1>1. ASSUME NEW v \in Requests, NEW w \in Requests, v # w,
             Creates(v)', Creates(w)', req'[v].school = req'[w].school,
             req[v] = Idle
      PROVE  FALSE
  <2>1. PICK p \in Servers, s \in Schools : Create(v, p, s) \/ Delete(v, p, s)
    BY <1>1, NewRequest DEF Creates
  <2>2. Create(v, p, s)
    BY <1>1, <2>1 DEF Delete, Creates
  <2>3. req'[v].school = s /\ req'[w] = req[w]
    BY <1>1, <2>2 DEF Create
  <2>4. req[w] # Idle /\ req[w].school = s
    BY <1>1, <2>3 DEF Creates
  <2> QED BY <2>2, <2>4 DEF Create, Minted
<1>2. req[t] # Idle /\ req[u] # Idle
  BY <1>1
<1> QED BY <1>2, SameRequest DEF OneCreate, Creates

\* What is not a statement of a request leaves a school at least as far as it
\* was: the boot's repair and sweep and a builder's PATCH never take anything.
LEMMA OthersPreserve ==
    ASSUME TypeOK, NEW u \in Requests, Creates(u), CreateOK(u),
           \/ \E p \in Servers : BootStep(p) \/ BootFails(p) \/ Crash(p)
           \/ \E s \in Schools, status \in {"active", "suspended"} : UpdateSchool(s, status)
    PROVE  CreateOK(u)'
<1> DEFINE s == req[u].school
<1>0. req[u] \in CreateRequest /\ s \in Schools
  BY Shapes DEF Creates
<1>1. ASSUME NEW v \in Schools, NEW step \in {"ensure", "migrate", "activate"},
             BringUp(v, step)
      PROVE  /\ row'[s] \in {row[s], "active"} /\ (row[s] = None => row'[s] = None)
             /\ database[s] = "seeded" => database'[s] = "seeded"
  BY <1>0, <1>1 DEF BringUp, Ensured, Migrated
<1>2. ASSUME \/ row'[s] \in {row[s], "active", "suspended"}
             \/ row'[s] = row[s],
             row[s] # None => row'[s] # None,
             database[s] = "seeded" => database'[s] = "seeded",
             member' = member,
             req'[u] = req[u] \/ req'[u] = [req[u] EXCEPT !.pc = "lost"]
      PROVE  CreateOK(u)'
  BY <1>0, <1>2 DEF CreateOK, CreateRequest
<1>3. ASSUME NEW p \in Servers, ReconcileBringsUp(p)
      PROVE  CreateOK(u)'
  <2>1. boot[p].at \in Visit
    BY <1>3 DEF ReconcileBringsUp, BootState
  <2>2. /\ boot[p].at.school \in Schools
        /\ boot[p].at.step \in {"ensure", "migrate", "activate"}
    BY <2>1 DEF Visit
  <2>3. \/ BringUp(boot[p].at.school, boot[p].at.step)
        \/ row' = row /\ database' = database
    BY <1>3 DEF ReconcileBringsUp
  <2> QED BY <1>1, <1>2, <1>3, <2>2, <2>3, NoneIsNoValue DEF ReconcileBringsUp, Status
<1>4. ASSUME NEW p \in Servers, SweepSchool(p)
      PROVE  CreateOK(u)'
  <2>1. database[s] = "seeded" => database'[s] = "seeded"
    BY <1>0, <1>4 DEF SweepSchool, Migrated
  <2> QED BY <1>2, <1>4, <2>1 DEF SweepSchool
<1>5. ASSUME NEW p \in Servers,
             Boot(p) \/ ReconcileNext(p) \/ SweepList(p) \/ Serve(p) \/ BootFails(p)
      PROVE  CreateOK(u)'
  BY <1>2, <1>5 DEF Boot, ReconcileNext, SweepList, Serve, BootFails
<1>6. ASSUME NEW p \in Servers, Crash(p)
      PROVE  CreateOK(u)'
  BY <1>2, <1>6 DEF Crash
<1>7. ASSUME NEW v \in Schools, NEW status \in {"active", "suspended"},
             UpdateSchool(v, status)
      PROVE  CreateOK(u)'
  BY <1>0, <1>2, <1>7, NoneIsNoValue DEF UpdateSchool, Status
<1> QED BY <1>3, <1>4, <1>5, <1>6, <1>7 DEF BootStep

\* A statement of a request touches its own school alone.
LEMMA TouchesOwnSchool ==
    ASSUME TypeOK, NEW t \in Requests, RequestStep(t),
           NEW s \in Schools, s # req[t].school
    PROVE  row'[s] = row[s] /\ database'[s] = database[s] /\ member'[s] = member[s]
<1>1. CASE CreateBringsUp(t)
  BY <1>1 DEF CreateBringsUp, BringUp, StepOf
<1>2. CASE ~CreateBringsUp(t)
  BY <1>2 DEF RequestStep, UndoRow, UndoDatabase, Seed, Link, ReadBack,
              DropRead, DropDatabase, DropRows
<1> QED BY <1>1, <1>2

\* A create's own statements bring it from one promise to the next.
LEMMA CreateAdvances ==
    ASSUME TypeOK, NEW t \in Requests, Creates(t), CreateOK(t), RequestStep(t)
    PROVE  CreateOK(t)'
<1> DEFINE s == req[t].school
<1>0. req[t] \in CreateRequest /\ s \in Schools
  BY Shapes DEF Creates
<1>00. ASSUME NEW pc, Goes(t, pc)
       PROVE  req'[t].pc = pc /\ req'[t].school = s
  BY <1>0, <1>00 DEF Goes, CreateRequest
<1>1. CASE CreateBringsUp(t)
  <2>1. req[t].pc \in {"ensure", "migrate", "activate"} /\ row[s] # None
    BY <1>1 DEF CreateBringsUp, StepOf, CreateOK
  <2>2. \/ req'[t].pc = "undo_row"
        \/ /\ req'[t].pc \in {"migrate", "activate"} /\ row' = row
        \/ /\ req'[t].pc = "seed" /\ row'[s] = "active"
    <3>1. CASE Goes(t, "undo_row")
      BY <1>00, <3>1
    <3>2. CASE req[t].pc = "ensure" /\ ~Goes(t, "undo_row")
      BY <1>00, <1>1, <3>2 DEF CreateBringsUp, BringUp, StepOf, Under
    <3>3. CASE req[t].pc = "migrate" /\ ~Goes(t, "undo_row")
      BY <1>00, <1>1, <3>3 DEF CreateBringsUp, BringUp, StepOf, Under
    <3>4. CASE req[t].pc = "activate" /\ ~Goes(t, "undo_row")
      BY <1>0, <1>00, <1>1, <2>1, <3>4 DEF CreateBringsUp, BringUp, StepOf, Under
    <3> QED BY <2>1, <3>1, <3>2, <3>3, <3>4
  <2>3. req'[t].school = s
    BY <1>00, <1>1 DEF CreateBringsUp
  <2> QED BY <2>1, <2>2, <2>3 DEF CreateOK
<1>2. CASE UndoRow(t) \/ UndoDatabase(t) \/ DropRead(t) \/ DropDatabase(t) \/ DropRows(t)
  <2>1. req'[t].pc \in {"undo_database", "failed", "drop_database", "drop_rows"}
    BY <1>00, <1>2 DEF UndoRow, UndoDatabase, DropRead, DropDatabase, DropRows, Dropped, Creates
  <2> QED BY <2>1 DEF CreateOK
<1>3. CASE Seed(t)
  BY <1>0, <1>00, <1>3 DEF Seed, Under, CreateOK
<1>4. CASE Link(t)
  <2>1. row[s] # None /\ row[s] \in {"active", "suspended"} /\ database[s] = "seeded"
    BY <1>4, NoneIsNoValue DEF Link, Under, CreateOK, Status
  <2>2. CASE Goes(t, "drop_read")
    BY <1>00, <2>2 DEF CreateOK
  <2>3. CASE Goes(t, "read_back") /\ member' = [member EXCEPT ![s] = row[s] # None]
    BY <1>0, <1>00, <1>4, <2>1, <2>3 DEF Link, CreateOK
  <2> QED BY <1>4, <2>2, <2>3 DEF Link
<1>5. CASE ReadBack(t)
  BY <1>0, <1>00, <1>5 DEF ReadBack, Under, CreateOK
<1> QED BY <1>1, <1>2, <1>3, <1>4, <1>5 DEF RequestStep

LEMMA CreatesOKStep ==
    ASSUME TypeOK, OneCreate, CreatesOK, [Next]_vars
    PROVE  CreatesOK'
<1> SUFFICES ASSUME NEW u \in Requests, Creates(u)', ~DeleteBegan(req[u].school)'
             PROVE  CreateOK(u)'
  BY DEF CreatesOK, Creates, CreateOK, DeleteBegan
<1>1. CASE req[u] = Idle
  <2>1. PICK p \in Servers, s \in Schools : Create(u, p, s)
    <3>1. PICK p \in Servers, s \in Schools : Create(u, p, s) \/ Delete(u, p, s)
      BY <1>1, NewRequest DEF Creates
    <3> QED BY <3>1 DEF Creates, Delete
  <2>2. req'[u].pc = "ensure" /\ req'[u].school = s /\ row'[s] = "provisioning"
    BY <2>1 DEF Create
  <2> QED BY <2>2, NoneIsNoValue DEF CreateOK, Status
<1>2. CASE req[u] # Idle
  <2> DEFINE s == req[u].school
  <2>1. /\ Creates(u) /\ req'[u].school = s /\ ~DeleteBegan(s)
        /\ CreateOK(u) /\ s \in Schools
    BY <1>2, SameRequest, DeleteStays, Shapes DEF Creates, CreatesOK
  <2>2. ASSUME NEW t \in Requests, RequestStep(t), t # u
        PROVE  CreateOK(u)'
    <3>1. req[t] # Idle /\ req'[u] = req[u]
      BY <2>2 DEF RequestStep, CreateBringsUp, UndoRow, UndoDatabase, Seed, Link, ReadBack,
                  DropRead, DropDatabase, DropRows, Under, Idle, StepOf, Goes
    <3>2. req[t].school # s
      BY <2>1, <2>2, <3>1, Shapes DEF OneCreate, Creates, DeleteBegan
    <3> QED BY <2>1, <2>2, <3>1, <3>2, TouchesOwnSchool DEF CreateOK
  <2>3. ASSUME NEW t \in Requests, NEW p \in Servers, NEW v \in Schools,
               Create(t, p, v) \/ Delete(t, p, v)
        PROVE  CreateOK(u)'
    <3>1. req'[u] = req[u]
      BY <1>2, <2>3 DEF Create, Delete, Arrives
    <3>2. Create(t, p, v) => v # s
      BY <1>2 DEF Create, Minted
    <3> QED BY <2>1, <2>3, <3>1, <3>2 DEF Create, Delete, CreateOK
  <2>4. CASE UNCHANGED vars
    BY <2>1, <2>4 DEF vars, CreateOK
  <2> QED BY <2>1, <2>2, <2>3, <2>4, CreateAdvances, OthersPreserve DEF Next
<1> QED BY <1>1, <1>2

\* The three parts of the invariant are kept together.
LEMMA InvStep == Inv /\ [Next]_vars => Inv'
  BY TypeStep, OneCreateStep, CreatesOKStep DEF Inv

\* A builder answered 201 has a school that can be entered, whatever another
\* process boots, repairs, sweeps, patches or creates meanwhile, for any number
\* of them, until a delete of it begins (create_school, bring_up, drop).
THEOREM CreatedSafe == Spec => []CreatedIsWhole
<1>1. Init => Inv
  <2>1. Init => TypeOK
    BY TypeInit
  <2> QED BY <2>1 DEF Init, Inv, OneCreate, CreatesOK, Creates
<1>2. Inv => CreatedIsWhole
  <2> SUFFICES ASSUME Inv, NEW t \in Requests, Under(t, "created")
               PROVE  \/ DeleteBegan(req[t].school)
                      \/ CreateOK(t)
    BY DEF CreatedIsWhole, DeleteBegan, CreateOK, Under
  <2>1. req[t] # Idle /\ req[t].of \in {"create", "delete"}
    BY Shapes DEF Inv, Under, Idle
  <2> QED BY <2>1 DEF Inv, CreatesOK, Creates, DeleteBegan
<1> QED BY <1>1, <1>2, InvStep, PTL DEF Spec
=============================================================================
