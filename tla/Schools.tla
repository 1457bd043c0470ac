------------------------------ MODULE Schools -------------------------------
(***************************************************************************)
(* A school's life in the registry.  Its row lives in the control          *)
(* database, its data in a database of its own, and no transaction covers  *)
(* both: create, delete and the boot's repair are sequences of statements  *)
(* that a failure or a crash may cut anywhere, while another process       *)
(* boots, creates or deletes.                                              *)
(*                                                                         *)
(* Left out: the pool cache, module sets and names, the files directory,   *)
(* persons (they outlive schools), memberships other than the first        *)
(* admin's.                                                                *)
(***************************************************************************)
EXTENDS Naturals, FiniteSetsExt

CONSTANTS
    None,
    MaxSchools,   \* schools ever created
    MaxRequests,  \* POST and DELETE requests ever made
    Servers,      \* processes on the one control database
    MaxCrashes,   \* crashes of a process, at most
    MaxFaults     \* statements that fail for no reason of ours, at most

ASSUME BoundsAreNat == {MaxSchools, MaxRequests, MaxCrashes, MaxFaults} \subseteq Nat

Schools == 1 .. MaxSchools     \* in the order of created_at
Requests == 1 .. MaxRequests   \* in the order they arrive

Status == {"provisioning", "active", "suspended"}

\* A school a boot is bringing up.
Visit == [school : Schools, step : {"ensure", "migrate", "activate"}]

ASSUME NoneIsNoValue == None \notin Status \cup Visit

VARIABLES
    row,       \* per school, the status of its registry row, or None
    database,  \* per school: none, bare, head (migrated) or seeded (with its admin)
    member,    \* per school, whether its first admin's membership stands
    req,       \* per request, the statement it is about to run
    boot,      \* per process, how far its boot is
    crashes, faults

vars == <<row, database, member, req, boot, crashes, faults>>

Idle == [pc |-> "idle"]
Ended == {"created", "deleted", "failed", "lost"}
Down == [pc |-> "down", todo |-> {}, at |-> None, failed |-> {}]

Init ==
    /\ row = [s \in Schools |-> None]
    /\ database = [s \in Schools |-> "none"]
    /\ member = [s \in Schools |-> FALSE]
    /\ req = [t \in Requests |-> Idle]
    /\ boot = [p \in Servers |-> Down]
    /\ crashes = 0 /\ faults = 0

Goes(t, pc) == req' = [req EXCEPT ![t].pc = pc]
Under(t, pc) == req[t].pc = pc
Serving(p) == boot[p].pc = "serving"

\* The next request to arrive, and the ids that have been minted.
Arrives(t) == req[t] = Idle /\ \A u \in 1 .. t - 1 : req[u] # Idle
Minted == {req[u].school : u \in {v \in Requests : req[v] # Idle}}

\* A statement errors: the store is away, a pool is exhausted, a disk is full.
Fault == faults < MaxFaults /\ faults' = faults + 1

-----------------------------------------------------------------------------
(* bring_up, of a create and of a boot's repair: three statements. *)

\* Variant: what is already there is created anew.
EnsuredAnew(d) == "bare"

\* ensure_database adopts a database that is already there.
Ensured(d) == IF d = "none" THEN "bare" ELSE d

\* migrate_school is idempotent.
Migrated(d) == IF d = "bare" THEN "head" ELSE d

StepOf == [ensure |-> "migrate", migrate |-> "activate", activate |-> "done"]

\* The UPDATE names the id alone, whatever the status is by now.
BringUp(s, step) ==
    /\ CASE step = "ensure" ->
              /\ database' = [database EXCEPT ![s] = Ensured(@)]
              /\ UNCHANGED row
         [] step = "migrate" ->
              /\ database[s] # "none"
              /\ database' = [database EXCEPT ![s] = Migrated(@)]
              /\ UNCHANGED row
         [] step = "activate" ->
              /\ row' = [row EXCEPT ![s] = IF @ = None THEN None ELSE "active"]
              /\ UNCHANGED database
    /\ UNCHANGED faults

\* A pool cannot be dialled on a database that is gone.
BringUpFails(s, step) ==
    \/ Fault
    \/ step = "migrate" /\ database[s] = "none" /\ UNCHANGED faults

-----------------------------------------------------------------------------
(* POST /builder/schools *)

\* The registry row commits first, marked provisioning.
Create(t, p, s) ==
    /\ Arrives(t) /\ Serving(p)
    /\ s \notin Minted /\ 1 .. s - 1 \subseteq Minted
    /\ row' = [row EXCEPT ![s] = "provisioning"]
    /\ req' = [req EXCEPT ![t] = [pc |-> "ensure", server |-> p, school |-> s, of |-> "create"]]
    /\ UNCHANGED <<database, member, boot, crashes, faults>>

CreateBringsUp(t) ==
    /\ req[t].pc \in DOMAIN StepOf
    /\ \/ /\ BringUp(req[t].school, req[t].pc)
          /\ Goes(t, IF Under(t, "activate") THEN "seed" ELSE StepOf[req[t].pc])
       \/ /\ BringUpFails(req[t].school, req[t].pc)
          /\ Goes(t, "undo_row")
          /\ UNCHANGED <<row, database>>
    /\ UNCHANGED <<member, boot, crashes>>

\* A failed bring_up takes the row back, then the database, each if it can.
UndoRow(t) ==
    /\ Under(t, "undo_row")
    /\ \/ row' = [row EXCEPT ![req[t].school] = None] /\ UNCHANGED faults
       \/ Fault /\ UNCHANGED row
    /\ Goes(t, "undo_database")
    /\ UNCHANGED <<database, member, boot, crashes>>

UndoDatabase(t) ==
    /\ Under(t, "undo_database")
    /\ \/ database' = [database EXCEPT ![req[t].school] = "none"] /\ UNCHANGED faults
       \/ Fault /\ UNCHANGED database
    /\ Goes(t, "failed")
    /\ UNCHANGED <<row, member, boot, crashes>>

\* The first admin's account, in the school's own database.
Seed(t) ==
    /\ Under(t, "seed")
    /\ \/ /\ database[req[t].school] = "head"
          /\ database' = [database EXCEPT ![req[t].school] = "seeded"]
          /\ Goes(t, "link")
          /\ UNCHANGED faults
       \/ /\ Fault \/ (database[req[t].school] # "head" /\ UNCHANGED faults)
          /\ Goes(t, "drop_read")
          /\ UNCHANGED database
    /\ UNCHANGED <<row, member, boot, crashes>>

\* add_membership selects the school it inserts for: one that is gone adds none.
Link(t) ==
    /\ Under(t, "link")
    /\ \/ /\ member' = [member EXCEPT ![req[t].school] = row[req[t].school] # None]
          /\ Goes(t, "read_back")
          /\ UNCHANGED faults
       \/ Fault /\ Goes(t, "drop_read") /\ UNCHANGED member
    /\ UNCHANGED <<row, database, boot, crashes>>

\* The answer is the row as it stands; one that vanished is a 500.
ReadBack(t) ==
    /\ Under(t, "read_back")
    /\ Goes(t, IF row[req[t].school] = None THEN "failed" ELSE "created")
    /\ UNCHANGED <<row, database, member, boot, crashes, faults>>

-----------------------------------------------------------------------------
(* PATCH and DELETE /builder/schools/{id} *)

\* One statement; a client may name active and suspended, whatever the row says.
UpdateSchool(s, status) ==
    /\ \E p \in Servers : Serving(p)
    /\ row[s] \notin {None, status}
    /\ row' = [row EXCEPT ![s] = status]
    /\ UNCHANGED <<database, member, req, boot, crashes, faults>>

Delete(t, p, s) ==
    /\ Arrives(t) /\ Serving(p) /\ row[s] # None
    /\ req' = [req EXCEPT ![t] = [pc |-> "drop_read", server |-> p, school |-> s, of |-> "delete"]]
    /\ UNCHANGED <<row, database, member, boot, crashes, faults>>

(* Tenants::drop, of a delete and of a create whose seed failed. *)

\* A create that drops what it made has failed; a delete is answered.
Dropped(t) == IF req[t].of = "delete" THEN "deleted" ELSE "failed"

\* A row already gone means there is nothing left to do.
DropRead(t) ==
    /\ Under(t, "drop_read")
    /\ Goes(t, IF row[req[t].school] = None THEN Dropped(t) ELSE "drop_database")
    /\ UNCHANGED <<row, database, member, boot, crashes, faults>>

\* The database goes first: it is the half that can fail on its own.
DropDatabase(t) ==
    /\ Under(t, "drop_database")
    /\ \/ /\ database' = [database EXCEPT ![req[t].school] = "none"]
          /\ Goes(t, "drop_rows")
          /\ UNCHANGED faults
       \/ Fault /\ Goes(t, "failed") /\ UNCHANGED database
    /\ UNCHANGED <<row, member, boot, crashes>>

\* Then the rows that name the school and its own, in one transaction.
DropRows(t) ==
    /\ Under(t, "drop_rows")
    /\ \/ /\ row' = [row EXCEPT ![req[t].school] = None]
          /\ member' = [member EXCEPT ![req[t].school] = FALSE]
          /\ Goes(t, Dropped(t))
          /\ UNCHANGED faults
       \/ Fault /\ Goes(t, "failed") /\ UNCHANGED <<row, member>>
    /\ UNCHANGED <<database, boot, crashes>>

-----------------------------------------------------------------------------
(* init: the repair and the schema sweep, before a process serves. *)

\* reconcile_provisioning lists the half-made schools; an error ends the boot.
Boot(p) ==
    /\ boot[p].pc = "down"
    /\ boot' = [boot EXCEPT ![p] =
                  [Down EXCEPT !.pc = "reconcile",
                               !.todo = {s \in Schools : row[s] = "provisioning"}]]
    /\ UNCHANGED <<row, database, member, req, crashes, faults>>

BootFails(p) ==
    /\ boot[p].pc = "down" /\ Fault
    /\ UNCHANGED <<row, database, member, req, boot, crashes>>

\* Schools are visited in the order of created_at.
ReconcileNext(p) ==
    /\ boot[p].pc = "reconcile" /\ boot[p].at = None /\ boot[p].todo # {}
    /\ boot' = [boot EXCEPT ![p].at = [school |-> Min(boot[p].todo), step |-> "ensure"]]
    /\ UNCHANGED <<row, database, member, req, crashes, faults>>

\* Variant: the first failure ends the repair.
RemainingStops(p, s) == {}

\* One school's failure is logged, and the others get their turn.
Remaining(p, s) == boot[p].todo \ {s}

ReconcileBringsUp(p) ==
    /\ boot[p].pc = "reconcile" /\ boot[p].at # None
    /\ LET s == boot[p].at.school
           step == boot[p].at.step
       IN  \/ /\ BringUp(s, step)
              /\ boot' = [boot EXCEPT ![p] =
                            IF step = "activate"
                            THEN [@ EXCEPT !.at = None, !.todo = boot[p].todo \ {s}]
                            ELSE [@ EXCEPT !.at.step = StepOf[step]]]
           \/ /\ BringUpFails(s, step)
              /\ boot' = [boot EXCEPT ![p] =
                            [@ EXCEPT !.at = None, !.todo = Remaining(p, s),
                                      !.failed = boot[p].failed \cup {s}]]
              /\ UNCHANGED <<row, database>>
    /\ UNCHANGED <<member, req, crashes>>

\* sweep_school_schemas lists every school; a list that fails is no reason to stop.
SweepList(p) ==
    /\ boot[p].pc = "reconcile" /\ boot[p].at = None /\ boot[p].todo = {}
    /\ \/ /\ boot' = [boot EXCEPT ![p].pc = "sweep",
                                  ![p].todo = {s \in Schools : row[s] # None}]
          /\ UNCHANGED faults
       \/ Fault /\ boot' = [boot EXCEPT ![p].pc = "serving"]
    /\ UNCHANGED <<row, database, member, req, crashes>>

\* sweep_school: a database that is not there stays so, and is logged.
SweepSchool(p) ==
    /\ boot[p].pc = "sweep" /\ boot[p].todo # {}
    /\ boot' = [boot EXCEPT ![p].todo = @ \ {Min(@)}]
    /\ \/ database' = [database EXCEPT ![Min(boot[p].todo)] = Migrated(@)] /\ UNCHANGED faults
       \/ Fault /\ UNCHANGED database
    /\ UNCHANGED <<row, member, req, crashes>>

Serve(p) ==
    /\ boot[p].pc = "sweep" /\ boot[p].todo = {}
    /\ boot' = [boot EXCEPT ![p].pc = "serving"]
    /\ UNCHANGED <<row, database, member, req, crashes, faults>>

\* A process dies anywhere, its requests with it.
Crash(p) ==
    /\ boot[p].pc # "down" /\ crashes < MaxCrashes
    /\ crashes' = crashes + 1
    /\ boot' = [boot EXCEPT ![p] = Down]
    /\ req' = [t \in Requests |->
                 IF req[t] # Idle /\ req[t].pc \notin Ended /\ req[t].server = p
                 THEN [req[t] EXCEPT !.pc = "lost"] ELSE req[t]]
    /\ UNCHANGED <<row, database, member, faults>>

-----------------------------------------------------------------------------
BootStep(p) ==
    \/ Boot(p)
    \/ ReconcileNext(p)
    \/ ReconcileBringsUp(p)
    \/ SweepList(p)
    \/ SweepSchool(p)
    \/ Serve(p)

RequestStep(t) ==
    \/ CreateBringsUp(t)
    \/ UndoRow(t)
    \/ UndoDatabase(t)
    \/ Seed(t)
    \/ Link(t)
    \/ ReadBack(t)
    \/ DropRead(t)
    \/ DropDatabase(t)
    \/ DropRows(t)

Next ==
    \/ \E p \in Servers : BootStep(p) \/ BootFails(p) \/ Crash(p)
    \/ \E t \in Requests : RequestStep(t)
    \/ \E t \in Requests, p \in Servers, s \in Schools : Create(t, p, s) \/ Delete(t, p, s)
    \/ \E s \in Schools, status \in {"active", "suspended"} : UpdateSchool(s, status)

Spec == Init /\ [][Next]_vars

\* init runs straight through, and a process that ended is started again.
FairSpec == Spec /\ \A p \in Servers : WF_vars(BootStep(p))

-----------------------------------------------------------------------------
\* A create and a delete run different statements, and end differently.
CreateRequest ==
    [pc : {"ensure", "migrate", "activate", "undo_row", "undo_database", "seed",
           "link", "read_back", "drop_read", "drop_database", "drop_rows",
           "created", "failed", "lost"},
     server : Servers, school : Schools, of : {"create"}]
DeleteRequest ==
    [pc : {"drop_read", "drop_database", "drop_rows", "deleted", "failed", "lost"},
     server : Servers, school : Schools, of : {"delete"}]

BootState ==
    [pc : {"down", "reconcile", "sweep", "serving"}, todo : SUBSET Schools,
     at : Visit \cup {None}, failed : SUBSET Schools]

\* Every variable keeps its shape; a boot repairs and sweeps schools only.
TypeOK ==
    /\ row \in [Schools -> Status \cup {None}]
    /\ database \in [Schools -> {"none", "bare", "head", "seeded"}]
    /\ member \in [Schools -> BOOLEAN]
    /\ req \in [Requests -> {Idle} \cup CreateRequest \cup DeleteRequest]
    /\ boot \in [Servers -> BootState]
    /\ crashes \in 0 .. MaxCrashes /\ faults \in 0 .. MaxFaults

\* A builder answered 201 has a school that can be entered: its database at the
\* head with the first admin in it, its membership, its row out of provisioning;
\* whatever another process boots or patches meanwhile, until a delete of it
\* begins (create_school, bring_up, reconcile_provisioning).
CreatedIsWhole ==
    \A t \in Requests : Under(t, "created") =>
        LET s == req[t].school
        IN  \/ /\ database[s] = "seeded" /\ member[s]
               /\ row[s] \in {"active", "suspended"}
            \/ \E u \in Requests : req[u] # Idle /\ req[u].of = "delete" /\ req[u].school = s

\* A school left half-made is out of provisioning once a process has booted,
\* unless that boot's own attempt at this school failed: another school's failure
\* does not cost it its turn (reconcile_provisioning).
FinishedByBoot ==
    \A p \in Servers, s \in Schools :
        (boot[p].pc = "down" /\ row[s] = "provisioning")
            ~> (row[s] # "provisioning" \/ s \in boot[p].failed)
=============================================================================
