------------------------------ MODULE Payments ------------------------------
(***************************************************************************)
(* One student's fees: a plan that is edited until it is assigned, the     *)
(* charges an assignment raises, and the payments, refunds and reversals   *)
(* the desk appends under them.                                            *)
(*                                                                         *)
(* The ledger is append-only and every line but a charge names the line    *)
(* it is recorded against, so a charge is the root of a tree.  A desk      *)
(* request walks from its target to that root taking a row lock at each    *)
(* step, then reads, folds and appends; every statement is a step, and a   *)
(* request that dies gives up its transaction and its locks.               *)
(*                                                                         *)
(* Notes, methods, due dates and who recorded a line are left out, and so  *)
(* are the statements and balances that are only read.                     *)
(***************************************************************************)
EXTENDS Integers, Sequences, FiniteSets, FiniteSetsExt

CONSTANTS
    Desk,        \* desk requests in flight
    Plans,       \* the lists of installments a manager enters
    Amounts,     \* the sums a desk takes or hands back
    Keys,        \* request keys a client may send
    MaxApplied,  \* MAX_LEDGER_APPLIED_LINES
    MaxLines,    \* bound: lines of the ledger
    None         \* no key, no line

\* What follows the root in an id: a reversal's mark, or a request's with its key.
Tags == {<<"r">>} \cup ({"k", "kr"} \X Keys)
Id == Int \X Seq(Tags)

ASSUME PaymentAssumption ==
    /\ Plans \subseteq Seq(Nat \ {0}) /\ <<>> \notin Plans
    /\ Amounts \subseteq Nat \ {0}
    /\ None \notin Keys /\ None \notin Id
    /\ MaxApplied \in Nat \ {0} /\ MaxLines \in Nat

VARIABLES
    plan,      \* the fee_plan row: not created yet, there or deleted
    assigned,  \* whether the student's fee_plan_assignment row is there
    ledger,    \* the payment_ledger rows
    held,      \* the ids of the rows each request has locked
    req        \* per request, where it is suspended and what it read

vars == <<plan, assigned, ledger, held, req>>

Idle == [pc |-> "idle"]

\* A request that was answered keeps its answer until the next one begins.
Free(r) == req[r].pc \in {"idle", "ok", "refused"}

Suspend(r, q) == req' = [req EXCEPT ![r] = q]

\* The sign a line folds into the balance with.
Sign(kind) == IF kind \in {"charge", "refund"} THEN -1 ELSE 1

Ids == {l.id : l \in ledger}
Row(id) == CHOOSE l \in ledger : l.id = id

\* The ids: an installment's charge, the reversal of a line, a keyed request
\* against a line, or a fresh one.  No part of an id can spell the separator
\* that joins them, so an id is its parts.
Under(id, tag) == <<id[1], Append(id[2], tag)>>
InstallmentId(n) == <<n, <<>>>>
ReversalId(id) == Under(id, <<"r">>)
RequestId(id, kind, key) ==
    Under(id, <<IF kind = "credit" THEN "k" ELSE "kr", key>>)
FreshId == <<-Cardinality(ledger), <<>>>>

\* append: a taken id leaves the stored line as it is.
Appended(line) == IF line.id \in Ids THEN ledger ELSE ledger \cup {line}

Room == Cardinality(ledger) < MaxLines

-----------------------------------------------------------------------------
(* Fee plans. *)

IsPlan == plan.status = "there"

CreatePlan(p) ==
    /\ plan.status = "unborn"
    /\ plan' = [plan EXCEPT !.status = "there", !.installments = p]
    /\ UNCHANGED <<assigned, ledger, held, req>>

\* Variant: the edit is judged on a plan read before.
EditableAlways == IsPlan

\* The WHERE of the guarded UPDATE and DELETE.
Editable == IsPlan /\ plan.assignment_count = 0

UpdatePlan(p) ==
    /\ Editable
    /\ plan' = [plan EXCEPT !.installments = p]
    /\ UNCHANGED <<assigned, ledger, held, req>>

DeletePlan ==
    /\ Editable
    /\ plan' = [plan EXCEPT !.status = "gone"]
    /\ UNCHANGED <<assigned, ledger, held, req>>

\* assign_batch: the plan is read, for its 404 and the size of the batch.
AssignBatch(r) ==
    /\ Free(r) /\ IsPlan
    /\ Suspend(r, [pc |-> "assign"])
    /\ UNCHANGED <<plan, assigned, ledger, held>>

\* fee_plan_assignment::create, one statement: a second row of the pair takes
\* the count's step back with it, and a plan that is gone refuses.
Assign(r) ==
    /\ req[r].pc = "assign"
    /\ IF ~IsPlan THEN /\ Suspend(r, Idle) /\ UNCHANGED <<plan, assigned>>
       ELSE /\ plan' = IF assigned THEN plan
                       ELSE [plan EXCEPT !.assignment_count = @ + 1]
            /\ assigned' = TRUE
            /\ Suspend(r, [pc |-> "reread"])
    /\ UNCHANGED <<ledger, held>>

\* assign reads the plan again: what it charges is what is frozen.
AssignReread(r) ==
    /\ req[r].pc = "reread"
    /\ Suspend(r, [pc |-> "charge", list |-> plan.installments, n |-> 1])
    /\ UNCHANGED <<plan, assigned, ledger, held>>

\* charge_for_installment, one statement per installment.
ChargeForInstallment(r) ==
    /\ req[r].pc = "charge"
    /\ LET q == req[r]
       IN /\ InstallmentId(q.n) \in Ids \/ Room
          /\ ledger' = Appended([id |-> InstallmentId(q.n), kind |-> "charge",
                                 amount |-> q.list[q.n], source |-> None])
          /\ Suspend(r, IF q.n < Len(q.list) THEN [q EXCEPT !.n = @ + 1]
                        ELSE Idle)
    /\ UNCHANGED <<plan, assigned, held>>

-----------------------------------------------------------------------------
(* Payments, refunds and reversals. *)

\* The kind of line each may be recorded against: credit, refund, reversal.
MayTarget(kind, target) ==
    \/ kind = "credit" /\ target.kind = "charge"
    \/ kind = "refund" /\ target.kind = "credit"
    \/ kind = "reversal" /\ target.kind \in {"charge", "refund"}

Starts(r, kind, target, amount, id) ==
    /\ Free(r) /\ MayTarget(kind, target)
    /\ Suspend(r, [pc |-> "lock", kind |-> kind, target |-> target,
                   amount |-> amount, id |-> id, next |-> target.id])
    /\ UNCHANGED <<plan, assigned, ledger, held>>

KeyOf(target, kind, key) ==
    IF key = None THEN None ELSE RequestId(target.id, kind, key)

RecordPayment(r, target, amount, key) ==
    Starts(r, "credit", target, amount, KeyOf(target, "credit", key))
RecordRefund(r, target, amount, key) ==
    Starts(r, "refund", target, amount, KeyOf(target, "refund", key))
RecordReversal(r, target) ==
    Starts(r, "reversal", target, target.amount, ReversalId(target.id))

\* Variant: only the target's own row is locked.
WalkStopsAtTarget(line) == TRUE

\* The walk ends at the root: a charge.
WalkEnds(line) == line.kind = "charge"

\* lock_for_cap: one row FOR UPDATE, waiting while another holds it.
LockForCap(r) ==
    /\ req[r].pc = "lock"
    /\ LET q == req[r]
           line == Row(q.next)
       IN /\ \A d \in Desk \ {r} : q.next \notin held[d]
          /\ held' = [held EXCEPT ![r] = @ \cup {q.next}]
          /\ Suspend(r, IF ~WalkEnds(line) THEN [q EXCEPT !.next = line.source]
                        ELSE [q EXCEPT !.pc = IF q.kind = "reversal"
                                              THEN "append" ELSE "replay"])
    /\ UNCHANGED <<plan, assigned, ledger>>

\* Commit or rollback: every lock of the request goes.
Unlock(r) == held' = [held EXCEPT ![r] = {}]

Answer(r, pc) ==
    /\ Suspend(r, [req[r] EXCEPT !.pc = pc])
    /\ Unlock(r)

\* Variant: any line under the key is answered.
SameMoneyAlways(q, line) == TRUE

\* The stored line is the money this request names.
SameMoney(q, line) == line.amount = q.amount /\ line.source = q.target.id

\* against: the replay is read before the cap.
Replay(r) ==
    /\ req[r].pc = "replay"
    /\ LET q == req[r]
       IN IF q.id # None /\ q.id \in Ids
          THEN Answer(r, IF SameMoney(q, Row(q.id)) THEN "ok" ELSE "refused")
          ELSE Suspend(r, [q EXCEPT !.pc = "fold"]) /\ UNCHANGED held
    /\ UNCHANGED <<plan, assigned, ledger>>

\* The lines a line hangs under: credit, refund, reversal of a refund are at
\* most three deep.
Parent(id) == IF id \in Ids THEN Row(id).source ELSE None
Ancestors(l) ==
    {l.source, Parent(l.source), Parent(Parent(l.source))} \ {None}
Subtree(id) == {l \in ledger : id \in Ancestors(l)}

\* applied_to: what the whole subtree takes from the line.
Folded(lines) == MapThenSumSet(LAMBDA l : Sign(l.kind) * l.amount, lines)
AppliedTo(line) == -Sign(line.kind) * Folded(Subtree(line.id))

\* against: the fold, refused at the width limit or when it leaves no room.
Fold(r) ==
    /\ req[r].pc = "fold"
    /\ LET q == req[r]
       IN IF \/ Cardinality(Subtree(q.target.id)) >= MaxApplied
             \/ AppliedTo(q.target) + q.amount > q.target.amount
          THEN Answer(r, "refused")
          ELSE Suspend(r, [q EXCEPT !.pc = "append"]) /\ UNCHANGED held
    /\ UNCHANGED <<plan, assigned, ledger>>

\* against and reversal: the append commits.
AppendLine(r) ==
    /\ req[r].pc = "append"
    /\ LET q == req[r]
           id == IF q.id = None THEN FreshId ELSE q.id
       IN /\ id \in Ids \/ Room
          /\ ledger' = Appended([id |-> id, kind |-> q.kind,
                                 amount |-> q.amount, source |-> q.target.id])
    /\ Answer(r, "ok")
    /\ UNCHANGED <<plan, assigned>>

\* The handler is dropped or the process dies: the transaction rolls back.
Drop(r) ==
    /\ ~Free(r)
    /\ Suspend(r, Idle)
    /\ Unlock(r)
    /\ UNCHANGED <<plan, assigned, ledger>>

-----------------------------------------------------------------------------
Init ==
    /\ plan = [status |-> "unborn", installments |-> <<>>,
               assignment_count |-> 0]
    /\ assigned = FALSE
    /\ ledger = {}
    /\ held = [r \in Desk |-> {}]
    /\ req = [r \in Desk |-> Idle]

DeskStep(r) ==
    \/ \E t \in ledger, a \in Amounts, k \in Keys \cup {None} :
          RecordPayment(r, t, a, k) \/ RecordRefund(r, t, a, k)
    \/ \E t \in ledger : RecordReversal(r, t)
    \/ LockForCap(r) \/ Replay(r) \/ Fold(r) \/ AppendLine(r)

OfficeStep(r) ==
    AssignBatch(r) \/ Assign(r) \/ AssignReread(r) \/ ChargeForInstallment(r)

Next ==
    \/ \E p \in Plans : CreatePlan(p) \/ UpdatePlan(p)
    \/ DeletePlan
    \/ \E r \in Desk : DeskStep(r) \/ OfficeStep(r) \/ Drop(r)

Spec == Init /\ [][Next]_vars

-----------------------------------------------------------------------------
Line ==
    [id : Id, kind : {"charge", "credit", "refund", "reversal"},
     amount : Nat \ {0}, source : Id \cup {None}]

\* Where a request is suspended, and what it carries from there.
DeskState ==
    [pc : {"lock", "replay", "fold", "append", "ok", "refused"},
     kind : {"credit", "refund", "reversal"}, target : Line,
     amount : Nat \ {0}, id : Id \cup {None}, next : Id]
OfficeState ==
    [pc : {"idle", "assign", "reread"}] \cup [pc : {"charge"}, list : Plans, n : Nat]

\* Every variable keeps its shape.
TypeOK ==
    /\ plan \in [status : {"unborn", "there", "gone"},
                 installments : Plans \cup {<<>>}, assignment_count : Nat]
    /\ assigned \in BOOLEAN
    /\ ledger \subseteq Line /\ IsFiniteSet(ledger)
    /\ held \in [Desk -> SUBSET Id]
    /\ req \in [Desk -> OfficeState \cup DeskState]

(* What the ledger promises. *)

\* No payment lands on a charge, and no refund on a payment, beyond what it is
\* worth once everything under it is folded, whatever the desk's other requests
\* append between its own fold and its append (against, lock_for_cap).
PaymentsFit ==
    [][\A l \in ledger' \ ledger :
          l.kind \in {"credit", "refund"} =>
              AppliedTo(Row(l.source))' <= Row(l.source).amount]_vars

\* A student is charged what the plan says and nothing else, however an edit
\* races the assignment and wherever an assignment is cut off: charges exist
\* only under an assignment, and match the frozen plan (assign, update, delete).
ChargesFollowPlan ==
    \A l \in ledger :
        l.kind = "charge" =>
            /\ assigned /\ IsPlan
            /\ \E n \in DOMAIN plan.installments :
                  l.id = InstallmentId(n) /\ l.amount = plan.installments[n]

\* A request key means one sum: an answered request's money is on the ledger
\* as it named it, and a retry of money that is there is never refused
\* (against: the replay is read, and compared, before the cap).
KeyedAnswers ==
    \A r \in Desk :
        LET stored == \E l \in ledger : /\ l.id = req[r].id
                                       /\ l.amount = req[r].amount
                                       /\ l.source = req[r].target.id
        IN /\ req[r].pc = "ok" /\ req[r].id # None => stored
           /\ req[r].pc = "fold" /\ req[r].id # None => ~stored
=============================================================================
