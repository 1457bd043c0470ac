--------------------------- MODULE PaymentsProofs ----------------------------
(***************************************************************************)
(* What Payments' run checks on a small instance, for any plans, sums,     *)
(* keys and number of desk requests.                                       *)
(*                                                                         *)
(* The ledger is a set of trees, three lines deep under a charge (Tree),   *)
(* and a desk request that has finished its walk holds the whole chain     *)
(* from its target to the root (WalksOK).  A line another request appends  *)
(* hangs under rows that request holds, so it is in nobody else's subtree: *)
(* the fold a request is judged on is still the fold when its line lands   *)
(* (FoldStands), and no one takes its key meanwhile (Absent).              *)
(***************************************************************************)
EXTENDS Payments, FiniteSetTheorems, WellFoundedInduction, TLAPS

Busy == {"lock", "replay", "fold", "append", "ok", "refused"}

\* A line names a line of the kind it may be recorded against, and its id says
\* which and why.
LineOK(l) ==
    IF l.kind = "charge" THEN l.source = None /\ l.id[2] = <<>>
    ELSE \E t \in ledger :
            /\ t.id = l.source /\ MayTarget(l.kind, t)
            /\ IF l.kind = "reversal"
               THEN l.id = ReversalId(t.id) /\ l.amount = t.amount
               ELSE \/ l.id[2] = <<>>
                    \/ \E key \in Keys : l.id = RequestId(t.id, l.kind, key)

Tree ==
    /\ \A l \in ledger : LineOK(l)
    /\ \A l, m \in ledger : l.id = m.id => l = m

\* A desk request is on a line of the ledger, under the id its key makes.
DeskOK(q) ==
    /\ q.target \in ledger /\ MayTarget(q.kind, q.target)
    /\ IF q.kind = "reversal"
       THEN q.id = ReversalId(q.target.id) /\ q.amount = q.target.amount
       ELSE q.id = None \/ \E key \in Keys : q.id = RequestId(q.target.id, q.kind, key)

DesksOK == \A r \in Desk : req[r].pc \in Busy => DeskOK(req[r])

\* A row is locked by one request.
Exclusive == \A r, d \in Desk : r # d => held[r] \cap held[d] = {}

\* The ids from a line up to its root.
Chain(id) == {id, Parent(id), Parent(Parent(id))} \ {None}

\* The walk has locked what it has passed, and in the end the whole chain.
WalkOK(q, ids) ==
    LET id == q.target.id
    IN /\ q.pc = "lock" =>
             /\ q.next \in Ids
             /\ \/ q.next = id
                \/ q.next = Parent(id) /\ id \in ids
                \/ q.next = Parent(Parent(id)) /\ {id, Parent(id)} \subseteq ids
       /\ q.pc \in {"replay", "fold", "append"} => Chain(id) \subseteq ids
       /\ q.pc \in {"replay", "fold"} => q.kind # "reversal"

WalksOK == \A r \in Desk : req[r].pc \in Busy => WalkOK(req[r], held[r])

\* A key that was not there at the replay is not there until the append.
Absent ==
    \A r \in Desk :
        /\ req[r].pc \in {"fold", "append"} /\ req[r].kind # "reversal"
        /\ req[r].id # None
        => req[r].id \notin Ids

\* The room a payment or refund was judged on is still there when it lands.
FoldStands ==
    \A r \in Desk :
        req[r].pc = "append" /\ req[r].kind # "reversal" =>
            AppliedTo(req[r].target) + req[r].amount <= req[r].target.amount

\* An assigned plan is frozen, and an assignment charges what is frozen.
Frozen ==
    /\ assigned => IsPlan /\ plan.assignment_count > 0
    /\ IsPlan => plan.installments \in Plans
    /\ \A r \in Desk :
          /\ req[r].pc \in {"reread", "charge"} => assigned
          /\ req[r].pc = "charge" =>
                /\ req[r].list = plan.installments
                /\ req[r].n \in 1 .. Len(req[r].list)

Inv ==
    /\ TypeOK /\ Tree /\ DesksOK /\ Exclusive /\ WalksOK /\ Absent /\ FoldStands
    /\ Frozen /\ ChargesFollowPlan /\ KeyedAnswers

-----------------------------------------------------------------------------
(* The fold: a sum over a set of lines, whichever order it takes them in. *)

Weight(l) == Sign(l.kind) * l.amount
Pick(s) == CHOOSE l \in s : TRUE

\* The equation of a fold over some sets of lines.
FoldsOn(f, sets) ==
    f = [s \in sets |-> IF s = {} THEN 0 ELSE Weight(Pick(s)) + f[s \ {Pick(s)}]]

\* A set of numbers has a least one.
LEMMA LeastNumber ==
    ASSUME NEW B \in SUBSET Nat, B # {}
    PROVE  \E m \in B : \A k \in B : ~(k < m)
<1>1. PICK m \in B : \A k \in B : ~(<<k, m>> \in OpToRel(<, Nat))
  BY NatLessThanWellFounded, WFMin
<1>2. ASSUME NEW k \in B, k < m
      PROVE  FALSE
  BY <1>1, <1>2 DEF OpToRel
<1> QED BY <1>2

\* A set of finite sets has one that is least under inclusion.
LEMMA LeastSet ==
    ASSUME NEW S, NEW B \in SUBSET FiniteSubsetsOf(S), B # {}
    PROVE  \E T \in B : \A U \in B : U \subseteq T => U = T
<1>1. PICK T \in B : \A U \in B : ~(<<U, T>> \in StrictSubsetOrdering(S))
  BY FS_StrictSubsetOrderingWellFounded, WFMin
<1>2. ASSUME NEW U \in B, U \subseteq T, U # T
      PROVE  FALSE
  <2>1. U \in SUBSET S /\ T \in SUBSET S
    BY DEF FiniteSubsetsOf
  <2> QED BY <1>1, <1>2, <2>1 DEF StrictSubsetOrdering
<1> QED BY <1>2

LEMMA PickIn == \A s : s # {} => Pick(s) \in s
  BY DEF Pick

\* The equation has a solution on the subsets of a finite set.
LEMMA FoldExists ==
    ASSUME NEW S, IsFiniteSet(S)
    PROVE  \E f : FoldsOn(f, SUBSET S)
<1> DEFINE Upto(n) == {s \in SUBSET S : Cardinality(s) <= n}
           B == {n \in Nat : ~\E f : FoldsOn(f, Upto(n))}
<1>0. \A s \in SUBSET S :
         IsFiniteSet(s) /\ Cardinality(s) \in Nat /\ Cardinality(s) <= Cardinality(S)
  BY FS_Subset, FS_CardinalityType
<1>1. B = {}
  <2> SUFFICES ASSUME B # {} PROVE FALSE
    OBVIOUS
  <2>1. PICK m \in B : \A k \in B : ~(k < m)
    BY LeastNumber
  <2>2. m # 0
    <3> SUFFICES ASSUME m = 0 PROVE FALSE
      OBVIOUS
    <3>1. \A s \in Upto(0) : s = {}
      BY <1>0, FS_EmptySet
    <3> DEFINE z == [s \in Upto(0) |-> 0]
    <3>2. FoldsOn(z, Upto(0))
      BY <3>1 DEF FoldsOn
    <3> QED BY <2>1, <3>2
  <2>3. m \in Nat /\ m - 1 \in Nat /\ m - 1 < m
    BY <2>1, <2>2
  <2>4. m - 1 \notin B
    BY <2>1, <2>3
  <2>5. PICK f : FoldsOn(f, Upto(m - 1))
    BY <2>3, <2>4
  <2> DEFINE g == [s \in Upto(m) |-> IF s = {} THEN 0 ELSE Weight(Pick(s)) + f[s \ {Pick(s)}]]
  <2>6. ASSUME NEW s \in Upto(m), s # {}
        PROVE  g[s \ {Pick(s)}] = f[s \ {Pick(s)}]
    <3> DEFINE u == s \ {Pick(s)}
    <3>1. Pick(s) \in s
      BY <2>6, PickIn
    <3>2. IsFiniteSet(s) /\ Cardinality(u) = Cardinality(s) - 1
      BY <1>0, <3>1, FS_RemoveElement
    <3>3. Cardinality(s) \in Nat /\ Cardinality(s) <= m
      BY <1>0
    <3>4. Cardinality(u) <= m - 1 /\ Cardinality(u) <= m
      BY <2>3, <3>2, <3>3
    <3>5. u \in Upto(m - 1) /\ u \in Upto(m)
      BY <3>4
    <3> HIDE DEF u, Upto
    <3>6. f[u] = IF u = {} THEN 0 ELSE Weight(Pick(u)) + f[u \ {Pick(u)}]
      BY <2>5, <3>5 DEF FoldsOn
    <3>7. g[u] = IF u = {} THEN 0 ELSE Weight(Pick(u)) + f[u \ {Pick(u)}]
      BY <3>5
    <3>8. g[u] = f[u]
      BY <3>6, <3>7
    <3> QED BY <3>8 DEF u
  <2> HIDE DEF Upto, B
  <2>7. FoldsOn(g, Upto(m))
    <3>1. \A s \in Upto(m) : g[s] = IF s = {} THEN 0 ELSE Weight(Pick(s)) + g[s \ {Pick(s)}]
      BY <2>6
    <3>2. g = [s \in Upto(m) |-> g[s]]
      OBVIOUS
    <3> HIDE DEF g
    <3> QED BY <3>1, <3>2 DEF FoldsOn
  <2> QED BY <2>1, <2>7 DEF B
<1>2. Upto(Cardinality(S)) = SUBSET S
  BY <1>0
<1>3. Cardinality(S) \in Nat
  BY FS_CardinalityType
<1>4. \E f : FoldsOn(f, Upto(Cardinality(S)))
  BY <1>1, <1>3
<1> HIDE DEF Upto
<1> QED BY <1>2, <1>4

\* Two solutions agree.
LEMMA FoldUnique ==
    ASSUME NEW A, NEW B, NEW f, NEW g, FoldsOn(f, SUBSET A), FoldsOn(g, SUBSET B),
           NEW s \in SUBSET (A \cap B), IsFiniteSet(s)
    PROVE  f[s] = g[s]
<1> DEFINE D == {t \in FiniteSubsetsOf(A \cap B) : f[t] # g[t]}
<1>1. ASSUME NEW T \in D, \A U \in D : U \subseteq T => U = T
      PROVE  FALSE
  <2>0. T \in SUBSET A /\ T \in SUBSET B /\ IsFiniteSet(T)
    BY DEF FiniteSubsetsOf
  <2>1. /\ f[T] = IF T = {} THEN 0 ELSE Weight(Pick(T)) + f[T \ {Pick(T)}]
        /\ g[T] = IF T = {} THEN 0 ELSE Weight(Pick(T)) + g[T \ {Pick(T)}]
    BY <2>0 DEF FoldsOn
  <2>2. T # {}
    BY <2>1
  <2>3. Pick(T) \in T
    BY <2>2, PickIn
  <2>4. T \ {Pick(T)} \in FiniteSubsetsOf(A \cap B)
    BY <2>0, FS_RemoveElement, <2>3 DEF FiniteSubsetsOf
  <2>5. T \ {Pick(T)} \notin D
    BY <1>1, <2>3
  <2>6. f[T \ {Pick(T)}] = g[T \ {Pick(T)}]
    BY <2>4, <2>5
  <2> QED BY <2>1, <2>2, <2>6
<1>2. D = {}
  <2>1. D \in SUBSET FiniteSubsetsOf(A \cap B)
    OBVIOUS
  <2> HIDE DEF D
  <2> QED BY <1>1, <2>1, LeastSet
<1> QED BY <1>2 DEF FiniteSubsetsOf

\* What the fold of the empty set is, and the fold of any other finite set.
LEMMA FoldedStep ==
    ASSUME NEW S, IsFiniteSet(S)
    PROVE  /\ S = {} => Folded(S) = 0
           /\ S # {} => Folded(S) = Weight(Pick(S)) + Folded(S \ {Pick(S)})
<1> DEFINE F(A) == CHOOSE f : FoldsOn(f, SUBSET A)
<1>1. \A A : Folded(A) = F(A)[A]
  BY DEF Folded, FoldsOn, Weight, Pick, MapThenSumSet, MapThenFoldSet
<1>2. ASSUME NEW A, IsFiniteSet(A)
      PROVE  FoldsOn(F(A), SUBSET A)
  BY <1>2, FoldExists
<1> HIDE DEF F
<1>3. FoldsOn(F(S), SUBSET S) /\ S \in SUBSET S
  BY <1>2
<1>4. F(S)[S] = IF S = {} THEN 0 ELSE Weight(Pick(S)) + F(S)[S \ {Pick(S)}]
  BY <1>3 DEF FoldsOn
<1>5. F(S)[S \ {Pick(S)}] = F(S \ {Pick(S)})[S \ {Pick(S)}]
  <2> DEFINE u == S \ {Pick(S)}
  <2>1. IsFiniteSet(u) /\ u \in SUBSET (S \cap u)
    BY FS_Subset
  <2> HIDE DEF u
  <2>2. FoldsOn(F(u), SUBSET u)
    BY <1>2, <2>1
  <2>3. PICK f, g : f = F(S) /\ g = F(u)
    OBVIOUS
  <2>4. f[u] = g[u]
    <3>1. FoldsOn(f, SUBSET S) /\ FoldsOn(g, SUBSET u)
      BY <1>3, <2>2, <2>3
    <3> QED BY <2>1, <3>1, FoldUnique
  <2>5. F(S)[u] = F(u)[u]
    BY <2>3, <2>4
  <2> QED BY <2>5 DEF u
<1> QED BY <1>1, <1>4, <1>5

LEMMA WeightInt == \A l \in Line : Weight(l) \in Int
  BY DEF Weight, Sign, Line

LEMMA FoldedInt ==
    ASSUME NEW S \in SUBSET Line, IsFiniteSet(S)
    PROVE  Folded(S) \in Int
<1> DEFINE D == {T \in FiniteSubsetsOf(Line) : Folded(T) \notin Int}
<1>1. ASSUME NEW T \in D, \A U \in D : U \subseteq T => U = T
      PROVE  FALSE
  <2>0. T \in SUBSET Line /\ IsFiniteSet(T)
    BY DEF FiniteSubsetsOf
  <2>1. CASE T = {}
    <3>1. Folded(T) = 0
      BY <2>0, <2>1, FoldedStep
    <3> QED BY <3>1
  <2>2. CASE T # {}
    <3>1. Pick(T) \in T /\ Pick(T) \in Line
      BY <2>0, <2>2, PickIn
    <3>2. T \ {Pick(T)} \in FiniteSubsetsOf(Line)
      BY <2>0, FS_Subset DEF FiniteSubsetsOf
    <3>3. T \ {Pick(T)} \notin D
      BY <1>1, <3>1
    <3>4. Folded(T \ {Pick(T)}) \in Int /\ Weight(Pick(T)) \in Int
      BY <3>1, <3>2, <3>3, WeightInt
    <3>5. Folded(T) = Weight(Pick(T)) + Folded(T \ {Pick(T)})
      BY <2>0, <2>2, FoldedStep
    <3>6. Folded(T) \in Int
      BY <3>4, <3>5
    <3> QED BY <3>6
  <2> QED BY <2>1, <2>2
<1>2. D = {}
  <2>1. D \in SUBSET FiniteSubsetsOf(Line)
    OBVIOUS
  <2> HIDE DEF D
  <2> QED BY <1>1, <2>1, LeastSet
<1> QED BY <1>2 DEF FiniteSubsetsOf

\* Taking any one line out of the set takes its weight out of the fold.
LEMMA FoldedRemove ==
    ASSUME NEW S \in SUBSET Line, IsFiniteSet(S), NEW x \in S
    PROVE  Folded(S) = Folded(S \ {x}) + Weight(x)
<1> DEFINE D == {T \in FiniteSubsetsOf(Line) :
                    \E l \in T : Folded(T) # Folded(T \ {l}) + Weight(l)}
<1>1. ASSUME NEW T \in D, \A U \in D : U \subseteq T => U = T
      PROVE  FALSE
  <2>0. T \in SUBSET Line /\ IsFiniteSet(T)
    BY DEF FiniteSubsetsOf
  <2>1. PICK l \in T : Folded(T) # Folded(T \ {l}) + Weight(l)
    OBVIOUS
  <2> DEFINE p == Pick(T)
  <2>2. p \in T
    BY <2>1, PickIn
  <2>3. Folded(T) = Weight(p) + Folded(T \ {p})
    BY <2>0, <2>1, FoldedStep
  <2>4. /\ T \ {p} \in FiniteSubsetsOf(Line) /\ T \ {l} \in FiniteSubsetsOf(Line)
        /\ IsFiniteSet((T \ {p}) \ {l})
    BY <2>0, FS_Subset DEF FiniteSubsetsOf
  <2>5. T \ {p} \notin D /\ T \ {l} \notin D
    BY <1>1, <2>1, <2>2
  <2> HIDE DEF p
  <2>6. Folded((T \ {p}) \ {l}) \in Int /\ Folded(T \ {p}) \in Int /\ Folded(T \ {l}) \in Int
    BY <2>0, <2>4, FoldedInt DEF FiniteSubsetsOf
  <2>7. Weight(p) \in Int /\ Weight(l) \in Int
    BY <2>0, <2>1, <2>2, WeightInt
  <2>8. p # l
    <3> SUFFICES ASSUME p = l PROVE FALSE
      OBVIOUS
    <3>1. Folded(T) = Weight(l) + Folded(T \ {l})
      BY <2>3
    <3>2. Weight(l) + Folded(T \ {l}) = Folded(T \ {l}) + Weight(l)
      BY <2>6, <2>7
    <3> QED BY <2>1, <3>1, <3>2
  <2>9. Folded(T \ {p}) = Folded((T \ {p}) \ {l}) + Weight(l)
    BY <2>1, <2>4, <2>5, <2>8
  <2>10. Folded(T \ {l}) = Folded((T \ {p}) \ {l}) + Weight(p)
    <3>1. (T \ {l}) \ {p} = (T \ {p}) \ {l}
      OBVIOUS
    <3> QED BY <2>2, <2>4, <2>5, <2>8, <3>1
  <2> QED BY <2>1, <2>3, <2>6, <2>7, <2>9, <2>10
<1>2. D = {}
  <2>1. D \in SUBSET FiniteSubsetsOf(Line)
    OBVIOUS
  <2> HIDE DEF D
  <2> QED BY <1>1, <2>1, LeastSet
<1> QED BY <1>2 DEF FiniteSubsetsOf

\* A line more is its weight more.
LEMMA FoldedAdd ==
    ASSUME NEW S \in SUBSET Line, IsFiniteSet(S), NEW x \in Line \ S
    PROVE  Folded(S \cup {x}) = Folded(S) + Weight(x)
<1>1. IsFiniteSet(S \cup {x}) /\ S \cup {x} \in SUBSET Line /\ x \in S \cup {x}
  BY FS_AddElement
<1>2. (S \cup {x}) \ {x} = S
  OBVIOUS
<1> QED BY <1>1, <1>2, FoldedRemove

-----------------------------------------------------------------------------
(* Ids, rows and chains. *)

\* An id under another says which, and by which tag.
LEMMA IdShapes ==
    /\ \A n \in Int : InstallmentId(n) \in Id /\ InstallmentId(n)[2] = <<>>
    /\ \A i \in Id, t \in Tags : Under(i, t) \in Id /\ Under(i, t)[2] # <<>>
    /\ \A i, j \in Id, t, u \in Tags : Under(i, t) = Under(j, u) => i = j /\ t = u
<1>1. \A n \in Int : InstallmentId(n) \in Id /\ InstallmentId(n)[2] = <<>>
  <2>1. <<>> \in Seq(Tags)
    OBVIOUS
  <2>2. \A n \in Int, s \in Seq(Tags) : <<n, s>> \in Id /\ <<n, s>>[2] = s
    BY DEF Id
  <2> QED BY <2>1, <2>2 DEF InstallmentId
<1>2. \A s \in Seq(Tags), t \in Tags : Append(s, t) \in Seq(Tags) /\ Append(s, t) # <<>>
  <2> SUFFICES ASSUME NEW s \in Seq(Tags), NEW t \in Tags
               PROVE  Append(s, t) \in Seq(Tags) /\ Append(s, t) # <<>>
    OBVIOUS
  <2>1. Append(s, t) \in Seq(Tags) /\ Len(Append(s, t)) = Len(s) + 1 /\ Len(s) \in Nat
    OBVIOUS
  <2>2. Len(<<>>) = 0
    OBVIOUS
  <2>3. ASSUME Append(s, t) = <<>> PROVE FALSE
    <3>1. Len(s) + 1 = 0
      BY <2>1, <2>2, <2>3
    <3> QED BY <2>1, <3>1
  <2> QED BY <2>1, <2>3
<1>3. \A s, z \in Seq(Tags), t, u \in Tags : Append(s, t) = Append(z, u) => s = z /\ t = u
  <2> SUFFICES ASSUME NEW s \in Seq(Tags), NEW z \in Seq(Tags), NEW t \in Tags, NEW u \in Tags,
                      Append(s, t) = Append(z, u)
               PROVE  s = z /\ t = u
    OBVIOUS
  <2>0. /\ Len(s) \in Nat /\ Len(Append(s, t)) = Len(s) + 1 /\ Append(s, t)[Len(s) + 1] = t
        /\ Len(z) \in Nat /\ Len(Append(z, u)) = Len(z) + 1 /\ Append(z, u)[Len(z) + 1] = u
    OBVIOUS
  <2>1. Len(s) = Len(z)
    BY <2>0
  <2>2. t = u
    BY <2>0, <2>1
  <2>3. \A k \in 1 .. Len(s) : s[k] = z[k]
    <3> SUFFICES ASSUME NEW k \in 1 .. Len(s) PROVE s[k] = z[k]
      OBVIOUS
    <3>1. Append(s, t)[k] = s[k] /\ Append(z, u)[k] = z[k]
      BY <2>1
    <3> QED BY <3>1
  <2> QED BY <2>1, <2>2, <2>3
<1>4. \A i \in Id : i[1] \in Int /\ i[2] \in Seq(Tags) /\ i = <<i[1], i[2]>>
  BY DEF Id
<1>5. \A i \in Id, t \in Tags : Under(i, t) \in Id /\ Under(i, t)[2] # <<>>
  BY <1>2, <1>4 DEF Under, Id
<1>6. \A i, j \in Id, t, u \in Tags : Under(i, t) = Under(j, u) => i = j /\ t = u
  <2> SUFFICES ASSUME NEW i \in Id, NEW j \in Id, NEW t \in Tags, NEW u \in Tags,
                      Under(i, t) = Under(j, u)
               PROVE  i = j /\ t = u
    OBVIOUS
  <2>1. i[1] = j[1] /\ Append(i[2], t) = Append(j[2], u)
    BY DEF Under
  <2>2. i[2] = j[2] /\ t = u
    BY <1>3, <1>4, <2>1
  <2> QED BY <1>4, <2>1, <2>2
<1> QED BY <1>1, <1>5, <1>6

\* A reversal's id, and a keyed request's: under the line, and never the same.
LEMMA DeskIds ==
    ASSUME NEW i \in Id, NEW j \in Id, NEW kind, NEW other, NEW key \in Keys, NEW key2 \in Keys
    PROVE  /\ ReversalId(i) \in Id /\ ReversalId(i)[2] # <<>>
           /\ RequestId(i, kind, key) \in Id /\ RequestId(i, kind, key)[2] # <<>>
           /\ ReversalId(i) = ReversalId(j) => i = j
           /\ RequestId(i, kind, key) = RequestId(j, other, key2) => i = j
           /\ RequestId(i, kind, key) # ReversalId(j)
<1> DEFINE t == <<IF kind = "credit" THEN "k" ELSE "kr", key>>
           u == <<IF other = "credit" THEN "k" ELSE "kr", key2>>
<1>1. <<"r">> \in Tags /\ t \in Tags /\ u \in Tags
  BY DEF Tags
<1>2. t # <<"r">>
  OBVIOUS
<1>3. /\ ReversalId(i) = Under(i, <<"r">>) /\ ReversalId(j) = Under(j, <<"r">>)
      /\ RequestId(i, kind, key) = Under(i, t) /\ RequestId(j, other, key2) = Under(j, u)
  BY DEF ReversalId, RequestId
<1> HIDE DEF t, u
<1>4. \A g \in Tags : Under(i, g) \in Id /\ Under(i, g)[2] # <<>>
  BY IdShapes
<1>5. \A g, h \in Tags : Under(i, g) = Under(j, h) => i = j /\ g = h
  BY IdShapes
<1>6. /\ Under(i, <<"r">>) = Under(j, <<"r">>) => i = j
      /\ Under(i, t) = Under(j, u) => i = j
      /\ Under(i, t) # Under(j, <<"r">>)
  BY <1>1, <1>2, <1>5
<1>7. Under(i, <<"r">>) \in Id /\ Under(i, <<"r">>)[2] # <<>> /\ Under(i, t) \in Id /\ Under(i, t)[2] # <<>>
  BY <1>1, <1>4
<1> QED BY <1>3, <1>6, <1>7

LEMMA LineFields ==
    ASSUME TypeOK, NEW l \in ledger
    PROVE  /\ l \in Line /\ l.id \in Id /\ l.amount \in Nat \ {0}
           /\ l.source \in Id \cup {None} /\ l.id # None
           /\ l.kind \in {"charge", "credit", "refund", "reversal"}
<1>1. l \in Line
  BY DEF TypeOK
<1> QED BY <1>1, PaymentAssumption DEF Line

\* A row is the line of its id; its parent is its source.
LEMMA RowIs ==
    ASSUME TypeOK, Tree
    PROVE  /\ \A l \in ledger : l.id \in Ids /\ Row(l.id) = l /\ Parent(l.id) = l.source
           /\ \A id \in Ids : Row(id) \in ledger /\ Row(id).id = id /\ id \in Id
           /\ None \notin Ids /\ Parent(None) = None
<1>1. \A l \in ledger : l.id \in Ids
  BY DEF Ids
<1>2. \A id \in Ids : \E l \in ledger : l.id = id
  BY DEF Ids
<1>3. \A id \in Ids : Row(id) \in ledger /\ Row(id).id = id
  BY <1>2 DEF Row
<1>4. \A l \in ledger : Row(l.id) = l
  BY <1>1, <1>3 DEF Tree
<1>5. None \notin Ids
  BY <1>2, LineFields
<1>6. \A id \in Ids : id \in Id
  BY <1>2, LineFields
<1> QED BY <1>1, <1>3, <1>4, <1>5, <1>6 DEF Parent

\* The chain over a line: how far it goes, by the line's kind.
LEMMA Depth ==
    ASSUME TypeOK, Tree, NEW l \in ledger
    PROVE  /\ l.kind = "charge" => Parent(l.id) = None /\ Parent(Parent(l.id)) = None
           /\ l.kind # "charge" => Parent(l.id) \in Ids
           /\ l.kind = "credit" => Row(Parent(l.id)).kind = "charge"
                                   /\ Parent(Parent(l.id)) = None
           /\ l.kind = "refund" => Row(Parent(l.id)).kind = "credit"
                                   /\ Parent(Parent(l.id)) \in Ids
                                   /\ Row(Parent(Parent(l.id))).kind = "charge"
<1>1. /\ Parent(l.id) = l.source /\ Parent(None) = None
      /\ \A m \in ledger : m.id \in Ids /\ Row(m.id) = m /\ Parent(m.id) = m.source
  BY RowIs
<1>2. ASSUME NEW m \in ledger
      PROVE  /\ m.kind = "charge" => m.source = None
             /\ m.kind # "charge" => \E t \in ledger : t.id = m.source /\ MayTarget(m.kind, t)
  BY DEF Tree, LineOK
<1>3. CASE l.kind = "charge"
  BY <1>1, <1>2, <1>3
<1>4. CASE l.kind # "charge"
  <2>1. PICK t \in ledger : t.id = l.source /\ MayTarget(l.kind, t)
    BY <1>2, <1>4
  <2>2. Parent(l.id) \in Ids /\ Row(Parent(l.id)) = t /\ Parent(Parent(l.id)) = t.source
    BY <1>1, <2>1
  <2>3. CASE l.kind = "credit"
    BY <1>2, <2>1, <2>2, <2>3 DEF MayTarget
  <2>4. CASE l.kind = "refund"
    <3>1. t.kind = "credit"
      BY <2>1, <2>4 DEF MayTarget
    <3>2. PICK u \in ledger : u.id = t.source /\ MayTarget(t.kind, u)
      BY <1>2, <3>1
    <3>3. u.kind = "charge"
      BY <3>1, <3>2 DEF MayTarget
    <3> QED BY <1>1, <2>2, <2>4, <3>1, <3>2, <3>3
  <2> QED BY <1>4, <2>2, <2>3, <2>4
<1> QED BY <1>3, <1>4

-----------------------------------------------------------------------------
(* Types. *)

LEMMA Shapes ==
    ASSUME TypeOK, NEW r \in Desk
    PROVE  /\ req[r].pc \in Busy \cup {"idle", "assign", "reread", "charge"}
           /\ req[r].pc \in Busy => req[r] \in DeskState
           /\ req[r].pc = "charge" => req[r] \in [pc : {"charge"}, list : Plans, n : Nat]
  BY DEF TypeOK, OfficeState, DeskState, Busy

LEMMA SuspendTyped ==
    ASSUME TypeOK, NEW r \in Desk, NEW q \in OfficeState \cup DeskState, Suspend(r, q)
    PROVE  /\ req' \in [Desk -> OfficeState \cup DeskState]
           /\ req'[r] = q /\ \A d \in Desk \ {r} : req'[d] = req[d]
  BY DEF TypeOK, Suspend

LEMMA IdleTyped == Idle \in OfficeState
  BY DEF Idle, OfficeState

\* Moving a desk request on.
LEMMA DeskMoves ==
    ASSUME NEW q \in DeskState
    PROVE  /\ \A pc \in Busy : [q EXCEPT !.pc = pc] \in DeskState
           /\ \A id \in Id : [q EXCEPT !.next = id] \in DeskState
           /\ q.target \in Line /\ q.target.id \in Id /\ q.next \in Id
           /\ q.amount \in Nat \ {0} /\ q.target.amount \in Nat \ {0}
           /\ q.kind \in {"credit", "refund", "reversal"} /\ q.id \in Id \cup {None}
<1>1. \A pc \in Busy : [q EXCEPT !.pc = pc] \in DeskState
  BY DEF DeskState, Busy
<1>2. \A id \in Id : [q EXCEPT !.next = id] \in DeskState
  BY DEF DeskState
<1>3. /\ q.target \in Line /\ q.next \in Id /\ q.amount \in Nat \ {0}
      /\ q.kind \in {"credit", "refund", "reversal"} /\ q.id \in Id \cup {None}
  BY DEF DeskState
<1>4. q.target.id \in Id /\ q.target.amount \in Nat \ {0}
  BY <1>3 DEF Line
<1> QED BY <1>1, <1>2, <1>3, <1>4

\* The steps that begin a desk request.
Start(r) ==
    \/ \E t \in ledger, a \in Amounts, k \in Keys \cup {None} :
          RecordPayment(r, t, a, k) \/ RecordRefund(r, t, a, k)
    \/ \E t \in ledger : RecordReversal(r, t)

LEMMA StartsTyped ==
    ASSUME TypeOK, NEW r \in Desk, NEW kind \in {"credit", "refund", "reversal"},
           NEW t \in ledger, NEW amount \in Nat \ {0}, NEW id \in Id \cup {None},
           Starts(r, kind, t, amount, id)
    PROVE  \E q \in DeskState :
              /\ q.pc = "lock" /\ q.kind = kind /\ q.target = t /\ q.amount = amount
              /\ q.id = id /\ q.next = t.id /\ MayTarget(kind, t)
              /\ Suspend(r, q) /\ UNCHANGED <<plan, assigned, ledger, held>>
<1> DEFINE q == [pc |-> "lock", kind |-> kind, target |-> t, amount |-> amount,
                 id |-> id, next |-> t.id]
<1>1. t \in Line /\ t.id \in Id
  BY LineFields
<1>2. q \in DeskState
  BY <1>1 DEF DeskState
<1>3. Suspend(r, q) /\ MayTarget(kind, t) /\ UNCHANGED <<plan, assigned, ledger, held>>
  BY DEF Starts
<1>4. /\ q.pc = "lock" /\ q.kind = kind /\ q.target = t /\ q.amount = amount
      /\ q.id = id /\ q.next = t.id
  OBVIOUS
<1> HIDE DEF q
<1> QED BY <1>2, <1>3, <1>4

\* A request begins at its target, under the id its key makes.
LEMMA StartIs ==
    ASSUME TypeOK, NEW r \in Desk, Start(r)
    PROVE  \E q \in DeskState :
              /\ q.pc = "lock" /\ DeskOK(q) /\ q.next = q.target.id
              /\ Suspend(r, q) /\ UNCHANGED <<plan, assigned, ledger, held>>
<1>1. ASSUME NEW t \in ledger, NEW a \in Amounts, NEW k \in Keys \cup {None},
             NEW kind \in {"credit", "refund"}, Starts(r, kind, t, a, KeyOf(t, kind, k))
      PROVE  \E q \in DeskState :
                /\ q.pc = "lock" /\ DeskOK(q) /\ q.next = q.target.id
                /\ Suspend(r, q) /\ UNCHANGED <<plan, assigned, ledger, held>>
  <2>1. a \in Nat \ {0} /\ t.id \in Id
    BY PaymentAssumption, LineFields
  <2>2. PICK id : id = KeyOf(t, kind, k)
    OBVIOUS
  <2>3. id = None \/ \E key \in Keys : id = RequestId(t.id, kind, key)
    BY <2>2 DEF KeyOf
  <2>4. id \in Id \cup {None}
    <3>1. \A key \in Keys : RequestId(t.id, kind, key) \in Id
      BY <2>1, DeskIds
    <3> QED BY <2>3, <3>1
  <2>5. PICK q \in DeskState :
              /\ q.pc = "lock" /\ q.kind = kind /\ q.target = t /\ q.amount = a
              /\ q.id = id /\ q.next = t.id /\ MayTarget(kind, t)
              /\ Suspend(r, q) /\ UNCHANGED <<plan, assigned, ledger, held>>
    <3>1. Starts(r, kind, t, a, id)
      BY <1>1, <2>2
    <3> QED BY <2>1, <2>4, <3>1, StartsTyped
  <2>6. DeskOK(q)
    BY <2>3, <2>5 DEF DeskOK
  <2> QED BY <2>5, <2>6
<1>2. ASSUME NEW t \in ledger, Starts(r, "reversal", t, t.amount, ReversalId(t.id))
      PROVE  \E q \in DeskState :
                /\ q.pc = "lock" /\ DeskOK(q) /\ q.next = q.target.id
                /\ Suspend(r, q) /\ UNCHANGED <<plan, assigned, ledger, held>>
  <2>1. t.amount \in Nat \ {0} /\ t.id \in Id
    BY LineFields
  <2>2. ReversalId(t.id) \in Id
    BY <2>1, IdShapes DEF ReversalId, Tags
  <2>3. PICK q \in DeskState :
              /\ q.pc = "lock" /\ q.kind = "reversal" /\ q.target = t /\ q.amount = t.amount
              /\ q.id = ReversalId(t.id) /\ q.next = t.id /\ MayTarget("reversal", t)
              /\ Suspend(r, q) /\ UNCHANGED <<plan, assigned, ledger, held>>
    BY <1>2, <2>1, <2>2, StartsTyped
  <2>4. DeskOK(q)
    BY <2>3 DEF DeskOK
  <2> QED BY <2>3, <2>4
<1>3. CASE \E t \in ledger, a \in Amounts, k \in Keys \cup {None} :
              RecordPayment(r, t, a, k) \/ RecordRefund(r, t, a, k)
  <2>1. PICK t \in ledger, a \in Amounts, k \in Keys \cup {None} :
              RecordPayment(r, t, a, k) \/ RecordRefund(r, t, a, k)
    BY <1>3
  <2>2. \/ Starts(r, "credit", t, a, KeyOf(t, "credit", k))
        \/ Starts(r, "refund", t, a, KeyOf(t, "refund", k))
    BY <2>1 DEF RecordPayment, RecordRefund
  <2> QED BY <2>2, <1>1
<1>4. CASE \E t \in ledger : RecordReversal(r, t)
  BY <1>2, <1>4 DEF RecordReversal
<1> QED BY <1>3, <1>4 DEF Start

\* A line a request may append, and under which id.
Posted(q, n) ==
    /\ n.kind = q.kind /\ n.amount = q.amount /\ n.source = q.target.id
    /\ IF q.id = None THEN n.id = FreshId ELSE n.id = q.id

LEMMA FreshTyped == TypeOK => FreshId \in Id /\ FreshId[2] = <<>>
<1> SUFFICES ASSUME TypeOK PROVE FreshId \in Id /\ FreshId[2] = <<>>
  OBVIOUS
<1>1. Cardinality(ledger) \in Nat
  BY FS_CardinalityType DEF TypeOK
<1>2. PICK n \in Int : n = -Cardinality(ledger)
  BY <1>1
<1>3. InstallmentId(n) \in Id /\ InstallmentId(n)[2] = <<>>
  BY IdShapes
<1>4. FreshId = InstallmentId(n)
  BY <1>2 DEF FreshId, InstallmentId
<1> QED BY <1>3, <1>4

\* The append adds the request's line, or finds its id taken.
LEMMA AppendIs ==
    ASSUME TypeOK, NEW r \in Desk, AppendLine(r)
    PROVE  /\ req[r] \in DeskState /\ req[r].pc = "append"
           /\ \E n \in Line :
                 /\ Posted(req[r], n)
                 /\ \/ n.id \in Ids /\ ledger' = ledger
                    \/ n.id \notin Ids /\ ledger' = ledger \cup {n}
<1> DEFINE q == req[r]
           id == IF q.id = None THEN FreshId ELSE q.id
           n == [id |-> id, kind |-> q.kind, amount |-> q.amount, source |-> q.target.id]
<1>1. q.pc = "append" /\ ledger' = Appended(n)
  BY DEF AppendLine
<1>2. q \in DeskState
  BY <1>1, Shapes DEF Busy
<1> HIDE DEF q
<1>3. id \in Id
  BY <1>2, DeskMoves, FreshTyped
<1>4. Posted(q, n)
  BY DEF Posted
<1>5. n \in Line
  <2>1. /\ q.kind \in {"credit", "refund", "reversal"} /\ q.amount \in Nat \ {0}
        /\ q.target.id \in Id
    BY <1>2, DeskMoves
  <2> HIDE DEF id
  <2> QED BY <1>3, <2>1 DEF Line
<1> HIDE DEF n
<1>6. \/ n.id \in Ids /\ ledger' = ledger
      \/ n.id \notin Ids /\ ledger' = ledger \cup {n}
  BY <1>1 DEF Appended
<1> QED BY <1>1, <1>2, <1>4, <1>5, <1>6 DEF q

\* A charge an assignment raises.
Raised(q, n) ==
    /\ n.kind = "charge" /\ n.source = None
    /\ n.id = InstallmentId(q.n) /\ n.amount = q.list[q.n]

LEMMA ChargeIs ==
    ASSUME TypeOK, Frozen, NEW r \in Desk, ChargeForInstallment(r)
    PROVE  /\ req[r] \in [pc : {"charge"}, list : Plans, n : Nat] /\ req[r].pc = "charge"
           /\ \E n \in Line :
                 /\ Raised(req[r], n)
                 /\ \/ n.id \in Ids /\ ledger' = ledger
                    \/ n.id \notin Ids /\ ledger' = ledger \cup {n}
<1> DEFINE q == req[r]
           n == [id |-> InstallmentId(q.n), kind |-> "charge", amount |-> q.list[q.n],
                 source |-> None]
<1>1. q.pc = "charge" /\ ledger' = Appended(n)
  BY DEF ChargeForInstallment
<1>2. q \in [pc : {"charge"}, list : Plans, n : Nat]
  BY <1>1, Shapes
<1>3. q.n \in 1 .. Len(q.list)
  BY <1>1 DEF Frozen
<1> HIDE DEF q
<1>4. q.list \in Seq(Nat \ {0}) /\ q.n \in Int
  BY <1>2, PaymentAssumption
<1>5. q.list[q.n] \in Nat \ {0} /\ InstallmentId(q.n) \in Id
  BY <1>3, <1>4, IdShapes
<1>6. n \in Line
  BY <1>5 DEF Line
<1>7. Raised(q, n)
  BY DEF Raised
<1> HIDE DEF n
<1>8. \/ n.id \in Ids /\ ledger' = ledger
      \/ n.id \notin Ids /\ ledger' = ledger \cup {n}
  BY <1>1 DEF Appended
<1> QED BY <1>1, <1>2, <1>6, <1>7, <1>8 DEF q

-----------------------------------------------------------------------------
(* The steps. *)

PlanStep ==
    \/ \E p \in Plans : CreatePlan(p) \/ UpdatePlan(p)
    \/ DeletePlan

\* What one request's step leaves to the others.
Alone(r) == \A d \in Desk \ {r} : req'[d] = req[d] /\ held'[d] = held[d]

\* The fee plan changes by itself; everything else is one request's step.
LEMMA StepIs ==
    ASSUME [Next]_vars
    PROVE  \/ UNCHANGED vars
           \/ PlanStep /\ UNCHANGED <<assigned, ledger, held, req>>
           \/ \E r \in Desk :
                 \/ Start(r) \/ LockForCap(r) \/ Replay(r) \/ Fold(r) \/ AppendLine(r)
                 \/ AssignBatch(r) \/ Assign(r) \/ AssignReread(r) \/ ChargeForInstallment(r)
                 \/ Drop(r)
<1>1. ASSUME PlanStep PROVE UNCHANGED <<assigned, ledger, held, req>>
  BY <1>1 DEF PlanStep, CreatePlan, UpdatePlan, DeletePlan
<1>2. Next => PlanStep \/ \E r \in Desk : DeskStep(r) \/ OfficeStep(r) \/ Drop(r)
  BY DEF Next, PlanStep
<1>3. \A r \in Desk : DeskStep(r) \/ OfficeStep(r) \/ Drop(r) =>
                 \/ Start(r) \/ LockForCap(r) \/ Replay(r) \/ Fold(r) \/ AppendLine(r)
                 \/ AssignBatch(r) \/ Assign(r) \/ AssignReread(r) \/ ChargeForInstallment(r)
                 \/ Drop(r)
  BY DEF DeskStep, OfficeStep, Start
<1> QED BY <1>1, <1>2, <1>3

LEMMA SuspendAlone ==
    ASSUME TypeOK, NEW r \in Desk, NEW q, Suspend(r, q)
    PROVE  req'[r] = q /\ \A d \in Desk \ {r} : req'[d] = req[d]
  BY DEF TypeOK, Suspend

LEMMA UnlockAlone ==
    ASSUME TypeOK, NEW r \in Desk, Unlock(r)
    PROVE  /\ held' \in [Desk -> SUBSET Id] /\ held'[r] = {}
           /\ \A d \in Desk \ {r} : held'[d] = held[d]
  BY DEF TypeOK, Unlock

\* The walk: the row under way is taken, and the source is next until the root.
LEMMA LockIs ==
    ASSUME TypeOK, Tree, DesksOK, WalksOK, NEW r \in Desk, LockForCap(r)
    PROVE  /\ req[r] \in DeskState /\ req[r].pc = "lock" /\ req[r].next \in Ids
           /\ \A d \in Desk \ {r} : req[r].next \notin held[d]
           /\ held' \in [Desk -> SUBSET Id]
           /\ held'[r] = held[r] \cup {req[r].next}
           /\ req' \in [Desk -> OfficeState \cup DeskState] /\ Alone(r)
           /\ UNCHANGED <<plan, assigned, ledger>>
           /\ \/ /\ ~WalkEnds(Row(req[r].next))
                 /\ req'[r] = [req[r] EXCEPT !.next = Row(req[r].next).source]
              \/ /\ WalkEnds(Row(req[r].next))
                 /\ \/ req[r].kind = "reversal" /\ req'[r] = [req[r] EXCEPT !.pc = "append"]
                    \/ req[r].kind # "reversal" /\ req'[r] = [req[r] EXCEPT !.pc = "replay"]
<1> DEFINE q == req[r]
           line == Row(q.next)
           new == IF ~WalkEnds(line) THEN [q EXCEPT !.next = line.source]
                  ELSE [q EXCEPT !.pc = IF q.kind = "reversal" THEN "append" ELSE "replay"]
<1>1. q.pc = "lock" /\ Suspend(r, new) /\ UNCHANGED <<plan, assigned, ledger>>
  BY DEF LockForCap
<1>2. held' = [held EXCEPT ![r] = held[r] \cup {q.next}] /\ \A d \in Desk \ {r} : q.next \notin held[d]
  BY DEF LockForCap
<1>3. q \in DeskState /\ q.next \in Ids
  <2>1. q.pc \in Busy
    BY <1>1 DEF Busy
  <2> QED BY <1>1, <2>1, Shapes DEF WalksOK, WalkOK
<1> HIDE DEF q
<1>4. line \in ledger /\ line.id = q.next
  BY <1>3, RowIs
<1> HIDE DEF line
<1>5. new \in DeskState
  <2>1. CASE WalkEnds(line)
    <3>1. new = [q EXCEPT !.pc = "append"] \/ new = [q EXCEPT !.pc = "replay"]
      BY <2>1
    <3> HIDE DEF new
    <3> QED BY <1>3, <3>1, DeskMoves DEF Busy
  <2>2. CASE ~WalkEnds(line)
    <3>1. line.source \in Id
      <4>1. line.kind # "charge" /\ LineOK(line)
        BY <1>4, <2>2 DEF WalkEnds, Tree
      <4>2. PICK t \in ledger : t.id = line.source
        BY <4>1 DEF LineOK
      <4> QED BY <4>2, LineFields
    <3>2. new = [q EXCEPT !.next = line.source]
      BY <2>2
    <3> HIDE DEF new
    <3> QED BY <1>3, <3>1, <3>2, DeskMoves
  <2> QED BY <2>1, <2>2
<1>6. /\ ~WalkEnds(line) => new = [q EXCEPT !.next = line.source]
      /\ WalkEnds(line) /\ q.kind = "reversal" => new = [q EXCEPT !.pc = "append"]
      /\ WalkEnds(line) /\ q.kind # "reversal" => new = [q EXCEPT !.pc = "replay"]
  OBVIOUS
<1> HIDE DEF new
<1>7. req' \in [Desk -> OfficeState \cup DeskState] /\ req'[r] = new
      /\ \A d \in Desk \ {r} : req'[d] = req[d]
  BY <1>1, <1>5, SuspendTyped
<1>8. q.next \in Id
  BY <1>3, DeskMoves
<1>9. held \in [Desk -> SUBSET Id]
  BY DEF TypeOK
<1>10. /\ held' \in [Desk -> SUBSET Id] /\ held'[r] = held[r] \cup {q.next}
       /\ \A d \in Desk \ {r} : held'[d] = held[d]
  BY <1>2, <1>8, <1>9
<1>11. Alone(r)
  BY <1>7, <1>10 DEF Alone
<1> QED BY <1>1, <1>2, <1>3, <1>6, <1>7, <1>10, <1>11 DEF q, line

\* A request that is answered lets its rows go.
LEMMA AnswerIs ==
    ASSUME TypeOK, NEW r \in Desk, req[r] \in DeskState, NEW pc \in {"ok", "refused"},
           Answer(r, pc)
    PROVE  /\ req'[r] = [req[r] EXCEPT !.pc = pc] /\ held'[r] = {} /\ Alone(r)
           /\ req' \in [Desk -> OfficeState \cup DeskState] /\ held' \in [Desk -> SUBSET Id]
<1>1. [req[r] EXCEPT !.pc = pc] \in DeskState
  BY DeskMoves DEF Busy
<1>2. PICK q : q = [req[r] EXCEPT !.pc = pc]
  OBVIOUS
<1>3. Suspend(r, q) /\ Unlock(r) /\ q \in OfficeState \cup DeskState
  BY <1>1, <1>2 DEF Answer
<1>4. /\ req' \in [Desk -> OfficeState \cup DeskState] /\ req'[r] = q
      /\ \A d \in Desk \ {r} : req'[d] = req[d]
  BY <1>3, SuspendTyped
<1>5. /\ held' \in [Desk -> SUBSET Id] /\ held'[r] = {}
      /\ \A d \in Desk \ {r} : held'[d] = held[d]
  BY <1>3, UnlockAlone
<1> QED BY <1>2, <1>4, <1>5 DEF Alone

\* A request that goes on keeps its rows.
LEMMA GoesOn ==
    ASSUME TypeOK, NEW r \in Desk, NEW q \in OfficeState \cup DeskState,
           Suspend(r, q), UNCHANGED held
    PROVE  /\ req'[r] = q /\ held'[r] = held[r] /\ Alone(r)
           /\ req' \in [Desk -> OfficeState \cup DeskState] /\ held' \in [Desk -> SUBSET Id]
<1>1. /\ req' \in [Desk -> OfficeState \cup DeskState] /\ req'[r] = q
      /\ \A d \in Desk \ {r} : req'[d] = req[d]
  BY SuspendTyped
<1> QED BY <1>1 DEF Alone, TypeOK

LEMMA ReplayIs ==
    ASSUME TypeOK, NEW r \in Desk, Replay(r)
    PROVE  /\ req[r] \in DeskState /\ req[r].pc = "replay" /\ Alone(r)
           /\ req' \in [Desk -> OfficeState \cup DeskState] /\ held' \in [Desk -> SUBSET Id]
           /\ UNCHANGED <<plan, assigned, ledger>>
           /\ \/ /\ req[r].id # None /\ req[r].id \in Ids /\ held'[r] = {}
                 /\ \/ /\ SameMoney(req[r], Row(req[r].id))
                       /\ req'[r] = [req[r] EXCEPT !.pc = "ok"]
                    \/ /\ ~SameMoney(req[r], Row(req[r].id))
                       /\ req'[r] = [req[r] EXCEPT !.pc = "refused"]
              \/ /\ req[r].id = None \/ req[r].id \notin Ids
                 /\ req'[r] = [req[r] EXCEPT !.pc = "fold"] /\ held'[r] = held[r]
<1>1. req[r].pc = "replay" /\ UNCHANGED <<plan, assigned, ledger>>
  BY DEF Replay
<1>2. req[r] \in DeskState
  BY <1>1, Shapes DEF Busy
<1>3. CASE req[r].id # None /\ req[r].id \in Ids
  <2>1. \/ SameMoney(req[r], Row(req[r].id)) /\ Answer(r, "ok")
        \/ ~SameMoney(req[r], Row(req[r].id)) /\ Answer(r, "refused")
    BY <1>3 DEF Replay
  <2>2. Answer(r, "ok") => /\ req'[r] = [req[r] EXCEPT !.pc = "ok"] /\ held'[r] = {} /\ Alone(r)
           /\ req' \in [Desk -> OfficeState \cup DeskState] /\ held' \in [Desk -> SUBSET Id]
    BY <1>2, AnswerIs
  <2>3. Answer(r, "refused") => /\ req'[r] = [req[r] EXCEPT !.pc = "refused"] /\ held'[r] = {} /\ Alone(r)
           /\ req' \in [Desk -> OfficeState \cup DeskState] /\ held' \in [Desk -> SUBSET Id]
    BY <1>2, AnswerIs
  <2> QED BY <1>1, <1>2, <1>3, <2>1, <2>2, <2>3
<1>4. CASE ~(req[r].id # None /\ req[r].id \in Ids)
  <2>1. PICK q : q = [req[r] EXCEPT !.pc = "fold"]
    OBVIOUS
  <2>2. Suspend(r, q) /\ UNCHANGED held
    BY <1>4, <2>1 DEF Replay
  <2>3. q \in DeskState
    BY <1>2, <2>1, DeskMoves DEF Busy
  <2>4. /\ req'[r] = q /\ held'[r] = held[r] /\ Alone(r)
        /\ req' \in [Desk -> OfficeState \cup DeskState] /\ held' \in [Desk -> SUBSET Id]
    BY <2>2, <2>3, GoesOn
  <2> QED BY <1>1, <1>2, <1>4, <2>1, <2>4
<1> QED BY <1>3, <1>4

LEMMA FoldIs ==
    ASSUME TypeOK, NEW r \in Desk, Fold(r)
    PROVE  /\ req[r] \in DeskState /\ req[r].pc = "fold" /\ Alone(r)
           /\ req' \in [Desk -> OfficeState \cup DeskState] /\ held' \in [Desk -> SUBSET Id]
           /\ UNCHANGED <<plan, assigned, ledger>>
           /\ \/ req'[r] = [req[r] EXCEPT !.pc = "refused"] /\ held'[r] = {}
              \/ /\ ~(AppliedTo(req[r].target) + req[r].amount > req[r].target.amount)
                 /\ req'[r] = [req[r] EXCEPT !.pc = "append"] /\ held'[r] = held[r]
<1>1. req[r].pc = "fold" /\ UNCHANGED <<plan, assigned, ledger>>
  BY DEF Fold
<1>2. req[r] \in DeskState
  BY <1>1, Shapes DEF Busy
<1>3. CASE Answer(r, "refused")
  BY <1>1, <1>2, <1>3, AnswerIs
<1>4. CASE ~Answer(r, "refused")
  <2>1. PICK q : q = [req[r] EXCEPT !.pc = "append"]
    OBVIOUS
  <2>2. /\ Suspend(r, q) /\ UNCHANGED held
        /\ ~(AppliedTo(req[r].target) + req[r].amount > req[r].target.amount)
    BY <1>4, <2>1 DEF Fold
  <2>3. q \in DeskState
    BY <1>2, <2>1, DeskMoves DEF Busy
  <2>4. /\ req'[r] = q /\ held'[r] = held[r] /\ Alone(r)
        /\ req' \in [Desk -> OfficeState \cup DeskState] /\ held' \in [Desk -> SUBSET Id]
    BY <2>2, <2>3, GoesOn
  <2> QED BY <1>1, <1>2, <2>1, <2>2, <2>4
<1> QED BY <1>3, <1>4

\* A step of an assignment, and a request that dies.
Office(r) ==
    AssignBatch(r) \/ Assign(r) \/ AssignReread(r) \/ ChargeForInstallment(r) \/ Drop(r)

\* They leave nothing of a desk request, and lock nothing.
LEMMA OfficeIs ==
    ASSUME TypeOK, Frozen, NEW r \in Desk, Office(r)
    PROVE  /\ Alone(r) /\ req'[r].pc \notin Busy /\ held'[r] \subseteq held[r]
           /\ req' \in [Desk -> OfficeState \cup DeskState] /\ held' \in [Desk -> SUBSET Id]
<1> DEFINE Quiet(q) == q \in OfficeState /\ q.pc \notin Busy
<1>1. ASSUME NEW q, Quiet(q), Suspend(r, q), UNCHANGED held \/ Unlock(r)
      PROVE  /\ Alone(r) /\ req'[r].pc \notin Busy /\ held'[r] \subseteq held[r]
             /\ req' \in [Desk -> OfficeState \cup DeskState] /\ held' \in [Desk -> SUBSET Id]
  <2>1. /\ req' \in [Desk -> OfficeState \cup DeskState] /\ req'[r] = q
        /\ \A d \in Desk \ {r} : req'[d] = req[d]
    BY <1>1, SuspendTyped
  <2>2. CASE UNCHANGED held
    BY <1>1, <2>1, <2>2 DEF Alone, TypeOK
  <2>3. CASE Unlock(r)
    <3>1. /\ held' \in [Desk -> SUBSET Id] /\ held'[r] = {}
          /\ \A d \in Desk \ {r} : held'[d] = held[d]
      BY <2>3, UnlockAlone
    <3> QED BY <1>1, <2>1, <3>1 DEF Alone
  <2> QED BY <1>1, <2>2, <2>3
<1>2. \A pc \in {"idle", "assign", "reread"} : Quiet([pc |-> pc])
  BY DEF OfficeState, Busy
<1>3. Quiet(Idle) /\ Quiet([pc |-> "assign"]) /\ Quiet([pc |-> "reread"])
  BY <1>2 DEF Idle
<1>4. \A p \in Plans, n \in Nat : Quiet([pc |-> "charge", list |-> p, n |-> n])
  BY DEF OfficeState, Busy
<1> HIDE DEF Quiet
<1>5. CASE AssignBatch(r)
  BY <1>1, <1>3, <1>5 DEF AssignBatch
<1>6. CASE Assign(r)
  <2>1. (Suspend(r, Idle) \/ Suspend(r, [pc |-> "reread"])) /\ UNCHANGED held
    BY <1>6 DEF Assign
  <2> QED BY <1>1, <1>3, <2>1
<1>7. CASE AssignReread(r)
  <2>1. plan.installments \in Plans
    BY <1>7 DEF AssignReread, Frozen
  <2>2. Quiet([pc |-> "charge", list |-> plan.installments, n |-> 1])
    BY <1>4, <2>1
  <2>3. PICK q : q = [pc |-> "charge", list |-> plan.installments, n |-> 1]
    OBVIOUS
  <2>4. Suspend(r, q) /\ UNCHANGED held
    BY <1>7, <2>3 DEF AssignReread
  <2> QED BY <1>1, <2>2, <2>3, <2>4
<1>8. CASE ChargeForInstallment(r)
  <2>1. req[r] \in [pc : {"charge"}, list : Plans, n : Nat]
    BY <1>8, ChargeIs
  <2>2. PICK q : q = [req[r] EXCEPT !.n = req[r].n + 1]
    OBVIOUS
  <2>3. q = [pc |-> "charge", list |-> req[r].list, n |-> req[r].n + 1]
    BY <2>1, <2>2
  <2>4. req[r].list \in Plans /\ req[r].n + 1 \in Nat
    BY <2>1
  <2>5. Quiet(q)
    BY <1>4, <2>3, <2>4
  <2>6. (Suspend(r, q) \/ Suspend(r, Idle)) /\ UNCHANGED held
    BY <1>8, <2>2 DEF ChargeForInstallment
  <2> QED BY <1>1, <1>3, <2>5, <2>6
<1>9. CASE Drop(r)
  BY <1>1, <1>3, <1>9 DEF Drop
<1> QED BY <1>5, <1>6, <1>7, <1>8, <1>9 DEF Office

LEMMA StartAlone ==
    ASSUME TypeOK, NEW r \in Desk, Start(r)
    PROVE  /\ UNCHANGED <<plan, assigned, ledger, held>> /\ Alone(r)
           /\ req'[r] \in DeskState /\ req'[r].pc = "lock" /\ DeskOK(req'[r])
           /\ req'[r].next = req'[r].target.id
           /\ req' \in [Desk -> OfficeState \cup DeskState] /\ held' \in [Desk -> SUBSET Id]
<1>1. PICK q \in DeskState :
              /\ q.pc = "lock" /\ DeskOK(q) /\ q.next = q.target.id
              /\ Suspend(r, q) /\ UNCHANGED <<plan, assigned, ledger, held>>
  BY StartIs
<1>2. /\ req'[r] = q /\ Alone(r)
      /\ req' \in [Desk -> OfficeState \cup DeskState] /\ held' \in [Desk -> SUBSET Id]
  BY <1>1, GoesOn
<1> QED BY <1>1, <1>2

LEMMA AppendAlone ==
    ASSUME TypeOK, NEW r \in Desk, AppendLine(r)
    PROVE  /\ UNCHANGED <<plan, assigned>> /\ Alone(r)
           /\ req'[r] = [req[r] EXCEPT !.pc = "ok"] /\ held'[r] = {}
           /\ req' \in [Desk -> OfficeState \cup DeskState] /\ held' \in [Desk -> SUBSET Id]
<1>1. req[r] \in DeskState /\ Answer(r, "ok") /\ UNCHANGED <<plan, assigned>>
  BY AppendIs DEF AppendLine
<1> QED BY <1>1, AnswerIs

\* The requests and the locks keep their shape.
LEMMA ReqStep ==
    ASSUME Inv, [Next]_vars
    PROVE  req' \in [Desk -> OfficeState \cup DeskState] /\ held' \in [Desk -> SUBSET Id]
<1> USE DEF Inv
<1>1. CASE UNCHANGED <<held, req>>
  BY <1>1 DEF TypeOK
<1>2. ASSUME NEW r \in Desk,
                 \/ Start(r) \/ LockForCap(r) \/ Replay(r) \/ Fold(r) \/ AppendLine(r)
                 \/ Office(r)
      PROVE  req' \in [Desk -> OfficeState \cup DeskState] /\ held' \in [Desk -> SUBSET Id]
  BY <1>2, StartAlone, LockIs, ReplayIs, FoldIs, AppendAlone, OfficeIs
<1> QED BY <1>1, <1>2, StepIs DEF vars, Office

\* The ledger stays, or gains one line, which an assignment raises or a request posts.
LEMMA LedgerStep ==
    ASSUME Inv, [Next]_vars
    PROVE  \/ ledger' = ledger
           \/ \E r \in Desk, n \in Line :
                 /\ n.id \notin Ids /\ ledger' = ledger \cup {n}
                 /\ \/ ChargeForInstallment(r) /\ Raised(req[r], n)
                    \/ AppendLine(r) /\ Posted(req[r], n)
<1> USE DEF Inv
<1>1. ASSUME NEW r \in Desk, ChargeForInstallment(r) \/ AppendLine(r)
      PROVE  \/ ledger' = ledger
             \/ \E n \in Line :
                   /\ n.id \notin Ids /\ ledger' = ledger \cup {n}
                   /\ \/ ChargeForInstallment(r) /\ Raised(req[r], n)
                      \/ AppendLine(r) /\ Posted(req[r], n)
  <2>1. CASE ChargeForInstallment(r)
    <3>1. PICK n \in Line : /\ Raised(req[r], n)
                            /\ \/ n.id \in Ids /\ ledger' = ledger
                               \/ n.id \notin Ids /\ ledger' = ledger \cup {n}
      BY <2>1, ChargeIs
    <3> QED BY <2>1, <3>1
  <2>2. CASE AppendLine(r)
    <3>1. PICK n \in Line : /\ Posted(req[r], n)
                            /\ \/ n.id \in Ids /\ ledger' = ledger
                               \/ n.id \notin Ids /\ ledger' = ledger \cup {n}
      BY <2>2, AppendIs
    <3> QED BY <2>2, <3>1
  <2> QED BY <1>1, <2>1, <2>2
<1>2. ASSUME NEW r \in Desk,
                 \/ Start(r) \/ LockForCap(r) \/ Replay(r) \/ Fold(r)
                 \/ AssignBatch(r) \/ Assign(r) \/ AssignReread(r) \/ Drop(r)
      PROVE  ledger' = ledger
  <2>1. Start(r) => ledger' = ledger
    BY StartAlone
  <2> QED BY <1>2, <2>1 DEF LockForCap, Replay, Fold, AssignBatch, Assign, AssignReread, Drop
<1>3. CASE UNCHANGED ledger
  BY <1>3
<1> QED BY <1>1, <1>2, <1>3, StepIs DEF vars

LEMMA PlanTyped ==
    ASSUME Inv, [Next]_vars
    PROVE  /\ plan' \in [status : {"unborn", "there", "gone"},
                         installments : Plans \cup {<<>>}, assignment_count : Nat]
           /\ assigned' \in BOOLEAN
<1> USE DEF Inv
<1>0. /\ plan \in [status : {"unborn", "there", "gone"},
                   installments : Plans \cup {<<>>}, assignment_count : Nat]
      /\ assigned \in BOOLEAN
  BY DEF TypeOK
<1>1. CASE UNCHANGED <<plan, assigned>>
  BY <1>0, <1>1
<1>2. CASE PlanStep /\ UNCHANGED <<assigned, ledger, held, req>>
  BY <1>0, <1>2 DEF PlanStep, CreatePlan, UpdatePlan, DeletePlan
<1>3. ASSUME NEW r \in Desk, Assign(r)
      PROVE  /\ plan' \in [status : {"unborn", "there", "gone"},
                         installments : Plans \cup {<<>>}, assignment_count : Nat]
             /\ assigned' \in BOOLEAN
  <2>1. /\ plan' = plan \/ plan' = [plan EXCEPT !.assignment_count = plan.assignment_count + 1]
        /\ assigned' = assigned \/ assigned' = TRUE
    BY <1>3 DEF Assign
  <2>2. assigned' \in BOOLEAN
    BY <1>0, <2>1
  <2> QED BY <1>0, <2>1, <2>2
<1>4. ASSUME NEW r \in Desk,
                 \/ Start(r) \/ LockForCap(r) \/ Replay(r) \/ Fold(r) \/ AppendLine(r)
                 \/ AssignBatch(r) \/ AssignReread(r) \/ ChargeForInstallment(r) \/ Drop(r)
      PROVE  UNCHANGED <<plan, assigned>>
  <2>1. Start(r) => UNCHANGED <<plan, assigned>>
    BY StartAlone
  <2> QED BY <1>4, <2>1 DEF LockForCap, Replay, Fold, AppendLine, AssignBatch, AssignReread,
                            ChargeForInstallment, Drop
<1> QED BY <1>1, <1>2, <1>3, <1>4, StepIs DEF vars

LEMMA TypeStep ==
    ASSUME Inv, [Next]_vars
    PROVE  TypeOK'
<1>1. ledger' \subseteq Line /\ IsFiniteSet(ledger')
  <2>0. ledger \subseteq Line /\ IsFiniteSet(ledger)
    BY DEF Inv, TypeOK
  <2>1. CASE ledger' = ledger
    BY <2>0, <2>1
  <2>2. ASSUME NEW n \in Line, ledger' = ledger \cup {n}
        PROVE  ledger' \subseteq Line /\ IsFiniteSet(ledger')
    BY <2>0, <2>2, FS_AddElement
  <2> QED BY <2>1, <2>2, LedgerStep
<1> QED BY <1>1, PlanTyped, ReqStep DEF TypeOK

-----------------------------------------------------------------------------
(* The tree. *)

\* What a request posts says whose it is.
LEMMA PostedIs ==
    ASSUME TypeOK, NEW q \in DeskState, DeskOK(q), NEW n, Posted(q, n)
    PROVE  /\ n.kind \in {"credit", "refund", "reversal"} /\ MayTarget(n.kind, q.target)
           /\ q.target \in ledger /\ n.source = q.target.id /\ n.source \in Ids /\ n.source # None
           /\ n.kind = "reversal" => n.id = ReversalId(q.target.id) /\ n.amount = q.target.amount
           /\ n.kind # "reversal" =>
                 \/ n.id[2] = <<>> /\ q.id = None
                 \/ /\ \E key \in Keys : n.id = RequestId(q.target.id, n.kind, key)
                    /\ n.id = q.id
<1>1. /\ n.kind = q.kind /\ n.amount = q.amount /\ n.source = q.target.id
      /\ q.id = None => n.id = FreshId
      /\ q.id # None => n.id = q.id
  BY DEF Posted
<1>2. /\ q.target \in ledger /\ MayTarget(q.kind, q.target)
      /\ q.kind = "reversal" => q.id = ReversalId(q.target.id) /\ q.amount = q.target.amount
      /\ q.kind # "reversal" =>
            q.id = None \/ \E key \in Keys : q.id = RequestId(q.target.id, q.kind, key)
  BY DEF DeskOK
<1>3. q.kind \in {"credit", "refund", "reversal"}
  BY DeskMoves
<1>4. q.target.id \in Id /\ q.target.id \in Ids /\ q.target.id # None
  BY <1>2, LineFields DEF Ids
<1>5. ReversalId(q.target.id) # None
  BY <1>4, IdShapes, PaymentAssumption DEF ReversalId, Tags
<1>6. FreshId[2] = <<>>
  BY FreshTyped
<1>7. n.kind = "reversal" => n.id = ReversalId(q.target.id) /\ n.amount = q.target.amount
  BY <1>1, <1>2, <1>5
<1>8. n.kind # "reversal" =>
                 \/ n.id[2] = <<>> /\ q.id = None
                 \/ /\ \E key \in Keys : n.id = RequestId(q.target.id, n.kind, key)
                    /\ n.id = q.id
  BY <1>1, <1>2, <1>6
<1> QED BY <1>1, <1>2, <1>3, <1>4, <1>7, <1>8

LEMMA RaisedIs ==
    ASSUME NEW q \in [pc : {"charge"}, list : Plans, n : Nat], NEW n, Raised(q, n)
    PROVE  n.kind = "charge" /\ n.source = None /\ n.id[2] = <<>>
<1>1. q.n \in Int
  OBVIOUS
<1> QED BY <1>1, IdShapes DEF Raised

\* The ledger stays, or gains one line that hangs where it should.
LEMMA TreeLand ==
    ASSUME Inv, [Next]_vars
    PROVE  \/ ledger' = ledger
           \/ \E n \in Line : n.id \notin Ids /\ ledger' = ledger \cup {n} /\ LineOK(n)'
<1> USE DEF Inv
<1>1. ASSUME NEW r \in Desk, NEW n \in Line, ledger' = ledger \cup {n},
             ChargeForInstallment(r) /\ Raised(req[r], n)
      PROVE  LineOK(n)'
  <2>1. req[r] \in [pc : {"charge"}, list : Plans, n : Nat]
    BY <1>1, ChargeIs
  <2>2. n.kind = "charge" /\ n.source = None /\ n.id[2] = <<>>
    BY <1>1, <2>1, RaisedIs
  <2> QED BY <2>2 DEF LineOK
<1>2. ASSUME NEW r \in Desk, NEW n \in Line, ledger' = ledger \cup {n},
             AppendLine(r) /\ Posted(req[r], n)
      PROVE  LineOK(n)'
  <2>1. req[r] \in DeskState /\ DeskOK(req[r])
    BY <1>2, AppendIs DEF DesksOK, Busy
  <2>2. PICK t : t = req[r].target
    OBVIOUS
  <2>3. /\ n.kind \in {"credit", "refund", "reversal"} /\ MayTarget(n.kind, t)
        /\ t \in ledger /\ n.source = t.id
        /\ n.kind = "reversal" => n.id = ReversalId(t.id) /\ n.amount = t.amount
        /\ n.kind # "reversal" => n.id[2] = <<>> \/ \E key \in Keys : n.id = RequestId(t.id, n.kind, key)
    BY <1>2, <2>1, <2>2, PostedIs
  <2>4. t \in ledger'
    BY <1>2, <2>3
  <2> QED BY <2>3, <2>4 DEF LineOK, MayTarget, ReversalId, RequestId, Under
<1> QED BY <1>1, <1>2, LedgerStep

LEMMA TreeStep ==
    ASSUME Inv, [Next]_vars
    PROVE  Tree'
<1> USE DEF Inv
<1>1. CASE ledger' = ledger
  BY <1>1 DEF Tree, LineOK, MayTarget, ReversalId, RequestId, Under
<1>2. ASSUME NEW n \in Line, n.id \notin Ids, ledger' = ledger \cup {n}, LineOK(n)'
      PROVE  Tree'
  <2>1. ASSUME NEW l \in ledger
        PROVE  LineOK(l)'
    <3>1. LineOK(l)
      BY DEF Tree
    <3> QED BY <1>2, <3>1 DEF LineOK, MayTarget, ReversalId, RequestId, Under
  <2>2. \A l \in ledger : l.id # n.id
    BY <1>2 DEF Ids
  <2>3. \A l, m \in ledger' : l.id = m.id => l = m
    BY <1>2, <2>2 DEF Tree
  <2>4. \A l \in ledger' : LineOK(l)'
    BY <1>2, <2>1
  <2> QED BY <2>3, <2>4 DEF Tree
<1> QED BY <1>1, <1>2, TreeLand

RowsStand ==
    /\ \A l \in ledger : Row(l.id) = l /\ Parent(l.id) = l.source
    /\ Parent(None) = None

\* The same in the next state.
LEMMA RowsNext == TypeOK' /\ Tree' => RowsStand'
<1>1. TypeOK /\ Tree => RowsStand
  BY RowIs DEF RowsStand
<1> QED BY <1>1, PTL

\* Rows and parents stay as they are, and a new line is in the subtrees of the
\* lines it hangs under.
LEMMA Growth ==
    ASSUME TypeOK, Tree, TypeOK', Tree',
           ledger' = ledger \/ \E n \in Line : n.id \notin Ids /\ ledger' = ledger \cup {n}
    PROVE  /\ ledger \subseteq ledger' /\ Ids \subseteq Ids'
           /\ \A id \in Ids : Row(id)' = Row(id)
           /\ \A id \in Ids \cup {None} : Parent(id)' = Parent(id)
           /\ \A l \in ledger : Ancestors(l)' = Ancestors(l)
<1>1. ledger \subseteq ledger' /\ Ids \subseteq Ids'
  BY DEF Ids
<1>2. /\ \A l \in ledger : l.id \in Ids /\ Row(l.id) = l /\ Parent(l.id) = l.source
      /\ \A id \in Ids : Row(id) \in ledger /\ Row(id).id = id
      /\ Parent(None) = None
  BY RowIs
<1>3. /\ \A l \in ledger' : Row(l.id)' = l /\ Parent(l.id)' = l.source
      /\ Parent(None)' = None
  BY RowsNext DEF RowsStand
<1>4. ASSUME NEW id \in Ids PROVE Row(id)' = Row(id) /\ Parent(id)' = Parent(id)
  <2>1. PICK l \in ledger : l = Row(id) /\ l.id = id
    BY <1>2
  <2>2. Row(l.id)' = l /\ Parent(l.id)' = l.source /\ Parent(l.id) = l.source
    BY <1>1, <1>2, <1>3
  <2> QED BY <2>1, <2>2
<1>5. \A id \in Ids \cup {None} : Parent(id)' = Parent(id)
  BY <1>2, <1>3, <1>4
<1>6. ASSUME NEW l \in ledger
      PROVE  Ancestors(l)' = Ancestors(l)
  <2>0. \A id \in Ids : Parent(id) \in Ids \cup {None}
    <3> SUFFICES ASSUME NEW id \in Ids PROVE Parent(id) \in Ids \cup {None}
      OBVIOUS
    <3>1. PICK m \in ledger : m.id = id /\ Parent(id) = m.source
      BY <1>2
    <3>2. LineOK(m)
      BY DEF Tree
    <3> QED BY <1>2, <3>1, <3>2 DEF LineOK
  <2>1. l.source \in Ids \cup {None}
    BY <1>2, <2>0
  <2>2. Parent(l.source) \in Ids \cup {None}
    BY <1>2, <2>0, <2>1
  <2>3. PICK s : s = l.source
    OBVIOUS
  <2>4. PICK p : p = Parent(s)
    OBVIOUS
  <2>5. Parent(s)' = p /\ Parent(p)' = Parent(p)
    BY <1>5, <2>1, <2>2, <2>3, <2>4
  <2> QED BY <2>3, <2>4, <2>5 DEF Ancestors
<1> QED BY <1>1, <1>4, <1>5, <1>6

\* Growth, for a step.
LEMMA Grows ==
    ASSUME Inv, [Next]_vars
    PROVE  /\ ledger \subseteq ledger' /\ Ids \subseteq Ids'
           /\ \A id \in Ids : Row(id)' = Row(id)
           /\ \A id \in Ids \cup {None} : Parent(id)' = Parent(id)
           /\ \A l \in ledger : Ancestors(l)' = Ancestors(l)
<1>1. ledger' = ledger \/ \E n \in Line : n.id \notin Ids /\ ledger' = ledger \cup {n}
  BY TreeLand
<1>2. TypeOK /\ Tree /\ TypeOK' /\ Tree'
  BY TypeStep, TreeStep DEF Inv
<1> QED BY <1>1, <1>2, Growth

Acts(r) ==
    Start(r) \/ LockForCap(r) \/ Replay(r) \/ Fold(r) \/ AppendLine(r) \/ Office(r)

\* At most one request moves.
LEMMA Movers ==
    ASSUME Inv, [Next]_vars
    PROVE  \/ \A d \in Desk : req'[d] = req[d] /\ held'[d] = held[d]
           \/ \E r \in Desk : Acts(r) /\ Alone(r)
<1> USE DEF Inv
<1>1. ASSUME NEW r \in Desk, Acts(r)
      PROVE  Alone(r)
  BY <1>1, StartAlone, LockIs, ReplayIs, FoldIs, AppendAlone, OfficeIs DEF Acts
<1> QED BY <1>1, StepIs DEF vars, Acts, Office

SameDesk(p, q) ==
    p.kind = q.kind /\ p.target = q.target /\ p.amount = q.amount /\ p.id = q.id

\* What a request is about does not change on its way.
LEMMA ActorKeeps ==
    ASSUME Inv, NEW r \in Desk, LockForCap(r) \/ Replay(r) \/ Fold(r) \/ AppendLine(r)
    PROVE  /\ req[r] \in DeskState /\ req[r].pc \in Busy /\ DeskOK(req[r])
           /\ WalkOK(req[r], held[r]) /\ SameDesk(req'[r], req[r])
<1> USE DEF Inv
<1>1. ASSUME NEW q \in DeskState
      PROVE  /\ \A pc \in Busy : SameDesk([q EXCEPT !.pc = pc], q)
             /\ \A id : SameDesk([q EXCEPT !.next = id], q)
  BY DEF DeskState, SameDesk
<1>2. /\ req[r] \in DeskState /\ req[r].pc \in Busy
      /\ \/ \E pc \in Busy : req'[r] = [req[r] EXCEPT !.pc = pc]
         \/ \E id : req'[r] = [req[r] EXCEPT !.next = id]
  <2>1. CASE LockForCap(r)
    BY <2>1, LockIs DEF Busy
  <2>2. CASE Replay(r)
    BY <2>2, ReplayIs DEF Busy
  <2>3. CASE Fold(r)
    BY <2>3, FoldIs DEF Busy
  <2>4. CASE AppendLine(r)
    BY <2>4, AppendIs, AppendAlone DEF Busy
  <2> QED BY <2>1, <2>2, <2>3, <2>4
<1> QED BY <1>1, <1>2 DEF DesksOK, WalksOK

\* A request is on a line of the ledger as it was before its step.
LEMMA DesksNow ==
    ASSUME Inv, [Next]_vars, NEW d \in Desk, req'[d].pc \in Busy
    PROVE  DeskOK(req'[d])
<1> USE DEF Inv
<1>1. CASE req'[d] = req[d]
  BY <1>1 DEF DesksOK
<1>2. CASE Start(d)
  BY <1>2, StartAlone
<1>3. CASE LockForCap(d) \/ Replay(d) \/ Fold(d) \/ AppendLine(d)
  <2>1. SameDesk(req'[d], req[d]) /\ DeskOK(req[d])
    BY <1>3, ActorKeeps
  <2> QED BY <2>1 DEF SameDesk, DeskOK
<1>4. CASE Office(d)
  BY <1>4, OfficeIs
<1> QED BY <1>1, <1>2, <1>3, <1>4, Movers DEF Acts, Alone

LEMMA DesksStep ==
    ASSUME Inv, [Next]_vars
    PROVE  DesksOK'
<1> USE DEF Inv
<1>1. \A q : DeskOK(q) => DeskOK(q)'
  BY Grows DEF DeskOK, MayTarget, ReversalId, RequestId, Under
<1>2. ASSUME NEW d \in Desk, req'[d].pc \in Busy
      PROVE  DeskOK(req[d])'
  <2>1. PICK q : q = req'[d]
    OBVIOUS
  <2>2. DeskOK(q)'
    BY <1>1, <1>2, <2>1, DesksNow
  <2> QED BY <2>1, <2>2 DEF DeskOK
<1> QED BY <1>2 DEF DesksOK

LEMMA ExclusiveStep ==
    ASSUME Inv, [Next]_vars
    PROVE  Exclusive'
<1> USE DEF Inv
<1>1. CASE \A d \in Desk : held'[d] = held[d]
  BY <1>1 DEF Exclusive
<1>2. ASSUME NEW r \in Desk, Acts(r) /\ Alone(r)
      PROVE  Exclusive'
  <2>1. CASE LockForCap(r)
    <3>1. /\ held'[r] = held[r] \cup {req[r].next}
          /\ \A d \in Desk \ {r} : req[r].next \notin held[d] /\ held'[d] = held[d]
      BY <1>2, <2>1, LockIs DEF Alone
    <3> QED BY <3>1 DEF Exclusive
  <2>2. CASE ~LockForCap(r)
    <3>1. held'[r] \subseteq held[r] /\ \A d \in Desk \ {r} : held'[d] = held[d]
      <4>1. \A d \in Desk \ {r} : held'[d] = held[d]
        BY <1>2 DEF Alone
      <4>2. Start(r) => held'[r] = held[r]
        BY StartAlone
      <4>3. Replay(r) => held'[r] \subseteq held[r]
        BY ReplayIs
      <4>4. Fold(r) => held'[r] \subseteq held[r]
        BY FoldIs
      <4>5. AppendLine(r) => held'[r] = {}
        BY AppendAlone
      <4>6. Office(r) => held'[r] \subseteq held[r]
        BY OfficeIs
      <4> QED BY <1>2, <2>2, <4>1, <4>2, <4>3, <4>4, <4>5, <4>6 DEF Acts
    <3> QED BY <3>1 DEF Exclusive
  <2> QED BY <2>1, <2>2
<1> QED BY <1>1, <1>2, Movers

\* The parents of a line a request is on.
LEMMA TargetChain ==
    ASSUME TypeOK, Tree, NEW q, DeskOK(q)
    PROVE  /\ q.target \in ledger /\ q.target.id \in Ids /\ Row(q.target.id) = q.target
           /\ Parent(q.target.id) \in Ids \cup {None}
           /\ Parent(Parent(q.target.id)) \in Ids \cup {None}
           /\ Parent(q.target.id) \in Ids /\ Row(Parent(q.target.id)).kind = "charge"
                 => Parent(Parent(q.target.id)) = None
           /\ Parent(Parent(q.target.id)) \in Ids
                 => Row(Parent(Parent(q.target.id))).kind = "charge"
           /\ q.target.kind = "charge" => Chain(q.target.id) = {q.target.id}
           /\ q.target.kind \in {"charge", "credit", "refund"}
<1>1. PICK t \in ledger : t = q.target
  BY DEF DeskOK
<1>2. t.kind \in {"charge", "credit", "refund"}
  BY <1>1 DEF DeskOK, MayTarget
<1>3. t.id \in Ids /\ Row(t.id) = t /\ None \notin Ids /\ t.id # None
  BY RowIs
<1>4. /\ t.kind = "charge" => Parent(t.id) = None /\ Parent(Parent(t.id)) = None
      /\ t.kind # "charge" => Parent(t.id) \in Ids
      /\ t.kind = "credit" => Row(Parent(t.id)).kind = "charge"
                                   /\ Parent(Parent(t.id)) = None
      /\ t.kind = "refund" => Row(Parent(t.id)).kind = "credit"
                                   /\ Parent(Parent(t.id)) \in Ids
                                   /\ Row(Parent(Parent(t.id))).kind = "charge"
  BY Depth
<1>5. t.kind = "charge" => Chain(t.id) = {t.id}
  BY <1>3, <1>4 DEF Chain
<1> QED BY <1>1, <1>2, <1>3, <1>4, <1>5

\* A walk stays sound as the ledger grows.
LEMMA WalkFrame ==
    ASSUME Inv, [Next]_vars, NEW q, DeskOK(q), NEW ids, WalkOK(q, ids)
    PROVE  WalkOK(q, ids)'
<1> USE DEF Inv
<1>1. PICK id : id = q.target.id
  OBVIOUS
<1>2. PICK p : p = Parent(id)
  OBVIOUS
<1>3. id \in Ids /\ p \in Ids \cup {None}
  BY <1>1, <1>2, TargetChain
<1>4. Parent(id)' = p /\ Parent(p)' = Parent(p) /\ Ids \subseteq Ids'
  BY <1>2, <1>3, Grows
<1> QED BY <1>1, <1>2, <1>4 DEF WalkOK, Chain

\* One step of the walk.
LEMMA LockWalks ==
    ASSUME Inv, NEW r \in Desk, LockForCap(r)
    PROVE  WalkOK(req'[r], held'[r])
<1> USE DEF Inv
<1>1. PICK q, p, id, ids :
         q = req[r] /\ p = req'[r] /\ id = q.target.id /\ ids = held[r]
  OBVIOUS
<1>2. /\ q \in DeskState /\ q.pc = "lock" /\ q.next \in Ids
      /\ held'[r] = ids \cup {q.next}
      /\ \/ ~WalkEnds(Row(q.next)) /\ p = [q EXCEPT !.next = Row(q.next).source]
         \/ /\ WalkEnds(Row(q.next))
            /\ \/ q.kind = "reversal" /\ p = [q EXCEPT !.pc = "append"]
               \/ q.kind # "reversal" /\ p = [q EXCEPT !.pc = "replay"]
  BY <1>1, LockIs
<1>3. DeskOK(q) /\ WalkOK(q, ids)
  BY <1>1, ActorKeeps
<1>4. \/ q.next = id
      \/ q.next = Parent(id) /\ id \in ids
      \/ q.next = Parent(Parent(id)) /\ {id, Parent(id)} \subseteq ids
  BY <1>1, <1>2, <1>3 DEF WalkOK
<1>5. /\ Row(id) = q.target
      /\ Parent(id) \in Ids /\ Row(Parent(id)).kind = "charge" => Parent(Parent(id)) = None
      /\ Parent(Parent(id)) \in Ids => Row(Parent(Parent(id))).kind = "charge"
      /\ q.target.kind = "charge" => Chain(id) = {id}
  BY <1>1, <1>3, TargetChain
<1>6. CASE ~WalkEnds(Row(q.next))
  <2>1. p = [q EXCEPT !.next = Row(q.next).source]
    BY <1>2, <1>6
  <2>2. Row(q.next).source = Parent(q.next) /\ Row(q.next) \in ledger /\ Row(q.next).id = q.next
    BY <1>2, RowIs DEF Parent
  <2>3. Parent(q.next) \in Ids
    <3>1. PICK l \in ledger : l = Row(q.next)
      BY <2>2
    <3>2. l.kind # "charge" => Parent(l.id) \in Ids
      BY Depth
    <3> QED BY <1>6, <2>2, <3>1, <3>2 DEF WalkEnds
  <2>4. q.next # Parent(Parent(id))
    BY <1>2, <1>5, <1>6 DEF WalkEnds
  <2>5. p.pc = "lock" /\ p.next = Parent(q.next) /\ p.target.id = id
    BY <1>1, <1>2, <2>1, <2>2 DEF DeskState
  <2>6. \/ p.next = Parent(id) /\ id \in held'[r]
        \/ p.next = Parent(Parent(id)) /\ {id, Parent(id)} \subseteq held'[r]
    BY <1>2, <1>4, <2>4, <2>5
  <2>7. WalkOK(p, held'[r])
    BY <2>3, <2>5, <2>6 DEF WalkOK
  <2> QED BY <1>1, <2>7
<1>7. CASE WalkEnds(Row(q.next))
  <2>1. Row(q.next).kind = "charge"
    BY <1>7 DEF WalkEnds
  <2>2. Chain(id) \subseteq ids \cup {q.next}
    <3>1. CASE q.next = id
      BY <1>5, <2>1, <3>1
    <3>2. CASE q.next = Parent(id) /\ id \in ids
      BY <1>2, <1>5, <2>1, <3>2 DEF Chain
    <3>3. CASE q.next = Parent(Parent(id)) /\ {id, Parent(id)} \subseteq ids
      BY <3>3 DEF Chain
    <3> QED BY <1>4, <3>1, <3>2, <3>3
  <2>3. /\ p.target.id = id /\ p.pc # "lock"
        /\ p.pc \in {"replay", "fold"} => p.kind # "reversal"
    BY <1>1, <1>2, <1>7 DEF DeskState
  <2>4. WalkOK(p, held'[r])
    BY <1>2, <2>2, <2>3 DEF WalkOK
  <2> QED BY <1>1, <2>4
<1> QED BY <1>6, <1>7

LEMMA WalksStep ==
    ASSUME Inv, [Next]_vars
    PROVE  WalksOK'
<1> USE DEF Inv
<1>1. ASSUME NEW d \in Desk, req'[d].pc \in Busy
      PROVE  WalkOK(req'[d], held'[d])
  <2>1. CASE req'[d] = req[d] /\ held'[d] = held[d]
    BY <1>1, <2>1 DEF WalksOK
  <2>2. CASE Start(d)
    <3>1. /\ req'[d].pc = "lock" /\ req'[d].next = req'[d].target.id
          /\ req'[d].target \in ledger
      BY <2>2, StartAlone DEF DeskOK
    <3> QED BY <3>1 DEF WalkOK, Ids
  <2>3. CASE LockForCap(d)
    BY <2>3, LockWalks
  <2>4. CASE Replay(d) \/ Fold(d)
    <3>1. /\ req[d] \in DeskState
          /\ WalkOK(req[d], held[d]) /\ req[d].pc \in {"replay", "fold"}
      BY <2>4, ActorKeeps, ReplayIs, FoldIs
    <3>2. \/ \E pc \in {"ok", "refused"} : req'[d] = [req[d] EXCEPT !.pc = pc]
          \/ /\ \E pc \in {"fold", "append"} : req'[d] = [req[d] EXCEPT !.pc = pc]
             /\ held'[d] = held[d]
      BY <2>4, ReplayIs, FoldIs
    <3>3. CASE \E pc \in {"ok", "refused"} : req'[d] = [req[d] EXCEPT !.pc = pc]
      <4>1. req'[d].pc \in {"ok", "refused"}
        BY <3>1, <3>3 DEF DeskState
      <4> QED BY <4>1 DEF WalkOK
    <3>4. CASE /\ \E pc \in {"fold", "append"} : req'[d] = [req[d] EXCEPT !.pc = pc]
               /\ held'[d] = held[d]
      <4>1. /\ req'[d].pc \in {"fold", "append"} /\ req'[d].target = req[d].target
            /\ req'[d].kind = req[d].kind /\ held'[d] = held[d]
        BY <3>1, <3>4 DEF DeskState
      <4>2. Chain(req[d].target.id) \subseteq held[d] /\ req[d].kind # "reversal"
        BY <3>1 DEF WalkOK
      <4> QED BY <4>1, <4>2 DEF WalkOK
    <3> QED BY <3>2, <3>3, <3>4
  <2>5. CASE AppendLine(d)
    <3>1. req'[d].pc = "ok"
      BY <2>5, AppendAlone, AppendIs DEF DeskState
    <3> QED BY <3>1 DEF WalkOK
  <2>6. CASE Office(d)
    BY <1>1, <2>6, OfficeIs
  <2> QED BY <2>1, <2>2, <2>3, <2>4, <2>5, <2>6, Movers DEF Acts, Alone
<1>2. ASSUME NEW d \in Desk, req'[d].pc \in Busy
      PROVE  WalkOK(req[d], held[d])'
  <2>1. PICK q, ids : q = req'[d] /\ ids = held'[d]
    OBVIOUS
  <2>2. WalkOK(q, ids) /\ DeskOK(q)
    BY <1>1, <1>2, <2>1, DesksNow
  <2>3. WalkOK(q, ids)'
    BY <2>2, WalkFrame
  <2> QED BY <2>1, <2>3 DEF WalkOK
<1> QED BY <1>2 DEF WalksOK

-----------------------------------------------------------------------------
(* What others land while a request is at work. *)

\* A request past its walk holds its target and all it hangs under.
LEMMA Holds ==
    ASSUME Inv, NEW r \in Desk, req[r].pc \in {"replay", "fold", "append"}
    PROVE  /\ req[r] \in DeskState /\ DeskOK(req[r])
           /\ Chain(req[r].target.id) \subseteq held[r] /\ req[r].target.id \in held[r]
<1> USE DEF Inv
<1>1. req[r].pc \in Busy
  BY DEF Busy
<1>2. req[r] \in DeskState /\ DeskOK(req[r])
  BY <1>1, Shapes DEF DesksOK
<1>3. Chain(req[r].target.id) \subseteq held[r]
  BY <1>1 DEF WalksOK, WalkOK
<1>4. req[r].target.id # None
  BY <1>2, LineFields DEF DeskOK
<1> QED BY <1>2, <1>3, <1>4 DEF Chain

\* A posted line hangs under the chain its request holds, a charge under nothing.
LEMMA HangsUnder ==
    ASSUME Inv, [Next]_vars, NEW d \in Desk, NEW n
    PROVE  /\ AppendLine(d) /\ Posted(req[d], n) => Ancestors(n)' = Chain(req[d].target.id)
           /\ ChargeForInstallment(d) /\ Raised(req[d], n) => Ancestors(n)' = {}
<1> USE DEF Inv
<1>1. ASSUME AppendLine(d), Posted(req[d], n)
      PROVE  Ancestors(n)' = Chain(req[d].target.id)
  <2>1. DeskOK(req[d])
    BY <1>1, ActorKeeps
  <2>2. PICK s : s = req[d].target.id
    OBVIOUS
  <2>3. PICK p : p = Parent(s)
    OBVIOUS
  <2>4. n.source = s /\ s \in Ids /\ p \in Ids \cup {None}
    BY <1>1, <2>1, <2>2, <2>3, TargetChain DEF Posted
  <2>5. Parent(s)' = p /\ Parent(p)' = Parent(p)
    BY <2>3, <2>4, Grows
  <2> QED BY <2>2, <2>3, <2>4, <2>5 DEF Ancestors, Chain
<1>2. ASSUME Raised(req[d], n)
      PROVE  Ancestors(n)' = {}
  <2>1. n.source = None /\ Parent(None)' = None
    <3>1. Parent(None) = None
      BY RowIs
    <3> QED BY <1>2, <3>1, Grows DEF Raised
  <2> QED BY <2>1 DEF Ancestors
<1> QED BY <1>1, <1>2

\* While a request folds and appends, the line another lands is not under its
\* target and does not take its id.
LEMMA Strangers ==
    ASSUME Inv, [Next]_vars, NEW d \in Desk, NEW n,
           \/ ChargeForInstallment(d) /\ Raised(req[d], n)
           \/ AppendLine(d) /\ Posted(req[d], n),
           NEW r \in Desk, req'[r].pc \in {"fold", "append"}
    PROVE  /\ r # d /\ req'[r] = req[r] /\ req[r].target.id \notin Ancestors(n)'
           /\ req[r].id # None => n.id # req[r].id
<1> USE DEF Inv
<1>1. Alone(d) /\ req'[d].pc \notin {"fold", "append"}
  <2>1. CASE ChargeForInstallment(d)
    BY <2>1, OfficeIs DEF Office, Busy
  <2>2. CASE AppendLine(d)
    BY <2>2, AppendAlone, AppendIs DEF DeskState
  <2> QED BY <2>1, <2>2
<1>2. r # d /\ req'[r] = req[r]
  BY <1>1 DEF Alone
<1>3. PICK q, t : q = req[r] /\ t = q.target
  OBVIOUS
<1>4. q \in DeskState /\ DeskOK(q) /\ t.id \in held[r] /\ t.id \in Id /\ t \in ledger
  BY <1>2, <1>3, Holds, DeskMoves DEF DeskOK
<1>5. \/ q.id = None
      \/ q.id = ReversalId(t.id)
      \/ \E key \in Keys : q.id = RequestId(t.id, q.kind, key)
  BY <1>3, <1>4 DEF DeskOK
<1>6. q.id # None => q.id[2] # <<>>
  <2>1. ReversalId(t.id)[2] # <<>>
    BY <1>4, IdShapes DEF ReversalId, Tags
  <2>2. \A key \in Keys : RequestId(t.id, q.kind, key)[2] # <<>>
    BY <1>4, DeskIds
  <2> QED BY <1>5, <2>1, <2>2
<1>7. CASE ChargeForInstallment(d) /\ Raised(req[d], n)
  <2>1. n.id[2] = <<>>
    BY <1>7, ChargeIs, RaisedIs
  <2>2. Ancestors(n)' = {}
    BY <1>7, HangsUnder
  <2> QED BY <1>2, <1>3, <1>6, <2>1, <2>2
<1>8. CASE AppendLine(d) /\ Posted(req[d], n)
  <2>1. PICK p, s : p = req[d] /\ s = p.target
    OBVIOUS
  <2>2. req[d].pc = "append"
    BY <1>8 DEF AppendLine
  <2>3. p \in DeskState /\ DeskOK(p) /\ Chain(s.id) \subseteq held[d] /\ s.id \in held[d] /\ s.id \in Id
    BY <2>1, <2>2, Holds, DeskMoves
  <2>4. held[r] \cap held[d] = {}
    BY <1>2 DEF Exclusive
  <2>5. t.id \notin Ancestors(n)' /\ t.id # s.id
    BY <1>4, <1>8, <2>1, <2>3, <2>4, HangsUnder
  <2>6. /\ n.kind = "reversal" => n.id = ReversalId(s.id)
        /\ n.kind # "reversal" => n.id[2] = <<>> \/ \E key \in Keys : n.id = RequestId(s.id, n.kind, key)
    BY <1>8, <2>1, <2>3, PostedIs
  <2>7. ReversalId(t.id) = ReversalId(s.id) => t.id = s.id
    BY <1>4, <2>3, IdShapes DEF ReversalId, Tags
  <2>8. ASSUME NEW key \in Keys
        PROVE  RequestId(t.id, q.kind, key) # ReversalId(s.id)
               /\ RequestId(s.id, n.kind, key) # ReversalId(t.id)
    BY <1>4, <2>3, DeskIds
  <2>9. ASSUME NEW key \in Keys, NEW key2 \in Keys
        PROVE  RequestId(t.id, q.kind, key) = RequestId(s.id, n.kind, key2) => t.id = s.id
    BY <1>4, <2>3, DeskIds
  <2>10. q.id # None => n.id # q.id
    BY <1>5, <1>6, <2>5, <2>6, <2>7, <2>8, <2>9
  <2> QED BY <1>2, <1>3, <2>5, <2>10
<1> QED BY <1>7, <1>8

LEMMA AbsentStep ==
    ASSUME Inv, [Next]_vars
    PROVE  Absent'
<1> USE DEF Inv
<1> SUFFICES ASSUME NEW r \in Desk, req'[r].pc \in {"fold", "append"},
                    req'[r].kind # "reversal", req'[r].id # None
             PROVE  req'[r].id \notin Ids'
  BY DEF Absent
<1>1. req'[r].id \notin Ids
  <2>1. CASE req'[r] = req[r]
    BY <2>1 DEF Absent
  <2>2. CASE Start(r)
    BY <2>2, StartAlone
  <2>3. CASE LockForCap(r)
    BY <2>3, LockIs DEF DeskState
  <2>4. CASE Replay(r)
    BY <2>4, ReplayIs DEF DeskState
  <2>5. CASE Fold(r)
    <3>1. req[r] \in DeskState /\ req[r].pc = "fold" /\ SameDesk(req'[r], req[r])
      BY <2>5, FoldIs, ActorKeeps
    <3> QED BY <3>1 DEF Absent, SameDesk
  <2>6. CASE AppendLine(r)
    BY <2>6, AppendAlone, AppendIs DEF DeskState
  <2>7. CASE Office(r)
    BY <2>7, OfficeIs DEF Busy
  <2> QED BY <2>1, <2>2, <2>3, <2>4, <2>5, <2>6, <2>7, Movers DEF Acts, Alone
<1>2. CASE ledger' = ledger
  BY <1>1, <1>2 DEF Ids
<1>3. ASSUME NEW d \in Desk, NEW n \in Line, ledger' = ledger \cup {n},
             \/ ChargeForInstallment(d) /\ Raised(req[d], n)
             \/ AppendLine(d) /\ Posted(req[d], n)
      PROVE  req'[r].id \notin Ids'
  <2>1. n.id # req'[r].id
    BY <1>3, Strangers
  <2> QED BY <1>1, <1>3, <2>1 DEF Ids
<1> QED BY <1>2, <1>3, LedgerStep

\* A subtree gains the line that lands under its root, and nothing else.
LEMMA SubtreeGrows ==
    ASSUME Inv, [Next]_vars, NEW n, ledger' = ledger \cup {n}, NEW id
    PROVE  /\ id \in Ancestors(n)' => Subtree(id)' = Subtree(id) \cup {n}
           /\ id \notin Ancestors(n)' => n \in ledger \/ Subtree(id)' = Subtree(id)
<1>1. \A l \in ledger : Ancestors(l)' = Ancestors(l)
  BY Grows
<1>2. Subtree(id)' = {l \in ledger' : id \in Ancestors(l)'}
  BY DEF Subtree
<1>3. Subtree(id) = {l \in ledger : id \in Ancestors(l)}
  BY DEF Subtree
<1> QED BY <1>1, <1>2, <1>3

LEMMA AppliedInt ==
    ASSUME TypeOK, NEW t \in Line
    PROVE  /\ Subtree(t.id) \in SUBSET Line /\ IsFiniteSet(Subtree(t.id))
           /\ Folded(Subtree(t.id)) \in Int /\ AppliedTo(t) \in Int
<1>1. Subtree(t.id) \in SUBSET Line /\ IsFiniteSet(Subtree(t.id))
  BY FS_Subset DEF Subtree, TypeOK
<1>2. Folded(Subtree(t.id)) \in Int
  BY <1>1, FoldedInt
<1> QED BY <1>1, <1>2 DEF AppliedTo, Sign

LEMMA FoldStep ==
    ASSUME Inv, [Next]_vars
    PROVE  FoldStands'
<1> USE DEF Inv
<1> SUFFICES ASSUME NEW r \in Desk, req'[r].pc = "append", req'[r].kind # "reversal"
             PROVE  (AppliedTo(req[r].target) + req[r].amount <= req[r].target.amount)'
  BY DEF FoldStands
<1>0. PICK p, t : p = req'[r] /\ t = p.target
  OBVIOUS
<1>1. AppliedTo(t) + p.amount <= t.amount
  <2>1. CASE req'[r] = req[r]
    BY <1>0, <2>1 DEF FoldStands
  <2>2. CASE Start(r)
    BY <2>2, StartAlone
  <2>3. CASE LockForCap(r)
    BY <2>3, LockIs DEF DeskState
  <2>4. CASE Replay(r)
    BY <2>4, ReplayIs DEF DeskState
  <2>5. CASE Fold(r)
    <3>1. /\ req[r] \in DeskState /\ SameDesk(p, req[r])
          /\ ~(AppliedTo(req[r].target) + req[r].amount > req[r].target.amount)
      BY <1>0, <2>5, FoldIs, ActorKeeps DEF DeskState
    <3>2. ~(AppliedTo(t) + p.amount > t.amount)
      BY <1>0, <3>1 DEF SameDesk
    <3>3. t \in Line /\ t.amount \in Int /\ p.amount \in Int
      BY <1>0, <3>1, DeskMoves DEF SameDesk
    <3>4. AppliedTo(t) \in Int
      BY <3>3, AppliedInt
    <3> QED BY <3>2, <3>3, <3>4
  <2>6. CASE AppendLine(r)
    BY <2>6, AppendAlone, AppendIs DEF DeskState
  <2>7. CASE Office(r)
    BY <2>7, OfficeIs DEF Busy
  <2> QED BY <2>1, <2>2, <2>3, <2>4, <2>5, <2>6, <2>7, Movers DEF Acts, Alone
<1>2. Subtree(t.id)' = Subtree(t.id)
  <2>1. CASE ledger' = ledger
    BY <2>1 DEF Subtree, Ancestors, Parent, Row, Ids
  <2>2. ASSUME NEW d \in Desk, NEW n \in Line, n.id \notin Ids, ledger' = ledger \cup {n},
               \/ ChargeForInstallment(d) /\ Raised(req[d], n)
               \/ AppendLine(d) /\ Posted(req[d], n)
        PROVE  Subtree(t.id)' = Subtree(t.id)
    <3>1. t.id \notin Ancestors(n)'
      BY <1>0, <2>2, Strangers
    <3>2. n \notin ledger
      BY <2>2 DEF Ids
    <3> QED BY <2>2, <3>1, <3>2, SubtreeGrows
  <2> QED BY <2>1, <2>2, LedgerStep
<1>3. AppliedTo(t)' = AppliedTo(t)
  BY <1>2 DEF AppliedTo
<1>4. (AppliedTo(req[r].target))' = AppliedTo(t)'
  BY <1>0 DEF AppliedTo, Subtree, Ancestors, Parent, Row, Ids
<1> QED BY <1>0, <1>1, <1>3, <1>4

-----------------------------------------------------------------------------
(* The plan. *)

\* Once a student is assigned, the plan's list stands.
LEMMA PlanStands ==
    ASSUME Inv, [Next]_vars
    PROVE  /\ assigned => assigned' /\ IsPlan' /\ plan'.installments = plan.installments
           /\ assigned' => IsPlan' /\ plan'.assignment_count > 0
           /\ IsPlan' => plan'.installments \in Plans
<1> USE DEF Inv
<1>0. /\ plan \in [status : {"unborn", "there", "gone"},
                   installments : Plans \cup {<<>>}, assignment_count : Nat]
      /\ assigned \in BOOLEAN
      /\ assigned => IsPlan /\ plan.assignment_count > 0
      /\ IsPlan => plan.installments \in Plans
  BY DEF TypeOK, Frozen
<1>1. CASE UNCHANGED <<plan, assigned>>
  BY <1>0, <1>1 DEF IsPlan
<1>2. CASE PlanStep /\ UNCHANGED <<assigned, ledger, held, req>>
  <2>1. ~assigned
    <3>1. plan.status = "unborn" \/ plan.assignment_count = 0
      BY <1>2 DEF PlanStep, CreatePlan, UpdatePlan, DeletePlan, Editable
    <3> QED BY <1>0, <3>1 DEF IsPlan
  <2>2. \/ plan'.status = "gone"
        \/ plan'.installments \in Plans
    BY <1>0, <1>2 DEF PlanStep, CreatePlan, UpdatePlan, DeletePlan
  <2> QED BY <1>2, <2>1, <2>2 DEF IsPlan
<1>3. ASSUME NEW r \in Desk, Assign(r)
      PROVE  /\ assigned => assigned' /\ IsPlan' /\ plan'.installments = plan.installments
             /\ assigned' => IsPlan' /\ plan'.assignment_count > 0
             /\ IsPlan' => plan'.installments \in Plans
  <2>1. CASE ~IsPlan
    <3>1. UNCHANGED <<plan, assigned>>
      BY <1>3, <2>1 DEF Assign
    <3> QED BY <1>1, <3>1
  <2>2. CASE IsPlan /\ assigned
    <3>1. plan' = plan /\ assigned' = TRUE
      BY <1>3, <2>2 DEF Assign
    <3> QED BY <1>0, <2>2, <3>1 DEF IsPlan
  <2>3. CASE IsPlan /\ ~assigned
    <3>1. plan' = [plan EXCEPT !.assignment_count = plan.assignment_count + 1] /\ assigned' = TRUE
      BY <1>3, <2>3 DEF Assign
    <3>2. /\ plan'.status = plan.status /\ plan'.installments = plan.installments
          /\ plan'.assignment_count > 0
      BY <1>0, <3>1
    <3> QED BY <1>0, <2>3, <3>1, <3>2 DEF IsPlan
  <2> QED BY <2>1, <2>2, <2>3
<1>4. ASSUME NEW r \in Desk,
                 \/ Start(r) \/ LockForCap(r) \/ Replay(r) \/ Fold(r) \/ AppendLine(r)
                 \/ AssignBatch(r) \/ AssignReread(r) \/ ChargeForInstallment(r) \/ Drop(r)
      PROVE  UNCHANGED <<plan, assigned>>
  <2>1. Start(r) => UNCHANGED <<plan, assigned>>
    BY StartAlone
  <2> QED BY <1>4, <2>1 DEF LockForCap, Replay, Fold, AppendLine, AssignBatch, AssignReread,
                            ChargeForInstallment, Drop
<1> QED BY <1>1, <1>2, <1>3, <1>4, StepIs DEF vars

LEMMA FrozenStep ==
    ASSUME Inv, [Next]_vars
    PROVE  Frozen'
<1> USE DEF Inv
<1> DEFINE Charging(r) ==
             /\ req'[r].pc \in {"reread", "charge"} => assigned'
             /\ req'[r].pc = "charge" =>
                   /\ req'[r].list = plan'.installments
                   /\ req'[r].n \in 1 .. Len(req'[r].list)
<1>1. ASSUME NEW r \in Desk, req'[r] = req[r]
      PROVE  Charging(r)
  BY <1>1, PlanStands DEF Frozen
<1>2. ASSUME NEW r \in Desk, req'[r].pc \notin {"reread", "charge"}
      PROVE  Charging(r)
  BY <1>2
<1>3. ASSUME NEW r \in Desk, Assign(r)
      PROVE  Charging(r)
  <2>1. CASE Suspend(r, Idle)
    BY <1>2, <2>1, SuspendAlone DEF Idle
  <2>2. CASE Suspend(r, [pc |-> "reread"]) /\ assigned' = TRUE
    BY <2>2, SuspendAlone
  <2> QED BY <1>3, <2>1, <2>2 DEF Assign
<1>4. ASSUME NEW r \in Desk, AssignReread(r)
      PROVE  Charging(r)
  <2>1. PICK q : q = [pc |-> "charge", list |-> plan.installments, n |-> 1]
    OBVIOUS
  <2>2. Suspend(r, q) /\ req[r].pc = "reread" /\ UNCHANGED <<plan, assigned>>
    BY <1>4, <2>1 DEF AssignReread
  <2>3. assigned /\ plan.installments \in Plans
    BY <2>2 DEF Frozen
  <2>4. plan.installments \in Seq(Nat \ {0}) /\ plan.installments # <<>>
    BY <2>3, PaymentAssumption
  <2>5. 1 \in 1 .. Len(plan.installments)
    BY <2>4
  <2>6. req'[r] = q
    BY <2>2, SuspendAlone
  <2> QED BY <2>1, <2>2, <2>3, <2>5, <2>6
<1>5. ASSUME NEW r \in Desk, ChargeForInstallment(r)
      PROVE  Charging(r)
  <2>1. req[r] \in [pc : {"charge"}, list : Plans, n : Nat] /\ req[r].pc = "charge"
    BY <1>5, ChargeIs
  <2>2. assigned /\ req[r].list = plan.installments /\ req[r].n \in 1 .. Len(req[r].list)
    BY <2>1 DEF Frozen
  <2>3. PICK q : q = [req[r] EXCEPT !.n = req[r].n + 1]
    OBVIOUS
  <2>4. /\ UNCHANGED <<plan, assigned>>
        /\ \/ req[r].n < Len(req[r].list) /\ Suspend(r, q)
           \/ Suspend(r, Idle)
    BY <1>5, <2>3 DEF ChargeForInstallment
  <2>5. CASE Suspend(r, Idle)
    BY <1>2, <2>5, SuspendAlone DEF Idle
  <2>6. CASE req[r].n < Len(req[r].list) /\ Suspend(r, q)
    <3>1. req'[r] = q
      BY <2>6, SuspendAlone
    <3>2. q.list = req[r].list /\ q.n = req[r].n + 1
      BY <2>1, <2>3
    <3>3. Len(req[r].list) \in Nat
      BY <2>1, PaymentAssumption
    <3>4. q.n \in 1 .. Len(q.list)
      BY <2>1, <2>2, <2>6, <3>2, <3>3
    <3> QED BY <2>2, <2>4, <3>1, <3>2, <3>4
  <2> QED BY <2>4, <2>5, <2>6
<1>6. ASSUME NEW r \in Desk, Start(r) \/ LockForCap(r) \/ Replay(r) \/ Fold(r) \/ AppendLine(r)
                             \/ AssignBatch(r) \/ Drop(r)
      PROVE  req'[r].pc \notin {"reread", "charge"}
  <2>1. CASE Start(r)
    BY <2>1, StartAlone
  <2>2. CASE LockForCap(r)
    BY <2>2, LockIs DEF DeskState
  <2>3. CASE Replay(r)
    BY <2>3, ReplayIs DEF DeskState
  <2>4. CASE Fold(r)
    BY <2>4, FoldIs DEF DeskState
  <2>5. CASE AppendLine(r)
    BY <2>5, AppendAlone, AppendIs DEF DeskState
  <2>6. CASE AssignBatch(r)
    BY <2>6, SuspendAlone DEF AssignBatch
  <2>7. CASE Drop(r)
    BY <2>7, SuspendAlone DEF Drop, Idle
  <2> QED BY <1>6, <2>1, <2>2, <2>3, <2>4, <2>5, <2>6, <2>7
<1> HIDE DEF Charging
<1>7. ASSUME NEW d \in Desk
      PROVE  Charging(d)
  BY <1>1, <1>2, <1>3, <1>4, <1>5, <1>6, Movers DEF Acts, Office, Alone
<1>8. /\ assigned' => IsPlan' /\ plan'.assignment_count > 0
      /\ IsPlan' => plan'.installments \in Plans
  BY PlanStands
<1> QED BY <1>7, <1>8 DEF Frozen, Charging

LEMMA ChargesStep ==
    ASSUME Inv, [Next]_vars
    PROVE  ChargesFollowPlan'
<1> USE DEF Inv
<1> DEFINE Follows(l) ==
             /\ assigned /\ IsPlan
             /\ \E n \in DOMAIN plan.installments :
                   l.id = InstallmentId(n) /\ l.amount = plan.installments[n]
<1>1. ASSUME NEW l, Follows(l)
      PROVE  Follows(l)'
  <2>1. assigned' /\ IsPlan' /\ plan'.installments = plan.installments
    BY <1>1, PlanStands
  <2> QED BY <1>1, <2>1 DEF InstallmentId
<1>2. ASSUME NEW r \in Desk, NEW n, ChargeForInstallment(r), Raised(req[r], n)
      PROVE  Follows(n)
  <2>1. req[r].pc = "charge" /\ req[r].list \in Seq(Nat \ {0})
    BY <1>2, ChargeIs, PaymentAssumption
  <2>2. /\ assigned /\ IsPlan /\ req[r].list = plan.installments
        /\ req[r].n \in 1 .. Len(req[r].list)
    BY <2>1 DEF Frozen
  <2>3. req[r].n \in DOMAIN plan.installments
    BY <2>1, <2>2
  <2> QED BY <1>2, <2>2, <2>3 DEF Raised
<1>3. ASSUME NEW l \in ledger', l.kind = "charge"
      PROVE  Follows(l)
  <2>1. CASE l \in ledger
    BY <1>3, <2>1 DEF ChargesFollowPlan
  <2>2. CASE l \notin ledger
    <3>1. PICK r \in Desk, n \in Line :
                 /\ ledger' = ledger \cup {n}
                 /\ \/ ChargeForInstallment(r) /\ Raised(req[r], n)
                    \/ AppendLine(r) /\ Posted(req[r], n)
      BY <2>2, LedgerStep
    <3>2. l = n
      BY <2>2, <3>1
    <3>3. CASE ChargeForInstallment(r) /\ Raised(req[r], n)
      BY <1>2, <3>2, <3>3
    <3>4. CASE AppendLine(r) /\ Posted(req[r], n)
      <4>1. n.kind \in {"credit", "refund", "reversal"}
        BY <3>4, ActorKeeps, PostedIs
      <4> QED BY <1>3, <3>2, <4>1
    <3> QED BY <3>1, <3>3, <3>4
  <2> QED BY <2>1, <2>2
<1> HIDE DEF Follows
<1>4. \A l \in ledger' : l.kind = "charge" => Follows(l)'
  BY <1>1, <1>3
<1> QED BY <1>4 DEF ChargesFollowPlan, Follows

-----------------------------------------------------------------------------
(* The answers. *)

\* The line a request names.
Money(q, l) == l.id = q.id /\ l.amount = q.amount /\ l.source = q.target.id

\* A reversal that finds its id taken finds the reversal of its own target.
LEMMA ReversedAlready ==
    ASSUME TypeOK, Tree, NEW q \in DeskState, DeskOK(q), q.kind = "reversal", q.id \in Ids
    PROVE  \E l \in ledger : Money(q, l)
<1>1. PICK t \in ledger : t = q.target /\ q.id = ReversalId(t.id) /\ q.amount = t.amount
  BY DEF DeskOK
<1>2. PICK l \in ledger : l.id = q.id
  BY DEF Ids
<1>3. LineOK(l) /\ t.id \in Id
  BY LineFields DEF Tree
<1>4. ReversalId(t.id)[2] # <<>>
  BY <1>3, IdShapes DEF ReversalId, Tags
<1>5. l.kind # "charge"
  BY <1>1, <1>2, <1>3, <1>4 DEF LineOK
<1>6. PICK s \in ledger :
            /\ s.id = l.source
            /\ IF l.kind = "reversal"
               THEN l.id = ReversalId(s.id) /\ l.amount = s.amount
               ELSE \/ l.id[2] = <<>>
                    \/ \E key \in Keys : l.id = RequestId(s.id, l.kind, key)
  BY <1>3, <1>5 DEF LineOK
<1>7. s.id \in Id
  BY LineFields
<1>8. \A key \in Keys : RequestId(s.id, l.kind, key) # ReversalId(t.id)
  BY <1>3, <1>7, DeskIds
<1>9. l.id = ReversalId(s.id) /\ l.amount = s.amount
  BY <1>1, <1>2, <1>4, <1>6, <1>8
<1>10. s.id = t.id
  BY <1>1, <1>2, <1>3, <1>7, <1>9, IdShapes DEF ReversalId, Tags
<1>11. s = t
  BY <1>10 DEF Tree
<1> QED BY <1>1, <1>2, <1>6, <1>9, <1>11 DEF Money

LEMMA AnswersStep ==
    ASSUME Inv, [Next]_vars
    PROVE  KeyedAnswers'
<1> USE DEF Inv
<1>1. ASSUME NEW r \in Desk, req'[r].pc = "ok", req'[r].id # None
      PROVE  \E l \in ledger' : Money(req'[r], l)
  <2>1. CASE req'[r] = req[r]
    <3>1. \E l \in ledger : Money(req[r], l)
      BY <1>1, <2>1 DEF KeyedAnswers, Money
    <3> QED BY <2>1, <3>1, Grows
  <2>2. CASE Replay(r)
    <3>1. /\ req[r] \in DeskState /\ SameDesk(req'[r], req[r]) /\ req[r].id \in Ids
          /\ SameMoney(req[r], Row(req[r].id))
      BY <1>1, <2>2, ReplayIs, ActorKeeps DEF DeskState
    <3>2. PICK l \in ledger : l = Row(req[r].id) /\ l.id = req[r].id
      BY <3>1, RowIs
    <3>3. Money(req'[r], l) /\ l \in ledger'
      BY <3>1, <3>2, Grows DEF Money, SameMoney, SameDesk
    <3> QED BY <3>3
  <2>3. CASE AppendLine(r)
    <3>1. /\ req[r] \in DeskState /\ DeskOK(req[r]) /\ SameDesk(req'[r], req[r])
          /\ req[r].pc = "append"
      BY <2>3, AppendIs, ActorKeeps
    <3>2. PICK n \in Line : /\ Posted(req[r], n)
                            /\ \/ n.id \in Ids /\ ledger' = ledger
                               \/ n.id \notin Ids /\ ledger' = ledger \cup {n}
      BY <2>3, AppendIs
    <3>3. Money(req'[r], n) /\ n.id = req[r].id
      BY <1>1, <3>1, <3>2 DEF Posted, Money, SameDesk
    <3>4. CASE n.id \notin Ids
      BY <3>2, <3>3, <3>4
    <3>5. CASE n.id \in Ids
      <4>1. req[r].kind = "reversal"
        BY <1>1, <3>1, <3>3, <3>5 DEF Absent, SameDesk
      <4>2. PICK l \in ledger : Money(req[r], l)
        BY <3>1, <3>3, <3>5, <4>1, ReversedAlready
      <4>3. Money(req'[r], l) /\ l \in ledger'
        BY <3>1, <4>2, Grows DEF Money, SameDesk
      <4> QED BY <4>3
    <3> QED BY <3>4, <3>5
  <2>4. ~Start(r) /\ ~LockForCap(r) /\ ~Fold(r) /\ ~Office(r)
    <3>1. ~Start(r)
      BY <1>1, StartAlone
    <3>2. ~LockForCap(r)
      BY <1>1, LockIs DEF DeskState
    <3>3. ~Fold(r)
      BY <1>1, FoldIs DEF DeskState
    <3>4. ~Office(r)
      BY <1>1, OfficeIs DEF Busy
    <3> QED BY <3>1, <3>2, <3>3, <3>4
  <2> QED BY <2>1, <2>2, <2>3, <2>4, Movers DEF Acts, Alone
<1>2. ASSUME NEW r \in Desk, req'[r].pc = "fold", req'[r].id # None
      PROVE  ~\E l \in ledger' : Money(req'[r], l)
  <2>1. DeskOK(req'[r]) /\ req'[r].kind # "reversal"
    <3>1. req'[r].pc \in Busy
      BY <1>2 DEF Busy
    <3>2. WalkOK(req[r], held[r])'
      BY <3>1, WalksStep DEF WalksOK
    <3> QED BY <1>2, <3>1, <3>2, DesksNow DEF WalkOK
  <2>2. req'[r].id \notin Ids'
    BY <1>2, <2>1, AbsentStep DEF Absent
  <2> QED BY <2>2 DEF Money, Ids
<1> QED BY <1>1, <1>2 DEF KeyedAnswers, Money

-----------------------------------------------------------------------------
(* The fit. *)

\* What lands on a line takes its sum from what was left of it.
LEMMA LandsOn ==
    ASSUME TypeOK, NEW t \in Line, NEW l \in Line, l \notin Subtree(t.id), MayTarget(l.kind, t),
           l.kind \in {"credit", "refund"}, Subtree(t.id)' = Subtree(t.id) \cup {l}
    PROVE  AppliedTo(t)' = AppliedTo(t) + l.amount
<1> DEFINE S == Subtree(t.id)
<1>1. S \in SUBSET Line /\ IsFiniteSet(S) /\ Folded(S) \in Int
  BY AppliedInt
<1>2. AppliedTo(t) = -Sign(t.kind) * Folded(S) /\ AppliedTo(t)' = -Sign(t.kind) * Folded(S \cup {l})
  BY DEF AppliedTo
<1> HIDE DEF S
<1>3. Folded(S \cup {l}) = Folded(S) + Weight(l)
  BY <1>1, FoldedAdd DEF S
<1>4. l.amount \in Int
  BY DEF Line
<1>5. CASE l.kind = "credit"
  <2>1. Sign(t.kind) = -1 /\ Weight(l) = l.amount
    BY <1>4, <1>5 DEF MayTarget, Sign, Weight
  <2> QED BY <1>1, <1>2, <1>3, <1>4, <2>1
<1>6. CASE l.kind = "refund"
  <2>1. Sign(t.kind) = 1 /\ Weight(l) = -l.amount
    BY <1>4, <1>6 DEF MayTarget, Sign, Weight
  <2> QED BY <1>1, <1>2, <1>3, <1>4, <2>1
<1> QED BY <1>5, <1>6

LEMMA FitStep ==
    ASSUME Inv, [Next]_vars, NEW l \in ledger' \ ledger, l.kind \in {"credit", "refund"}
    PROVE  AppliedTo(Row(l.source))' <= Row(l.source).amount
<1> USE DEF Inv
<1>1. PICK r \in Desk : l \in Line /\ ledger' = ledger \cup {l} /\ AppendLine(r) /\ Posted(req[r], l)
  <2>1. PICK r \in Desk, n \in Line :
                 /\ ledger' = ledger \cup {n}
                 /\ \/ ChargeForInstallment(r) /\ Raised(req[r], n)
                    \/ AppendLine(r) /\ Posted(req[r], n)
    BY LedgerStep
  <2>2. l = n
    BY <2>1
  <2> QED BY <2>1, <2>2 DEF Raised
<1>2. PICK q, t : q = req[r] /\ t = q.target
  OBVIOUS
<1>3. q \in DeskState /\ DeskOK(q) /\ q.pc = "append"
  BY <1>1, <1>2, ActorKeeps, AppendIs
<1>4. /\ MayTarget(l.kind, t) /\ t \in ledger /\ t \in Line /\ l.source = t.id
      /\ l.kind = q.kind /\ l.amount = q.amount
  BY <1>1, <1>2, <1>3, PostedIs, LineFields DEF Posted
<1>5. AppliedTo(t) + l.amount <= t.amount
  BY <1>2, <1>3, <1>4 DEF FoldStands
<1>6. Row(t.id) = t /\ Row(t.id)' = t
  BY <1>4, RowIs, Grows
<1>7. t.id \in Ancestors(l)'
  <2>1. Ancestors(l)' = Chain(t.id)
    BY <1>1, <1>2, HangsUnder
  <2>2. t.id # None
    BY <1>4, LineFields
  <2> QED BY <2>1, <2>2 DEF Chain
<1>8. Subtree(t.id)' = Subtree(t.id) \cup {l} /\ l \notin Subtree(t.id)
  BY <1>1, <1>7, SubtreeGrows DEF Subtree
<1>9. AppliedTo(t)' = AppliedTo(t) + l.amount
  BY <1>1, <1>4, <1>8, LandsOn
<1>10. AppliedTo(Row(l.source))' = AppliedTo(t)'
  BY <1>4, <1>6 DEF AppliedTo, Subtree, Ancestors
<1> QED BY <1>4, <1>5, <1>6, <1>9, <1>10

-----------------------------------------------------------------------------
LEMMA InvInit == Init => Inv
<1> SUFFICES ASSUME Init PROVE Inv
  OBVIOUS
<1>1. TypeOK
  <2>1. IsFiniteSet({})
    BY FS_EmptySet
  <2>2. /\ plan \in [status : {"unborn", "there", "gone"},
                     installments : Plans \cup {<<>>}, assignment_count : Nat]
        /\ assigned \in BOOLEAN
    BY DEF Init
  <2>3. held \in [Desk -> SUBSET Id]
    BY DEF Init
  <2>4. req \in [Desk -> OfficeState \cup DeskState]
    BY IdleTyped DEF Init
  <2>5. ledger \subseteq Line /\ IsFiniteSet(ledger)
    BY <2>1 DEF Init
  <2> QED BY <2>2, <2>3, <2>4, <2>5 DEF TypeOK
<1>2. \A r \in Desk : req[r].pc = "idle" /\ held[r] = {}
  BY DEF Init, Idle
<1>3. Tree /\ ChargesFollowPlan
  BY DEF Init, Tree, ChargesFollowPlan
<1>4. DesksOK /\ WalksOK /\ Absent /\ FoldStands /\ KeyedAnswers /\ Exclusive
  BY <1>2 DEF DesksOK, WalksOK, Absent, FoldStands, KeyedAnswers, Exclusive, Busy
<1>5. Frozen
  BY <1>2 DEF Init, Frozen, IsPlan
<1> QED BY <1>1, <1>3, <1>4, <1>5 DEF Inv

LEMMA InvStep == Inv /\ [Next]_vars => Inv'
<1> SUFFICES ASSUME Inv, [Next]_vars PROVE Inv'
  OBVIOUS
<1> QED BY TypeStep, TreeStep, DesksStep, ExclusiveStep, WalksStep, AbsentStep, FoldStep,
           FrozenStep, ChargesStep, AnswersStep DEF Inv

\* The inductive invariant holds throughout.
THEOREM InvSafe == Spec => []Inv
  BY InvInit, InvStep, PTL DEF Spec

\* Every variable keeps its shape.
THEOREM TypeSafe == Spec => []TypeOK
<1>1. Inv => TypeOK
  BY DEF Inv
<1> QED BY <1>1, InvSafe, PTL

\* A student is charged what the plan says and nothing else, for any plans,
\* however edits and cut-off assignments interleave (assign, update, delete).
THEOREM ChargesSafe == Spec => []ChargesFollowPlan
<1>1. Inv => ChargesFollowPlan
  BY DEF Inv
<1> QED BY <1>1, InvSafe, PTL

\* An answered request's money is on the ledger as it named it, and money that
\* is there is never folded against again (against, reversal).
THEOREM AnswersSafe == Spec => []KeyedAnswers
<1>1. Inv => KeyedAnswers
  BY DEF Inv
<1> QED BY <1>1, InvSafe, PTL

\* The fold a payment or a refund was judged on is still the fold when its line
\* lands, whatever the other requests do in between (lock_for_cap, against).
THEOREM FoldSafe == Spec => []FoldStands
<1>1. Inv => FoldStands
  BY DEF Inv
<1> QED BY <1>1, InvSafe, PTL

\* No payment lands on a charge, and no refund on a payment, beyond what it is
\* worth, for any sums and any number of requests at the desk (against).
THEOREM FitSafe == Spec => PaymentsFit
<1>1. Inv /\ [Next]_vars =>
         [\A l \in ledger' \ ledger :
             l.kind \in {"credit", "refund"} =>
                 AppliedTo(Row(l.source))' <= Row(l.source).amount]_vars
  <2> SUFFICES ASSUME Inv, [Next]_vars, NEW l \in ledger' \ ledger,
                      l.kind \in {"credit", "refund"}
               PROVE  AppliedTo(Row(l.source))' <= Row(l.source).amount
    OBVIOUS
  <2> QED BY FitStep
<1> QED BY <1>1, InvSafe, PTL DEF Spec, PaymentsFit
=============================================================================
