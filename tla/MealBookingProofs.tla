-------------------------- MODULE MealBookingProofs --------------------------
(***************************************************************************)
(* What MealBooking's run checks on a small instance, for every number of  *)
(* students and requests, every cap, price and ceiling.                    *)
(*                                                                         *)
(* LedgerExact is not inductive alone: a replay charges off a row read two *)
(* steps before, a cancel refunds off one read up to four steps before.    *)
(* RequestOK says what such a row may still be relied on for.              *)
(***************************************************************************)
EXTENDS MealBooking, FiniteSetTheorems, TLAPS

\* A row of u's that was read earlier: its attempt is not ahead of the live
\* one, and was charged what the row says.
RowOK(u, row) ==
    /\ booking[u] # None
    /\ row.attempt <= booking[u].attempt
    /\ charge[u][row.attempt] = row.price_minor

\* What a suspended request may rely on.  A reversal is only ever appended for
\* an attempt that is over, and a student without a row books the first one.
RequestOK(r) ==
    /\ req[r].pc = "replay" => RowOK(req[r].user, req[r].held)
    /\ req[r].pc \in {"cutoff", "release", "lost", "reverse"}
          => RowOK(req[r].user, req[r].row)
    /\ req[r].pc = "reverse" =>
          ~(/\ Booked(req[r].user)
            /\ req[r].row.attempt = booking[req[r].user].attempt)
    /\ req[r].pc \in {"price", "held", "claim", "why"}
          => (booking[req[r].user] = None => req[r].attempt = 1)

MoneyInv == LedgerExact /\ \A r \in Requests : RequestOK(r)

-----------------------------------------------------------------------------
(* Types. *)

\* Where a request is suspended tells which locals it has.
LEMMA Shapes ==
    ASSUME TypeOK, NEW r \in Requests
    PROVE  /\ req[r].pc \in {"menu", "reread"} => req[r] \in RoundRequest
           /\ req[r].pc = "row" => req[r] \in RowRequest
           /\ req[r].pc = "replay" => req[r] \in ReplayRequest
           /\ req[r].pc = "price" => req[r] \in PriceRequest
           /\ req[r].pc \in {"held", "claim", "why"} => req[r] \in ClaimRequest
           /\ req[r].pc \in {"cutoff", "release", "lost", "reverse"}
                 => req[r] \in CancelRequest
  BY DEF TypeOK, Request, Idle, RoundRequest, RowRequest, ReplayRequest,
         PriceRequest, ClaimRequest, CancelRequest

\* A request that ends or moves to a state of its shape stays a request.
LEMMA SuspendTyped ==
    ASSUME TypeOK, NEW r \in Requests, NEW q \in Request, Suspend(r, q)
    PROVE  req' \in [Requests -> Request]
  BY DEF TypeOK, Suspend

\* A request that ends is idle.
LEMMA EndTyped ==
    ASSUME TypeOK, NEW r \in Requests, End(r)
    PROVE  req' \in [Requests -> Request]
  BY SuspendTyped DEF End, Request

\* Another round has a round left to spend.
LEMMA NextRoundTyped ==
    ASSUME TypeOK, NEW r \in Requests, NextRound(r),
           req[r].user \in Students, req[r].left \in 1 .. Tries
    PROVE  req' \in [Requests -> Request]
  <1>1. CASE req[r].left = 1
    BY <1>1, EndTyped DEF NextRound
  <1>2. CASE req[r].left # 1
    <2> DEFINE q == [pc |-> "menu", user |-> req[r].user,
                     left |-> req[r].left - 1]
    <2>1. q \in RoundRequest
      BY <1>2, MealAssumption DEF RoundRequest
    <2>2. q \in Request
      BY <2>1 DEF Request
    <2>3. Suspend(r, q)
      BY <1>2 DEF NextRound
    <2> QED BY <2>2, <2>3, SuspendTyped
  <1> QED BY <1>1, <1>2

\* An append keeps the shape of the ledger.
LEMMA AppendTyped ==
    ASSUME NEW lines \in [Students -> [Attempts -> Prices \cup {None}]],
           NEW u \in Students, NEW n \in Attempts,
           NEW amount \in Prices \cup {None}
    PROVE  AppendLine(lines, u, n, amount)
              \in [Students -> [Attempts -> Prices \cup {None}]]
  BY DEF AppendLine

\* Every step of a booking keeps the types.
LEMMA BookStepTyped ==
    ASSUME TypeOK, NEW r \in Requests, BookStep(r)
    PROVE  TypeOK'
  <1> USE Shapes
  <1>1. ASSUME NEW u \in Students, Book(r, u) PROVE TypeOK'
    <2> DEFINE q == [pc |-> "menu", user |-> u, left |-> Tries]
    <2>1. q \in RoundRequest
      BY MealAssumption DEF RoundRequest
    <2>2. q \in Request
      BY <2>1 DEF Request
    <2>3. req' \in [Requests -> Request]
      BY <1>1, <2>2, SuspendTyped DEF Book
    <2> QED BY <1>1, <2>3 DEF TypeOK, Book, ledger
  <1>2. ASSUME NEW inTime \in BOOLEAN, BookMenu(r, inTime) PROVE TypeOK'
    <2>1. CASE menu # None /\ inTime
      <3> DEFINE q == [pc |-> "row", user |-> req[r].user,
                       left |-> req[r].left, capacity |-> menu.capacity,
                       version |-> menu.version, era |-> menu.era]
      <3>1. q \in RowRequest
        BY <1>2, <2>1 DEF TypeOK, BookMenu, RowRequest, RoundRequest, MenuRow
      <3>2. q \in Request
        BY <3>1 DEF Request
      <3>3. req' \in [Requests -> Request]
        BY <1>2, <2>1, <3>2, SuspendTyped DEF BookMenu
      <3> QED BY <1>2, <3>3 DEF TypeOK, BookMenu, ledger
    <2>2. CASE ~(menu # None /\ inTime)
      <3>1. req' \in [Requests -> Request]
        BY <1>2, <2>2, EndTyped DEF BookMenu
      <3> QED BY <1>2, <3>1 DEF TypeOK, BookMenu, ledger
    <2> QED BY <2>1, <2>2
  <1>3. ASSUME BookRow(r) PROVE TypeOK'
    <2> DEFINE u == req[r].user
    <2>0. req[r] \in RowRequest /\ u \in Students
      BY <1>3 DEF BookRow, RowRequest
    <2>1. CASE Booked(u)
      <3> DEFINE q == [pc |-> "replay", user |-> u, left |-> req[r].left,
                       held |-> booking[u]]
      <3>1. q \in ReplayRequest
        BY <2>0, <2>1 DEF TypeOK, ReplayRequest, RowRequest, Booked
      <3>2. q \in Request
        BY <3>1 DEF Request
      <3>3. req' \in [Requests -> Request]
        BY <1>3, <2>1, <3>2, SuspendTyped DEF BookRow
      <3> QED BY <1>3, <3>3 DEF TypeOK, BookRow, ledger
    <2>2. CASE ~Booked(u) /\ NextAttempt(u) > MaxAttempts
      <3>1. req' \in [Requests -> Request]
        BY <1>3, <2>2, EndTyped DEF BookRow
      <3> QED BY <1>3, <3>1 DEF TypeOK, BookRow, ledger
    <2>3. CASE ~Booked(u) /\ ~(NextAttempt(u) > MaxAttempts)
      <3> DEFINE q == [pc |-> "price", user |-> u, left |-> req[r].left,
                       capacity |-> req[r].capacity,
                       version |-> req[r].version, era |-> req[r].era,
                       attempt |-> NextAttempt(u)]
      <3>0. NextAttempt(u) \in Attempts
        BY <2>0, <2>3, MealAssumption
           DEF TypeOK, NextAttempt, Attempts, BookingRow
      <3>1. q \in PriceRequest
        BY <2>0, <3>0 DEF PriceRequest, RowRequest
      <3>2. q \in Request
        BY <3>1 DEF Request
      <3>3. req' \in [Requests -> Request]
        BY <1>3, <2>3, <3>2, SuspendTyped DEF BookRow
      <3> QED BY <1>3, <3>3 DEF TypeOK, BookRow, ledger
    <2> QED BY <2>1, <2>2, <2>3
  <1>4. ASSUME Replay(r) PROVE TypeOK'
    <2> DEFINE q == [pc |-> "reread", user |-> req[r].user,
                     left |-> req[r].left]
    <2>0. req[r] \in ReplayRequest
      BY <1>4 DEF Replay
    <2>1. q \in RoundRequest
      BY <2>0 DEF RoundRequest, ReplayRequest
    <2>2. q \in Request
      BY <2>1 DEF Request
    <2>3. req' \in [Requests -> Request]
      BY <1>4, <2>2, SuspendTyped DEF Replay
    <2>4. charge' \in [Students -> [Attempts -> Prices \cup {None}]]
      BY <1>4, <2>0, AppendTyped DEF TypeOK, Replay, ReplayRequest, BookingRow
    <2> QED BY <1>4, <2>3, <2>4 DEF TypeOK, Replay
  <1>5. ASSUME Reread(r) PROVE TypeOK'
    <2>1. req' \in [Requests -> Request]
      BY <1>5, EndTyped, NextRoundTyped DEF Reread, RoundRequest
    <2> QED BY <1>5, <2>1 DEF TypeOK, Reread, ledger
  <1>6. ASSUME BookPrice(r) PROVE TypeOK'
    <2> DEFINE q == [pc |-> "held", user |-> req[r].user,
                     left |-> req[r].left, capacity |-> req[r].capacity,
                     version |-> req[r].version, era |-> req[r].era,
                     attempt |-> req[r].attempt, price |-> PriceSnapshot]
    <2>0. PriceSnapshot \in Prices \cup {None}
      BY DEF TypeOK, PriceSnapshot, MenuRow
    <2>1. q \in ClaimRequest
      BY <1>6, <2>0 DEF BookPrice, PriceRequest, ClaimRequest
    <2>2. q \in Request
      BY <2>1 DEF Request
    <2>3. req' \in [Requests -> Request]
      BY <1>6, <2>2, SuspendTyped DEF BookPrice
    <2> QED BY <1>6, <2>3 DEF TypeOK, BookPrice, ledger
  <1>7. ASSUME ClaimHeld(r) PROVE TypeOK'
    <2>0. req[r] \in ClaimRequest
      BY <1>7 DEF ClaimHeld
    <2>1. [req[r] EXCEPT !.pc = "claim"] \in ClaimRequest
      BY <2>0 DEF ClaimRequest
    <2>2. [req[r] EXCEPT !.pc = "claim"] \in Request
      BY <2>1 DEF Request
    <2>3. req' \in [Requests -> Request]
      BY <1>7, <2>0, <2>2, SuspendTyped, NextRoundTyped
         DEF ClaimHeld, ClaimRequest
    <2> QED BY <1>7, <2>3 DEF TypeOK, ClaimHeld, ledger
  <1>8. ASSUME ClaimMade(r) PROVE TypeOK'
    <2>0. req[r] \in ClaimRequest
      BY <1>8 DEF ClaimMade
    <2>1. req' \in [Requests -> Request]
      BY <1>8, EndTyped DEF ClaimMade
    <2>2. menu' \in MenuRow
      <3>1. menu \in MenuRow
        BY <1>8 DEF TypeOK, ClaimMade, SeatFree
      <3>2. menu' = [menu EXCEPT !.seats_booked = @ + 1]
        BY <1>8 DEF ClaimMade
      <3> QED BY <3>1, <3>2 DEF MenuRow
    <2> DEFINE row == [status |-> "booked", attempt |-> req[r].attempt,
                       price_minor |-> req[r].price]
    <2>a. row \in BookingRow
      BY <2>0 DEF ClaimRequest, BookingRow
    <2>b. booking' = [booking EXCEPT ![req[r].user] = row]
      BY <1>8 DEF ClaimMade
    <2>3. booking' \in [Students -> BookingRow \cup {None}]
      BY <2>a, <2>b DEF TypeOK
    <2>4. charge' \in [Students -> [Attempts -> Prices \cup {None}]]
      BY <1>8, <2>0, AppendTyped DEF TypeOK, ClaimMade, ClaimRequest
    <2> QED BY <1>8, <2>1, <2>2, <2>3, <2>4 DEF TypeOK, ClaimMade
  <1>9. ASSUME ClaimDuplicate(r) PROVE TypeOK'
    <2>1. req' \in [Requests -> Request]
      BY <1>9, NextRoundTyped DEF ClaimDuplicate, ClaimRequest
    <2>2. menu' \in MenuRow
      BY <1>9 DEF TypeOK, ClaimDuplicate, SeatFree, MenuRow
    <2> QED BY <1>9, <2>1, <2>2 DEF TypeOK, ClaimDuplicate, ledger
  <1>10. ASSUME ClaimFull(r) PROVE TypeOK'
    <2>0. req[r] \in ClaimRequest
      BY <1>10 DEF ClaimFull
    <2>1. [req[r] EXCEPT !.pc = "why"] \in ClaimRequest
      BY <2>0 DEF ClaimRequest
    <2>2. [req[r] EXCEPT !.pc = "why"] \in Request
      BY <2>1 DEF Request
    <2>3. req' \in [Requests -> Request]
      BY <1>10, <2>0, <2>2, SuspendTyped, NextRoundTyped
         DEF ClaimFull, ClaimRequest
    <2> QED BY <1>10, <2>3 DEF TypeOK, ClaimFull, ledger
  <1>11. ASSUME BookWhy(r) PROVE TypeOK'
    <2>1. req' \in [Requests -> Request]
      BY <1>11, EndTyped, NextRoundTyped DEF BookWhy, ClaimRequest
    <2> QED BY <1>11, <2>1 DEF TypeOK, BookWhy, ledger
  <1> QED BY <1>1, <1>2, <1>3, <1>4, <1>5, <1>6, <1>7, <1>8, <1>9, <1>10,
             <1>11 DEF BookStep

\* So does a refund.
LEMMA RefundTyped ==
    ASSUME TypeOK, NEW q \in CancelRequest
    PROVE  Refund(q) \in [Students -> [Attempts -> Prices \cup {None}]]
  BY AppendTyped DEF TypeOK, Refund, CancelRequest, BookingRow

\* Every step of a cancellation keeps the types; that the row it read is still
\* there is what RequestOK says.
LEMMA CancelStepTyped ==
    ASSUME TypeOK, NEW r \in Requests, RequestOK(r), CancelStep(r)
    PROVE  TypeOK'
  <1> USE Shapes
  <1>1. ASSUME NEW u \in Students, CancelRead(r, u) PROVE TypeOK'
    <2> DEFINE q == [pc |-> IF Booked(u) THEN "cutoff" ELSE "reverse",
                     user |-> u, row |-> booking[u]]
    <2>1. q \in CancelRequest
      BY <1>1 DEF TypeOK, CancelRead, CancelRequest
    <2>2. q \in Request
      BY <2>1 DEF Request
    <2>3. req' \in [Requests -> Request]
      BY <1>1, <2>2, SuspendTyped DEF CancelRead
    <2> QED BY <1>1, <2>3 DEF TypeOK, CancelRead, ledger
  <1>2. ASSUME NEW inTime \in BOOLEAN, CancelCutoff(r, inTime) PROVE TypeOK'
    <2>1. [req[r] EXCEPT !.pc = "release"] \in CancelRequest
      BY <1>2 DEF CancelCutoff, CancelRequest
    <2>2. [req[r] EXCEPT !.pc = "release"] \in Request
      BY <2>1 DEF Request
    <2>3. req' \in [Requests -> Request]
      BY <1>2, <2>2, SuspendTyped, EndTyped DEF CancelCutoff
    <2> QED BY <1>2, <2>3 DEF TypeOK, CancelCutoff, ledger
  <1>3. ASSUME Release(r) PROVE TypeOK'
    <2> DEFINE u == req[r].user
    <2>0. req[r] \in CancelRequest /\ u \in Students
      BY <1>3 DEF Release, CancelRequest
    <2>1. CASE Flips(req[r])
      <3> DEFINE row == [booking[u] EXCEPT !.status = "cancelled"]
      <3>a. row \in BookingRow
        BY <2>0, <2>1 DEF TypeOK, Flips, Booked, BookingRow
      <3>b. booking' = [booking EXCEPT ![u] = row]
        BY <1>3, <2>1 DEF Release
      <3>1. booking' \in [Students -> BookingRow \cup {None}]
        BY <3>a, <3>b DEF TypeOK
      <3>2. booking'[u] \in BookingRow
        BY <2>0, <3>a, <3>b DEF TypeOK
      <3>3. [req[r] EXCEPT !.pc = "reverse", !.row = booking'[u]]
               \in CancelRequest
        BY <2>0, <3>2 DEF CancelRequest
      <3>4. [req[r] EXCEPT !.pc = "reverse", !.row = booking'[u]] \in Request
        BY <3>3 DEF Request
      <3>5. req' \in [Requests -> Request]
        BY <1>3, <2>1, <3>4, SuspendTyped DEF Release
      <3>6. menu' \in MenuRow \cup {None}
        <4>1. CASE menu = None
          BY <1>3, <2>1, <4>1 DEF Release
        <4>2. CASE menu # None
          <5>1. menu \in MenuRow
            BY <4>2 DEF TypeOK
          <5>2. menu' = [menu EXCEPT !.seats_booked = GiveBack(@)]
            BY <1>3, <2>1, <4>2 DEF Release
          <5> QED BY <5>1, <5>2 DEF MenuRow, GiveBack
        <4> QED BY <4>1, <4>2
      <3>7. reversal' \in [Students -> [Attempts -> Prices \cup {None}]]
        <4>1. reversal' = Refund(req[r])
          BY <1>3, <2>1 DEF Release
        <4> QED BY <2>0, <4>1, RefundTyped
      <3> QED BY <1>3, <3>1, <3>5, <3>6, <3>7 DEF TypeOK, Release
    <2>2. CASE ~Flips(req[r])
      <3>1. [req[r] EXCEPT !.pc = "lost"] \in CancelRequest
        BY <2>0 DEF CancelRequest
      <3>2. [req[r] EXCEPT !.pc = "lost"] \in Request
        BY <3>1 DEF Request
      <3>3. req' \in [Requests -> Request]
        BY <1>3, <2>2, <3>2, SuspendTyped DEF Release
      <3> QED BY <1>3, <2>2, <3>3 DEF TypeOK, Release
    <2> QED BY <2>1, <2>2
  <1>4. ASSUME CancelLost(r) PROVE TypeOK'
    <2> DEFINE u == req[r].user
               q == [req[r] EXCEPT !.pc = "reverse", !.row = booking[u]]
    <2>0. req[r] \in CancelRequest /\ u \in Students
      BY <1>4 DEF CancelLost, CancelRequest
    <2>1. booking[u] \in BookingRow
      BY <1>4, <2>0 DEF TypeOK, CancelLost, RequestOK, RowOK
    <2>2. q \in CancelRequest
      BY <2>0, <2>1 DEF CancelRequest
    <2>3. q \in Request
      BY <2>2 DEF Request
    <2>4. Suspend(r, q) \/ End(r)
      BY <1>4 DEF CancelLost
    <2>5. req' \in [Requests -> Request]
      BY <2>3, <2>4, SuspendTyped, EndTyped
    <2> QED BY <1>4, <2>5 DEF TypeOK, CancelLost, ledger
  <1>5. ASSUME CancelReverse(r) PROVE TypeOK'
    <2>1. req' \in [Requests -> Request]
      BY <1>5, EndTyped DEF CancelReverse
    <2>2. reversal' \in [Students -> [Attempts -> Prices \cup {None}]]
      BY <1>5, RefundTyped DEF CancelReverse
    <2> QED BY <1>5, <2>1, <2>2 DEF TypeOK, CancelReverse
  <1> QED BY <1>1, <1>2, <1>3, <1>4, <1>5 DEF CancelStep

\* Every write of the kitchen keeps the types.
LEMMA KitchenStepTyped ==
    ASSUME TypeOK, KitchenStep
    PROVE  TypeOK'
  <1>1. ASSUME NEW c \in Capacities, SetCapacity(c) PROVE TypeOK'
    <2>1. menu' \in MenuRow
      <3>1. menu \in MenuRow
        BY <1>1 DEF TypeOK, SetCapacity
      <3>2. menu' = [capacity |-> c, seats_booked |-> menu.seats_booked,
                     version |-> menu.version + 1, price |-> menu.price,
                     era |-> menu.era]
        BY <1>1, <3>1 DEF SetCapacity, MenuRow
      <3> QED BY <3>1, <3>2 DEF MenuRow
    <2> QED BY <1>1, <2>1 DEF TypeOK, SetCapacity, ledger
  <1>2. ASSUME NEW c \in Capacities, PublishMenu(c) PROVE TypeOK'
    <2>1. published' \in 0 .. MaxPublished
      BY <1>2, MealAssumption DEF TypeOK, PublishMenu
    <2>2. menu' \in MenuRow
      BY <1>2, <2>1, MealAssumption DEF PublishMenu, MenuRow
    <2> QED BY <1>2, <2>1, <2>2 DEF TypeOK, PublishMenu, ledger
  <1>3. ASSUME NEW p \in Prices, SetDishes(p) PROVE TypeOK'
    <2>1. menu' \in MenuRow
      <3>1. menu \in MenuRow
        BY <1>3 DEF TypeOK, SetDishes
      <3>2. menu' = [capacity |-> menu.capacity,
                     seats_booked |-> menu.seats_booked,
                     version |-> menu.version + 1, price |-> p,
                     era |-> menu.era]
        BY <1>3, <3>1 DEF SetDishes, MenuRow
      <3> QED BY <3>1, <3>2 DEF MenuRow
    <2> QED BY <1>3, <2>1 DEF TypeOK, SetDishes, ledger
  <1>4. ASSUME DeleteMenu PROVE TypeOK'
    BY <1>4 DEF TypeOK, DeleteMenu, ledger
  <1> QED BY <1>1, <1>2, <1>3, <1>4 DEF KitchenStep

\* Every step keeps the types.
LEMMA TypeStep ==
    ASSUME TypeOK, MoneyInv, [Next]_vars
    PROVE  TypeOK'
  <1>1. ASSUME NEW r \in Requests, Drop(r) PROVE TypeOK'
    <2>1. req' \in [Requests -> Request]
      BY <1>1, EndTyped DEF Drop
    <2> QED BY <1>1, <2>1 DEF TypeOK, Drop, ledger
  <1>2. CASE UNCHANGED vars
    BY <1>2 DEF TypeOK, vars, ledger
  <1> QED BY <1>1, <1>2, BookStepTyped, CancelStepTyped, KitchenStepTyped
          DEF Next, MoneyInv

-----------------------------------------------------------------------------
(* Money. *)

\* Rows only move on: no attempt goes back or comes back to "booked", and what
\* an attempt up to the live one was charged stands.
Onward ==
    \A u \in Students : booking[u] # None =>
        /\ booking'[u] # None
        /\ booking[u].attempt <= booking'[u].attempt
        /\ \A n \in Attempts : n <= booking[u].attempt =>
              /\ charge'[u][n] = charge[u][n]
              /\ Booked(u)' /\ n = booking'[u].attempt
                    => Booked(u) /\ n = booking[u].attempt

\* What a request that is not acting relies on survives every such step.
LEMMA RequestKept ==
    ASSUME TypeOK, TypeOK', Onward, NEW r \in Requests, RequestOK(r),
           req'[r] = req[r]
    PROVE  RequestOK(r)'
  <1> USE Shapes DEF RequestOK, RowOK, Attempts
  <1>1. CASE req[r].pc = "replay"
    <2>1. /\ req[r].user \in Students /\ req[r].held.attempt \in Attempts
      BY <1>1 DEF ReplayRequest, BookingRow
    <2>2. booking[req[r].user].attempt \in Int
      BY <1>1, <2>1 DEF TypeOK, BookingRow
    <2>3. booking'[req[r].user].attempt \in Int
      BY <1>1, <2>1 DEF TypeOK, BookingRow, Onward
    <2> QED BY <1>1, <2>1, <2>2, <2>3 DEF Onward
  <1>2. CASE req[r].pc \in {"cutoff", "release", "lost", "reverse"}
    <2>1. /\ req[r].user \in Students /\ req[r].row.attempt \in Attempts
      BY <1>2 DEF CancelRequest, BookingRow
    <2>2. booking[req[r].user].attempt \in Int
      BY <1>2, <2>1 DEF TypeOK, BookingRow
    <2>3. booking'[req[r].user].attempt \in Int
      BY <1>2, <2>1 DEF TypeOK, BookingRow, Onward
    <2> QED BY <1>2, <2>1, <2>2, <2>3 DEF Onward
  <1>3. CASE req[r].pc \in {"price", "held", "claim", "why"}
    <2>1. req[r].user \in Students
      BY <1>3 DEF PriceRequest, ClaimRequest
    <2> QED BY <1>3, <2>1 DEF Onward
  <1> QED BY <1>1, <1>2, <1>3

\* A step that leaves bookings and ledger alone.
LEMMA StillOnward ==
    ASSUME TypeOK, UNCHANGED <<booking, charge>>
    PROVE  Onward
  BY DEF TypeOK, Onward, Booked, BookingRow, Attempts

\* Nor does such a step unsettle the ledger.
LEMMA StillExact ==
    ASSUME LedgerExact, UNCHANGED <<booking, charge, reversal>>
    PROVE  LedgerExact'
  BY DEF LedgerExact, Booked

\* A step of r: its own record is the only one that changes.
LEMMA OthersKept ==
    ASSUME TypeOK, TypeOK', MoneyInv, Onward, NEW r \in Requests,
           NEW q, Suspend(r, q), RequestOK(r)'
    PROVE  \A p \in Requests : RequestOK(p)'
  <1> TAKE p \in Requests
  <1>1. CASE p = r
    BY <1>1
  <1>2. CASE p # r
    BY <1>2, RequestKept DEF TypeOK, Suspend, MoneyInv
  <1> QED BY <1>1, <1>2

\* A request that moves to where it holds no row relies on nothing.
LEMMA NothingHeld ==
    ASSUME TypeOK, TypeOK', MoneyInv, Onward, NEW r \in Requests,
           NEW q, Suspend(r, q),
           q.pc \in {"idle", "menu", "row", "reread"}
    PROVE  \A p \in Requests : RequestOK(p)'
  <1>1. req'[r] = q
    BY DEF TypeOK, Suspend
  <1>2. RequestOK(r)'
    BY <1>1 DEF RequestOK
  <1> QED BY <1>2, OthersKept

\* A request that ends relies on nothing.
LEMMA EndHolds ==
    ASSUME TypeOK, TypeOK', MoneyInv, Onward, NEW r \in Requests, End(r)
    PROVE  \A p \in Requests : RequestOK(p)'
  BY NothingHeld DEF End, Idle

\* A request that goes another round relies on nothing.
LEMMA NextRoundHolds ==
    ASSUME TypeOK, TypeOK', MoneyInv, Onward, NEW r \in Requests,
           NextRound(r)
    PROVE  \A p \in Requests : RequestOK(p)'
  <1>1. CASE req[r].left = 1
    BY <1>1, EndHolds DEF NextRound
  <1>2. CASE req[r].left # 1
    <2> DEFINE q == [pc |-> "menu", user |-> req[r].user,
                     left |-> req[r].left - 1]
    <2>1. Suspend(r, q) /\ q.pc = "menu"
      BY <1>2 DEF NextRound
    <2> HIDE DEF q
    <2> QED BY <2>1, NothingHeld
  <1> QED BY <1>1, <1>2

\* A held seat's replay finds its charge on the ledger.
LEMMA ReplayAppendsNothing ==
    ASSUME TypeOK, NEW r \in Requests, RequestOK(r), Replay(r)
    PROVE  charge' = charge
  BY DEF Replay, RequestOK, RowOK, AppendLine

\* A refund replayed for an attempt that is over finds it made.
LEMMA LateRefundAppendsNothing ==
    ASSUME TypeOK, LedgerExact, NEW r \in Requests, RequestOK(r),
           CancelReverse(r)
    PROVE  reversal' = reversal
  <1> DEFINE u == req[r].user
             a == req[r].row.attempt
  <1>1. u \in Students /\ a \in Attempts
    BY Shapes DEF CancelReverse, CancelRequest, BookingRow
  <1>2. /\ booking[u] # None /\ a <= booking[u].attempt
        /\ charge[u][a] = req[r].row.price_minor
        /\ ~(Booked(u) /\ a = booking[u].attempt)
    BY DEF CancelReverse, RequestOK, RowOK
  <1>3. reversal[u][a] = charge[u][a]
    BY <1>1, <1>2 DEF LedgerExact
  <1> QED BY <1>2, <1>3 DEF CancelReverse, Refund, AppendLine

\* The claim charges the attempt after the last, once.
LEMMA ClaimMadeExact ==
    ASSUME TypeOK, MoneyInv, NEW r \in Requests, ClaimMade(r)
    PROVE  LedgerExact' /\ Onward
  <1> DEFINE u == req[r].user
             a == req[r].attempt
             price == req[r].price
             last == IF booking[u] = None THEN 0 ELSE booking[u].attempt
             row == [status |-> "booked", attempt |-> a, price_minor |-> price]
  <1>1. /\ u \in Students /\ a \in Attempts /\ price \in Prices \cup {None}
    BY Shapes DEF ClaimMade, ClaimRequest
  <1>2. last \in 0 .. MaxAttempts /\ a = last + 1 /\ ~Booked(u)
    <2>1. CASE booking[u] = None
      BY <1>1, <2>1, MealAssumption
         DEF ClaimMade, MoneyInv, RequestOK, Booked, Attempts
    <2>2. CASE booking[u] # None
      BY <1>1, <2>2 DEF TypeOK, ClaimMade, Placeable, Booked, Attempts,
                        BookingRow
    <2> QED BY <2>1, <2>2
  <1>3. booking' = [booking EXCEPT ![u] = row]
    BY DEF ClaimMade
  <1>4. row \in BookingRow /\ row # None /\ row.attempt = a
        /\ row.price_minor = price /\ row.status = "booked"
    BY <1>1, NoneAssumption DEF BookingRow
  <1>5. booking'[u] = row
    BY <1>1, <1>3 DEF TypeOK
  <1>6. \A v \in Students : v # u => booking'[v] = booking[v]
    BY <1>1, <1>3 DEF TypeOK
  <1> HIDE DEF row
  <1>7. charge[u][a] = None
    BY <1>1, <1>2 DEF MoneyInv, LedgerExact, Attempts
  <1>8. /\ charge'[u][a] = price
        /\ \A v \in Students, n \in Attempts :
              v # u \/ n # a => charge'[v][n] = charge[v][n]
    BY <1>1, <1>7 DEF TypeOK, ClaimMade, AppendLine
  <1>9. reversal' = reversal
    BY DEF ClaimMade
  <1>10. LedgerExact'
    <2> SUFFICES ASSUME NEW v \in Students, NEW n \in Attempts
        PROVE  LET now == IF booking'[v] = None THEN 0
                          ELSE booking'[v].attempt
               IN /\ n = now => charge'[v][n] = booking'[v].price_minor
                  /\ n > now => charge'[v][n] = None
                  /\ reversal'[v][n] =
                       IF n = now /\ Booked(v)' THEN None ELSE charge'[v][n]
      BY DEF LedgerExact
    <2>0. LET was == IF booking[v] = None THEN 0 ELSE booking[v].attempt
          IN /\ n = was => charge[v][n] = booking[v].price_minor
             /\ n > was => charge[v][n] = None
             /\ reversal[v][n] =
                  IF n = was /\ Booked(v) THEN None ELSE charge[v][n]
      BY DEF MoneyInv, LedgerExact
    <2>1. CASE v # u
      BY <2>0, <2>1, <1>6, <1>8, <1>9 DEF Booked
    <2>2. CASE v = u
      <3>1. Booked(v)'
        BY <2>2, <1>4, <1>5 DEF Booked
      <3>2. /\ n > last => charge[v][n] = None
            /\ reversal[v][n] = charge[v][n]
        BY <2>0, <2>2, <1>2
      <3>3. CASE n = a
        BY <3>1, <3>2, <3>3, <2>2, <1>2, <1>4, <1>5, <1>8, <1>9 DEF Attempts
      <3>4. CASE n # a
        BY <3>1, <3>2, <3>4, <2>2, <1>2, <1>4, <1>5, <1>8, <1>9 DEF Attempts
      <3> QED BY <3>3, <3>4
    <2> QED BY <2>1, <2>2
  <1>11. Onward
    <2> SUFFICES ASSUME NEW v \in Students, booking[v] # None
        PROVE  /\ booking'[v] # None
               /\ booking[v].attempt <= booking'[v].attempt
               /\ \A n \in Attempts : n <= booking[v].attempt =>
                     /\ charge'[v][n] = charge[v][n]
                     /\ Booked(v)' /\ n = booking'[v].attempt
                           => Booked(v) /\ n = booking[v].attempt
      BY DEF Onward
    <2>1. booking[v].attempt \in Attempts
      BY DEF TypeOK, BookingRow
    <2>2. CASE v # u
      BY <2>1, <2>2, <1>6, <1>8 DEF Booked, Attempts
    <2>3. CASE v = u
      BY <2>1, <2>3, <1>2, <1>4, <1>5, <1>8 DEF Attempts
    <2> QED BY <2>2, <2>3
  <1> QED BY <1>10, <1>11

\* The flip and the refund leave the attempt cancelled and settled.
LEMMA ReleaseExact ==
    ASSUME TypeOK, MoneyInv, NEW r \in Requests, Release(r), Flips(req[r])
    PROVE  /\ LedgerExact' /\ Onward
           /\ booking'[req[r].user] =
                [booking[req[r].user] EXCEPT !.status = "cancelled"]
  <1> DEFINE u == req[r].user
             a == req[r].row.attempt
             row == [booking[u] EXCEPT !.status = "cancelled"]
  <1>1. req[r] \in CancelRequest /\ u \in Students /\ a \in Attempts
    BY Shapes DEF Release, CancelRequest, BookingRow
  <1>2. /\ booking[u] \in BookingRow /\ booking[u] # None /\ Booked(u)
        /\ booking[u].attempt = a
        /\ charge[u][a] = req[r].row.price_minor
    BY <1>1 DEF TypeOK, MoneyInv, RequestOK, RowOK, Release, Flips, Booked
  <1>3. booking' = [booking EXCEPT ![u] = row]
    BY DEF Release
  <1>4. row \in BookingRow /\ row # None /\ row.attempt = a
        /\ row.price_minor = booking[u].price_minor
        /\ row.status = "cancelled"
    BY <1>2, NoneAssumption DEF BookingRow
  <1>5. booking'[u] = row
    BY <1>1, <1>3 DEF TypeOK
  <1>6. \A v \in Students : v # u => booking'[v] = booking[v]
    BY <1>1, <1>3 DEF TypeOK
  <1> HIDE DEF row
  <1>7. reversal[u][a] = None
    BY <1>1, <1>2 DEF MoneyInv, LedgerExact
  <1>8. /\ reversal'[u][a] = charge[u][a]
        /\ \A v \in Students, n \in Attempts :
              v # u \/ n # a => reversal'[v][n] = reversal[v][n]
    <2>1. reversal' = Refund(req[r])
      BY DEF Release
    <2> QED BY <2>1, <1>1, <1>2, <1>7 DEF TypeOK, Refund, AppendLine
  <1>9. charge' = charge
    BY DEF Release
  <1>10. LedgerExact'
    <2> SUFFICES ASSUME NEW v \in Students, NEW n \in Attempts
        PROVE  LET now == IF booking'[v] = None THEN 0
                          ELSE booking'[v].attempt
               IN /\ n = now => charge'[v][n] = booking'[v].price_minor
                  /\ n > now => charge'[v][n] = None
                  /\ reversal'[v][n] =
                       IF n = now /\ Booked(v)' THEN None ELSE charge'[v][n]
      BY DEF LedgerExact
    <2>0. LET was == IF booking[v] = None THEN 0 ELSE booking[v].attempt
          IN /\ n = was => charge[v][n] = booking[v].price_minor
             /\ n > was => charge[v][n] = None
             /\ reversal[v][n] =
                  IF n = was /\ Booked(v) THEN None ELSE charge[v][n]
      BY DEF MoneyInv, LedgerExact
    <2>1. CASE v # u
      BY <2>0, <2>1, <1>6, <1>8, <1>9 DEF Booked
    <2>2. CASE v = u
      <3>1. ~Booked(v)'
        BY <2>2, <1>4, <1>5 DEF Booked
      <3> QED BY <3>1, <2>0, <2>2, <1>2, <1>4, <1>5, <1>8, <1>9
    <2> QED BY <2>1, <2>2
  <1>11. Onward
    <2> SUFFICES ASSUME NEW v \in Students, booking[v] # None
        PROVE  /\ booking'[v] # None
               /\ booking[v].attempt <= booking'[v].attempt
               /\ \A n \in Attempts : n <= booking[v].attempt =>
                     /\ charge'[v][n] = charge[v][n]
                     /\ Booked(v)' /\ n = booking'[v].attempt
                           => Booked(v) /\ n = booking[v].attempt
      BY DEF Onward
    <2>1. booking[v].attempt \in Attempts
      BY DEF TypeOK, BookingRow
    <2>2. CASE v # u
      BY <2>1, <2>2, <1>6, <1>9 DEF Booked, Attempts
    <2>3. CASE v = u
      BY <2>1, <2>3, <1>2, <1>4, <1>5, <1>9 DEF Attempts
    <2> QED BY <2>2, <2>3
  <1> QED BY <1>5, <1>10, <1>11 DEF row

\* Every step of a booking keeps the ledger exact.
LEMMA BookStepExact ==
    ASSUME TypeOK, TypeOK', MoneyInv, NEW r \in Requests, BookStep(r)
    PROVE  MoneyInv'
  <1> USE DEF MoneyInv
  <1>0. ASSUME UNCHANGED <<booking, charge, reversal>>
        PROVE  LedgerExact' /\ Onward
    BY <1>0, StillExact, StillOnward
  <1>1. ASSUME NEW u \in Students, Book(r, u) PROVE MoneyInv'
    <2> DEFINE q == [pc |-> "menu", user |-> u, left |-> Tries]
    <2>1. Suspend(r, q) /\ q.pc = "menu"
      BY <1>1 DEF Book
    <2> HIDE DEF q
    <2> QED BY <1>0, <1>1, <2>1, NothingHeld DEF Book, ledger
  <1>2. ASSUME NEW inTime \in BOOLEAN, BookMenu(r, inTime) PROVE MoneyInv'
    <2> DEFINE q == [pc |-> "row", user |-> req[r].user,
                     left |-> req[r].left, capacity |-> menu.capacity,
                     version |-> menu.version, era |-> menu.era]
    <2>1. (Suspend(r, q) \/ End(r)) /\ q.pc = "row"
      BY <1>2 DEF BookMenu
    <2> HIDE DEF q
    <2>2. LedgerExact' /\ Onward
      BY <1>0, <1>2 DEF BookMenu, ledger
    <2> QED BY <2>1, <2>2, NothingHeld, EndHolds
  <1>3. ASSUME BookRow(r) PROVE MoneyInv'
    <2> DEFINE u == req[r].user
    <2>0. req[r] \in RowRequest /\ u \in Students
      BY <1>3, Shapes DEF BookRow, RowRequest
    <2>1. LedgerExact' /\ Onward /\ booking' = booking /\ charge' = charge
      BY <1>0, <1>3 DEF BookRow, ledger
    <2>2. CASE Booked(u)
      <3> DEFINE q == [pc |-> "replay", user |-> u, left |-> req[r].left,
                       held |-> booking[u]]
      <3>1. Suspend(r, q) /\ q.pc = "replay" /\ q.user = u
            /\ q.held = booking[u]
        BY <1>3, <2>2 DEF BookRow
      <3> HIDE DEF q
      <3>2. req'[r] = q
        BY <3>1 DEF TypeOK, Suspend
      <3>3. booking[u] # None /\ booking[u].attempt \in Attempts
        BY <2>0, <2>2 DEF TypeOK, Booked, BookingRow
      <3>4. charge[u][booking[u].attempt] = booking[u].price_minor
        BY <2>0, <3>3 DEF LedgerExact
      <3>5. RequestOK(r)'
        BY <2>1, <3>1, <3>2, <3>3, <3>4 DEF RequestOK, RowOK, Attempts
      <3> QED BY <2>1, <3>1, <3>5, OthersKept
    <2>3. CASE ~Booked(u) /\ NextAttempt(u) > MaxAttempts
      BY <1>3, <2>1, <2>3, EndHolds DEF BookRow
    <2>4. CASE ~Booked(u) /\ ~(NextAttempt(u) > MaxAttempts)
      <3> DEFINE q == [pc |-> "price", user |-> u, left |-> req[r].left,
                       capacity |-> req[r].capacity,
                       version |-> req[r].version, era |-> req[r].era,
                       attempt |-> NextAttempt(u)]
      <3>1. Suspend(r, q) /\ q.pc = "price" /\ q.user = u
            /\ q.attempt = NextAttempt(u)
        BY <1>3, <2>4 DEF BookRow
      <3> HIDE DEF q
      <3>2. req'[r] = q
        BY <3>1 DEF TypeOK, Suspend
      <3>3. RequestOK(r)'
        BY <2>1, <3>1, <3>2 DEF RequestOK, NextAttempt
      <3> QED BY <2>1, <3>1, <3>3, OthersKept
    <2> QED BY <2>2, <2>3, <2>4
  <1>4. ASSUME Replay(r) PROVE MoneyInv'
    <2> DEFINE q == [pc |-> "reread", user |-> req[r].user,
                     left |-> req[r].left]
    <2>1. Suspend(r, q) /\ q.pc = "reread"
      BY <1>4 DEF Replay
    <2> HIDE DEF q
    <2>2. charge' = charge
      BY <1>4, ReplayAppendsNothing
    <2>3. LedgerExact' /\ Onward
      BY <1>0, <1>4, <2>2 DEF Replay
    <2> QED BY <2>1, <2>3, NothingHeld
  <1>5. ASSUME Reread(r) PROVE MoneyInv'
    <2>1. LedgerExact' /\ Onward
      BY <1>0, <1>5 DEF Reread, ledger
    <2> QED BY <1>5, <2>1, EndHolds, NextRoundHolds DEF Reread
  <1>6. ASSUME BookPrice(r) PROVE MoneyInv'
    <2> DEFINE q == [pc |-> "held", user |-> req[r].user,
                     left |-> req[r].left, capacity |-> req[r].capacity,
                     version |-> req[r].version, era |-> req[r].era,
                     attempt |-> req[r].attempt, price |-> PriceSnapshot]
    <2>1. Suspend(r, q) /\ q.pc = "held" /\ q.user = req[r].user
          /\ q.attempt = req[r].attempt
      BY <1>6 DEF BookPrice
    <2> HIDE DEF q
    <2>2. req'[r] = q
      BY <2>1 DEF TypeOK, Suspend
    <2>3. LedgerExact' /\ Onward /\ booking' = booking
      BY <1>0, <1>6 DEF BookPrice, ledger
    <2>4. RequestOK(r)'
      BY <1>6, <2>1, <2>2, <2>3 DEF RequestOK, BookPrice
    <2> QED BY <2>1, <2>3, <2>4, OthersKept
  <1>7. ASSUME NEW p \in {"claim", "why"}, req[r].pc \in {"held", "claim"},
               Suspend(r, [req[r] EXCEPT !.pc = p]),
               UNCHANGED <<booking, charge, reversal>>
        PROVE  MoneyInv'
    <2> DEFINE q == [req[r] EXCEPT !.pc = p]
    <2>0. req[r] \in ClaimRequest
      BY <1>7, Shapes
    <2>1. Suspend(r, q) /\ q.pc = p /\ q.user = req[r].user
          /\ q.attempt = req[r].attempt
      BY <1>7, <2>0 DEF ClaimRequest
    <2> HIDE DEF q
    <2>2. req'[r] = q
      BY <2>1 DEF TypeOK, Suspend
    <2>3. RequestOK(r)'
      BY <1>7, <2>1, <2>2 DEF RequestOK
    <2> QED BY <1>0, <1>7, <2>1, <2>3, OthersKept
  <1>8. ASSUME ClaimHeld(r) PROVE MoneyInv'
    <2>1. UNCHANGED <<booking, charge, reversal>>
      BY <1>8 DEF ClaimHeld, ledger
    <2>2. CASE Booked(req[r].user)
      BY <1>0, <1>8, <2>1, <2>2, NextRoundHolds DEF ClaimHeld
    <2>3. CASE ~Booked(req[r].user)
      BY <1>7, <1>8, <2>1, <2>3 DEF ClaimHeld
    <2> QED BY <2>2, <2>3
  <1>9. ASSUME ClaimMade(r) PROVE MoneyInv'
    BY <1>9, ClaimMadeExact, EndHolds DEF ClaimMade
  <1>10. ASSUME ClaimDuplicate(r) PROVE MoneyInv'
    <2>1. UNCHANGED <<booking, charge, reversal>>
      BY <1>10 DEF ClaimDuplicate, ledger
    <2> QED BY <1>0, <1>10, <2>1, NextRoundHolds DEF ClaimDuplicate
  <1>11. ASSUME ClaimFull(r) PROVE MoneyInv'
    <2>1. UNCHANGED <<booking, charge, reversal>>
      BY <1>11 DEF ClaimFull, ledger
    <2>2. CASE Booked(req[r].user)
      BY <1>0, <1>11, <2>1, <2>2, NextRoundHolds DEF ClaimFull
    <2>3. CASE ~Booked(req[r].user)
      BY <1>7, <1>11, <2>1, <2>3 DEF ClaimFull
    <2> QED BY <2>2, <2>3
  <1>12. ASSUME BookWhy(r) PROVE MoneyInv'
    <2>1. UNCHANGED <<booking, charge, reversal>>
      BY <1>12 DEF BookWhy, ledger
    <2> QED BY <1>0, <1>12, <2>1, EndHolds, NextRoundHolds DEF BookWhy
  <1> QED BY <1>1, <1>2, <1>3, <1>4, <1>5, <1>6, <1>8, <1>9, <1>10, <1>11,
             <1>12 DEF BookStep

\* A cancel record moved on to its refund with the row it read.
LEMMA MovedToReverse ==
    ASSUME NEW q \in CancelRequest, NEW row
    PROVE  LET p == [q EXCEPT !.pc = "reverse", !.row = row]
           IN p.pc = "reverse" /\ p.user = q.user /\ p.row = row
  <1> DEFINE p == [q EXCEPT !.pc = "reverse"]
  <1>1. /\ p = [pc |-> "reverse", user |-> q.user, row |-> q.row]
    BY DEF CancelRequest
  <1> HIDE DEF p
  <1>2. [p EXCEPT !.row = row]
          = [pc |-> "reverse", user |-> q.user, row |-> row]
    BY <1>1
  <1> QED BY <1>2 DEF p

\* Every step of a cancellation keeps it exact.
LEMMA CancelStepExact ==
    ASSUME TypeOK, TypeOK', MoneyInv, NEW r \in Requests, CancelStep(r)
    PROVE  MoneyInv'
  <1> USE DEF MoneyInv
  <1>0. ASSUME UNCHANGED <<booking, charge, reversal>>
        PROVE  LedgerExact' /\ Onward
    BY <1>0, StillExact, StillOnward
  <1>1. ASSUME NEW u \in Students, CancelRead(r, u) PROVE MoneyInv'
    <2> DEFINE q == [pc |-> IF Booked(u) THEN "cutoff" ELSE "reverse",
                     user |-> u, row |-> booking[u]]
    <2>1. /\ Suspend(r, q)
          /\ q.pc = IF Booked(u) THEN "cutoff" ELSE "reverse"
          /\ q.user = u /\ q.row = booking[u]
      BY <1>1 DEF CancelRead
    <2> HIDE DEF q
    <2>2. req'[r] = q
      BY <2>1 DEF TypeOK, Suspend
    <2>3. /\ LedgerExact' /\ Onward
          /\ booking' = booking /\ charge' = charge /\ booking[u] # None
      BY <1>0, <1>1 DEF CancelRead, ledger
    <2>4. booking[u].attempt \in Attempts
      BY <2>3 DEF TypeOK, BookingRow
    <2>5. charge[u][booking[u].attempt] = booking[u].price_minor
      BY <2>3, <2>4 DEF LedgerExact
    <2>6. RequestOK(r)'
      BY <2>1, <2>2, <2>3, <2>4, <2>5 DEF RequestOK, RowOK, Booked, Attempts
    <2> QED BY <2>1, <2>3, <2>6, OthersKept
  <1>2. ASSUME NEW p \in {"release", "lost"},
               req[r].pc \in {"cutoff", "release"},
               Suspend(r, [req[r] EXCEPT !.pc = p]),
               UNCHANGED <<booking, charge, reversal>>
        PROVE  MoneyInv'
    <2> DEFINE q == [req[r] EXCEPT !.pc = p]
    <2>0. req[r] \in CancelRequest
      BY <1>2, Shapes
    <2>1. Suspend(r, q) /\ q.pc = p /\ q.user = req[r].user
          /\ q.row = req[r].row
      BY <1>2, <2>0 DEF CancelRequest
    <2> HIDE DEF q
    <2>2. req'[r] = q
      BY <2>1 DEF TypeOK, Suspend
    <2>3. RequestOK(r)'
      BY <1>2, <2>1, <2>2 DEF RequestOK, RowOK
    <2> QED BY <1>0, <1>2, <2>1, <2>3, OthersKept
  <1>3. ASSUME NEW inTime \in BOOLEAN, CancelCutoff(r, inTime) PROVE MoneyInv'
    <2>1. UNCHANGED <<booking, charge, reversal>>
      BY <1>3 DEF CancelCutoff, ledger
    <2> QED BY <1>0, <1>2, <1>3, <2>1, EndHolds DEF CancelCutoff
  <1>4. ASSUME Release(r) PROVE MoneyInv'
    <2>1. CASE Flips(req[r])
      <3> DEFINE u == req[r].user
                 q == [req[r] EXCEPT !.pc = "reverse", !.row = booking'[u]]
      <3>0. req[r] \in CancelRequest /\ u \in Students
        BY <1>4, Shapes DEF Release, CancelRequest
      <3>1. /\ LedgerExact' /\ Onward
            /\ booking'[u] = [booking[u] EXCEPT !.status = "cancelled"]
        BY <1>4, <2>1, ReleaseExact
      <3>2. booking[u] \in BookingRow
        BY <3>0, <2>1 DEF TypeOK, Flips, Booked
      <3>3. booking'[u] \in BookingRow /\ booking'[u].status = "cancelled"
        BY <3>1, <3>2 DEF BookingRow
      <3>4. q.pc = "reverse" /\ q.user = u /\ q.row = booking'[u]
        BY <3>0, MovedToReverse
      <3>5. Suspend(r, q)
        BY <1>4, <2>1 DEF Release
      <3> HIDE DEF q
      <3>6. req'[r] = q
        BY <3>5 DEF TypeOK, Suspend
      <3>7. booking'[u] # None /\ booking'[u].attempt \in Attempts
        BY <3>3, NoneAssumption DEF BookingRow
      <3>8. charge'[u][booking'[u].attempt] = booking'[u].price_minor
        BY <3>0, <3>1, <3>7 DEF LedgerExact
      <3>9. RequestOK(r)'
        BY <3>3, <3>4, <3>6, <3>7, <3>8
           DEF RequestOK, RowOK, Booked, Attempts
      <3> QED BY <3>1, <3>5, <3>9, OthersKept
    <2>2. CASE ~Flips(req[r])
      BY <1>2, <1>4, <2>2 DEF Release
    <2> QED BY <2>1, <2>2
  <1>5. ASSUME CancelLost(r) PROVE MoneyInv'
    <2> DEFINE u == req[r].user
               q == [req[r] EXCEPT !.pc = "reverse", !.row = booking[u]]
    <2>0. req[r] \in CancelRequest /\ u \in Students
      BY <1>5, Shapes DEF CancelLost, CancelRequest
    <2>1. /\ LedgerExact' /\ Onward
          /\ booking' = booking /\ charge' = charge
      BY <1>0, <1>5 DEF CancelLost, ledger
    <2>2. CASE ~RefundableAfterLostFlip(req[r].row, booking[u])
      BY <1>5, <2>1, <2>2, EndHolds DEF CancelLost
    <2>3. CASE RefundableAfterLostFlip(req[r].row, booking[u])
      <3>1. q.pc = "reverse" /\ q.user = u /\ q.row = booking[u]
        BY <2>0, MovedToReverse
      <3>2. Suspend(r, q)
        BY <1>5, <2>3 DEF CancelLost
      <3> HIDE DEF q
      <3>3. req'[r] = q
        BY <3>2 DEF TypeOK, Suspend
      <3>4. booking[u] # None
        BY <1>5 DEF CancelLost, RequestOK, RowOK
      <3>5. booking[u].attempt \in Attempts /\ booking[u].status = "cancelled"
        BY <2>0, <2>3, <3>4 DEF TypeOK, BookingRow, RefundableAfterLostFlip
      <3>6. charge[u][booking[u].attempt] = booking[u].price_minor
        BY <2>0, <3>4, <3>5 DEF LedgerExact
      <3>7. RequestOK(r)'
        BY <2>1, <3>1, <3>3, <3>4, <3>5, <3>6
           DEF RequestOK, RowOK, Booked, Attempts
      <3> QED BY <2>1, <3>2, <3>7, OthersKept
    <2> QED BY <2>2, <2>3
  <1>6. ASSUME CancelReverse(r) PROVE MoneyInv'
    <2>1. reversal' = reversal
      BY <1>6, LateRefundAppendsNothing
    <2>2. LedgerExact' /\ Onward
      BY <1>0, <1>6, <2>1 DEF CancelReverse
    <2> QED BY <1>6, <2>2, EndHolds DEF CancelReverse
  <1> QED BY <1>1, <1>3, <1>4, <1>5, <1>6 DEF CancelStep

\* Every step keeps the ledger exact.
LEMMA MoneyStep ==
    ASSUME TypeOK, TypeOK', MoneyInv, [Next]_vars
    PROVE  MoneyInv'
  <1>1. ASSUME UNCHANGED <<booking, ledger, req>> PROVE MoneyInv'
    <2>1. LedgerExact' /\ Onward
      BY <1>1, StillExact, StillOnward DEF MoneyInv, ledger
    <2> QED BY <1>1, <2>1, RequestKept DEF MoneyInv
  <1>2. ASSUME NEW r \in Requests, Drop(r) PROVE MoneyInv'
    <2>1. LedgerExact' /\ Onward
      BY <1>2, StillExact, StillOnward DEF MoneyInv, Drop, ledger
    <2> QED BY <1>2, <2>1, EndHolds DEF MoneyInv, Drop
  <1>3. CASE KitchenStep
    BY <1>1, <1>3 DEF KitchenStep, SetCapacity, PublishMenu, SetDishes,
                      DeleteMenu
  <1>4. CASE UNCHANGED vars
    BY <1>1, <1>4 DEF vars
  <1> QED BY <1>2, <1>3, <1>4, BookStepExact, CancelStepExact DEF Next

-----------------------------------------------------------------------------
(* Seats. *)

\* There are finitely many seats held.
LEMMA HeldFinite ==
    IsFiniteSet(Held) /\ Cardinality(Held) \in Nat
  BY MealAssumption, FS_Subset, FS_CardinalityType DEF Held

\* A step that frees no counted seat and leaves the bookings alone.
LEMMA SeatsStay ==
    ASSUME TypeOK, TypeOK', HeldSeatsCounted, booking' = booking,
           menu # None =>
              menu' # None /\ menu.seats_booked <= menu'.seats_booked,
           menu = None => menu' = None
    PROVE  HeldSeatsCounted'
  <1>1. Held' = Held
    BY DEF Held, Booked
  <1>2. menu # None => menu.seats_booked \in Nat /\ menu'.seats_booked \in Nat
    BY DEF TypeOK, MenuRow
  <1> QED BY <1>1, <1>2, HeldFinite DEF HeldSeatsCounted

\* A claim adds one holder and counts one seat.
LEMMA ClaimMadeCounted ==
    ASSUME TypeOK, TypeOK', MoneyInv, HeldSeatsCounted,
           NEW r \in Requests, ClaimMade(r)
    PROVE  HeldSeatsCounted'
  <1> DEFINE u == req[r].user
             row == [status |-> "booked", attempt |-> req[r].attempt,
                     price_minor |-> req[r].price]
  <1>1. req[r] \in ClaimRequest /\ u \in Students
    BY Shapes DEF ClaimMade, ClaimRequest
  <1>2. u \notin Held
    BY <1>1 DEF ClaimMade, Placeable, Held, Booked
  <1>3. row \in BookingRow /\ row # None /\ row.status = "booked"
    BY <1>1, NoneAssumption DEF ClaimRequest, BookingRow
  <1>4. booking' = [booking EXCEPT ![u] = row]
    BY DEF ClaimMade
  <1> HIDE DEF row
  <1>5. Held' = Held \cup {u}
    BY <1>1, <1>3, <1>4 DEF TypeOK, Held, Booked
  <1>6. Cardinality(Held') = Cardinality(Held) + 1
    BY <1>2, <1>5, HeldFinite, FS_AddElement
  <1>7. menu \in MenuRow /\ menu # None
    BY DEF TypeOK, ClaimMade, SeatFree
  <1>8. menu' = [menu EXCEPT !.seats_booked = @ + 1]
    BY DEF ClaimMade
  <1>9. menu'.seats_booked = menu.seats_booked + 1 /\ menu' \in MenuRow
    BY <1>7, <1>8 DEF MenuRow
  <1>10. menu.seats_booked \in Nat /\ menu' # None
    BY <1>7, <1>9, NoneAssumption DEF MenuRow
  <1> QED BY <1>6, <1>7, <1>9, <1>10, HeldFinite DEF HeldSeatsCounted

\* A release drops one holder and gives back one seat, which was counted.
LEMMA ReleaseCounted ==
    ASSUME TypeOK, TypeOK', HeldSeatsCounted,
           NEW r \in Requests, Release(r), Flips(req[r])
    PROVE  HeldSeatsCounted'
  <1> DEFINE u == req[r].user
             row == [booking[u] EXCEPT !.status = "cancelled"]
  <1>1. u \in Students
    BY Shapes DEF Release, CancelRequest
  <1>2. u \in Held /\ booking[u] \in BookingRow
    BY <1>1 DEF TypeOK, Flips, Held, Booked
  <1>3. row.status = "cancelled"
    BY <1>2 DEF BookingRow
  <1>4. booking' = [booking EXCEPT ![u] = row]
    BY DEF Release
  <1> HIDE DEF row
  <1>5. Held' = Held \ {u}
    BY <1>1, <1>3, <1>4 DEF TypeOK, Held, Booked
  <1>6. Cardinality(Held') = Cardinality(Held) - 1
    BY <1>2, <1>5, HeldFinite, FS_RemoveElement
  <1>7. menu \in MenuRow /\ menu # None
    BY <1>2 DEF TypeOK, HeldSeatsCounted
  <1>8. menu' = [menu EXCEPT !.seats_booked = GiveBack(@)]
    BY <1>7 DEF Release
  <1>9. /\ menu'.seats_booked = GiveBack(menu.seats_booked)
        /\ menu.seats_booked \in Nat /\ menu' \in MenuRow
    BY <1>7, <1>8 DEF MenuRow, GiveBack
  <1>10. menu' # None
    BY <1>9, NoneAssumption
  <1>11. Cardinality(Held) <= menu.seats_booked
    BY <1>7 DEF HeldSeatsCounted
  <1> QED BY <1>6, <1>9, <1>10, <1>11, HeldFinite
          DEF HeldSeatsCounted, GiveBack

\* Every step keeps the held seats counted.
LEMMA SeatsStep ==
    ASSUME TypeOK, TypeOK', MoneyInv, HeldSeatsCounted, [Next]_vars
    PROVE  HeldSeatsCounted'
  <1>0. menu # None => menu \in MenuRow /\ menu.seats_booked \in Nat
    BY DEF TypeOK, MenuRow
  <1>1. ASSUME UNCHANGED <<menu, booking>> PROVE HeldSeatsCounted'
    BY <1>0, <1>1, SeatsStay
  <1>2. ASSUME NEW r \in Requests, ClaimDuplicate(r) PROVE HeldSeatsCounted'
    <2>1. menu \in MenuRow /\ menu # None
      BY <1>2 DEF TypeOK, ClaimDuplicate, SeatFree
    <2>2. menu' = [menu EXCEPT !.seats_booked = @ + 1]
      BY <1>2 DEF ClaimDuplicate
    <2>3. /\ menu'.seats_booked = menu.seats_booked + 1
          /\ menu.seats_booked \in Nat /\ menu' \in MenuRow
      BY <2>1, <2>2 DEF MenuRow
    <2>4. menu' # None /\ booking' = booking
      BY <1>2, <2>3, NoneAssumption DEF ClaimDuplicate
    <2> QED BY <2>1, <2>3, <2>4, SeatsStay
  <1>3. ASSUME NEW r \in Requests, Release(r) PROVE HeldSeatsCounted'
    BY <1>1, <1>3, ReleaseCounted DEF Release
  <1>4. ASSUME NEW c \in Capacities, SetCapacity(c) PROVE HeldSeatsCounted'
    <2>1. menu \in MenuRow /\ menu # None
      BY <1>4 DEF TypeOK, SetCapacity
    <2>2. menu' = [capacity |-> c, seats_booked |-> menu.seats_booked,
                   version |-> menu.version + 1, price |-> menu.price,
                   era |-> menu.era]
      BY <1>4, <2>1 DEF SetCapacity, MenuRow
    <2>3. menu'.seats_booked = menu.seats_booked /\ menu' \in MenuRow
      BY <2>1, <2>2 DEF MenuRow
    <2> QED BY <1>0, <1>4, <2>1, <2>3, NoneAssumption, SeatsStay
            DEF SetCapacity
  <1>5. ASSUME NEW p \in Prices, SetDishes(p) PROVE HeldSeatsCounted'
    <2>1. menu \in MenuRow /\ menu # None
      BY <1>5 DEF TypeOK, SetDishes
    <2>2. menu' = [capacity |-> menu.capacity,
                   seats_booked |-> menu.seats_booked,
                   version |-> menu.version + 1, price |-> p,
                   era |-> menu.era]
      BY <1>5, <2>1 DEF SetDishes, MenuRow
    <2>3. menu'.seats_booked = menu.seats_booked /\ menu' \in MenuRow
      BY <2>1, <2>2 DEF MenuRow
    <2> QED BY <1>0, <1>5, <2>1, <2>3, NoneAssumption, SeatsStay
            DEF SetDishes
  <1>6. ASSUME NEW c \in Capacities, PublishMenu(c) PROVE HeldSeatsCounted'
    <2>1. Held = {} /\ Held' = Held
      BY <1>6 DEF PublishMenu, HeldSeatsCounted, Held, Booked
    <2>2. menu'.seats_booked = 0
      BY <1>6 DEF PublishMenu
    <2>3. Cardinality(Held') = 0
      BY <2>1, FS_EmptySet
    <2> QED BY <2>1, <2>2, <2>3 DEF HeldSeatsCounted
  <1>7. ASSUME DeleteMenu PROVE HeldSeatsCounted'
    <2>1. Cardinality(Held) = 0
      BY <1>7, HeldFinite DEF DeleteMenu, Deletable, HeldSeatsCounted
    <2>2. Held = {} /\ Held' = Held
      BY <1>7, <2>1, HeldFinite, FS_EmptySet DEF DeleteMenu, Held, Booked
    <2> QED BY <1>7, <2>2 DEF DeleteMenu, HeldSeatsCounted
  <1>8. CASE KitchenStep
    BY <1>4, <1>5, <1>6, <1>7, <1>8 DEF KitchenStep
  <1>9. ASSUME NEW r \in Requests, BookStep(r) PROVE HeldSeatsCounted'
    BY <1>1, <1>2, <1>9, ClaimMadeCounted
       DEF BookStep, Book, BookMenu, BookRow, Replay, Reread, BookPrice,
           ClaimHeld, ClaimFull, BookWhy
  <1>10. ASSUME NEW r \in Requests, CancelStep(r) PROVE HeldSeatsCounted'
    BY <1>1, <1>3, <1>10 DEF CancelStep, CancelRead, CancelCutoff, CancelLost,
                             CancelReverse
  <1>11. ASSUME NEW r \in Requests, Drop(r) PROVE HeldSeatsCounted'
    BY <1>1, <1>11 DEF Drop
  <1>12. CASE UNCHANGED vars
    BY <1>1, <1>12 DEF vars
  <1> QED BY <1>8, <1>9, <1>10, <1>11, <1>12 DEF Next

-----------------------------------------------------------------------------
(* Freshness. *)

Reading == {"row", "price", "held", "claim", "why"}
Priced  == {"held", "claim", "why"}

\* What a booking read of the publication that is up is behind the menu's
\* revision, or is what the menu still says.
FreshOK(r) ==
    req[r].pc \in Reading =>
        /\ req[r].era <= published
        /\ menu # None /\ req[r].era = menu.era =>
              /\ req[r].version <= menu.version
              /\ req[r].version = menu.version =>
                    /\ req[r].capacity = menu.capacity
                    /\ req[r].pc \in Priced => req[r].price = PriceSnapshot

FreshInv ==
    /\ menu # None => menu.era = published
    /\ \A r \in Requests : FreshOK(r)

\* The menu moves on: an edit is a new revision, a publication a new era.
MenuOnward ==
    /\ published <= published'
    /\ menu' # None =>
          \/ menu'.era = published' /\ published < published'
          \/ /\ menu # None /\ menu'.era = menu.era /\ published' = published
             /\ \/ menu.version < menu'.version
                \/ /\ menu'.version = menu.version
                   /\ menu'.capacity = menu.capacity
                   /\ menu'.price = menu.price

\* A booking that read the menu kept numbers.
LEMMA ReadTyped ==
    ASSUME TypeOK, NEW r \in Requests, req[r].pc \in Reading
    PROVE  req[r].era \in Nat /\ req[r].version \in Nat
  BY Shapes DEF Reading, RowRequest, PriceRequest, ClaimRequest

\* What a request that is not acting read stays fresh or falls behind.
LEMMA FreshKept ==
    ASSUME TypeOK, TypeOK', FreshInv, MenuOnward, NEW r \in Requests,
           req'[r] = req[r]
    PROVE  FreshOK(r)'
  <1> SUFFICES ASSUME req[r].pc \in Reading PROVE FreshOK(r)'
    BY DEF FreshOK
  <1>1. req[r].era \in Nat /\ req[r].version \in Nat
    BY ReadTyped
  <1>2. published \in Nat /\ published' \in Nat
    BY MealAssumption DEF TypeOK
  <1>3. /\ menu # None => menu.version \in Nat
        /\ menu' # None => menu'.version \in Nat
    BY DEF TypeOK, MenuRow
  <1>4. FreshOK(r)
    BY DEF FreshInv
  <1> QED BY <1>1, <1>2, <1>3, <1>4
          DEF FreshOK, MenuOnward, PriceSnapshot

\* The menu that is up is the last one published.
LEMMA MenuEraKept ==
    ASSUME FreshInv, MenuOnward
    PROVE  menu' # None => menu'.era = published'
  BY DEF FreshInv, MenuOnward

\* A step of r: its own record is the only one that changes.
LEMMA OthersFresh ==
    ASSUME TypeOK, TypeOK', FreshInv, MenuOnward, NEW r \in Requests,
           NEW q, Suspend(r, q), FreshOK(r)'
    PROVE  FreshInv'
  <1>1. \A p \in Requests : FreshOK(p)'
    <2> TAKE p \in Requests
    <2>1. CASE p # r
      BY <2>1, FreshKept DEF TypeOK, Suspend
    <2> QED BY <2>1
  <1> QED BY <1>1, MenuEraKept DEF FreshInv

\* A request that moves to where it holds no reading.
LEMMA NothingRead ==
    ASSUME TypeOK, TypeOK', FreshInv, MenuOnward, NEW r \in Requests,
           NEW q, Suspend(r, q), q.pc \notin Reading
    PROVE  FreshInv'
  <1>1. req'[r] = q
    BY DEF TypeOK, Suspend
  <1>2. FreshOK(r)'
    BY <1>1 DEF FreshOK
  <1> QED BY <1>2, OthersFresh

\* A request that ends holds no reading.
LEMMA EndFresh ==
    ASSUME TypeOK, TypeOK', FreshInv, MenuOnward, NEW r \in Requests, End(r)
    PROVE  FreshInv'
  BY NothingRead DEF End, Idle, Reading

\* A request that goes another round holds no reading.
LEMMA NextRoundFresh ==
    ASSUME TypeOK, TypeOK', FreshInv, MenuOnward, NEW r \in Requests,
           NextRound(r)
    PROVE  FreshInv'
  <1>1. CASE req[r].left = 1
    BY <1>1, EndFresh DEF NextRound
  <1>2. CASE req[r].left # 1
    <2> DEFINE q == [pc |-> "menu", user |-> req[r].user,
                     left |-> req[r].left - 1]
    <2>1. Suspend(r, q) /\ q.pc \notin Reading
      BY <1>2 DEF NextRound, Reading
    <2> HIDE DEF q
    <2> QED BY <2>1, NothingRead
  <1> QED BY <1>1, <1>2

\* A step that leaves the menu alone.
LEMMA MenuStays ==
    ASSUME TypeOK, UNCHANGED <<menu, published>>
    PROVE  MenuOnward
  BY MealAssumption DEF TypeOK, MenuOnward

\* A seat counted or given back is no edit of the menu.
LEMMA SeatIsNoEdit ==
    ASSUME TypeOK, NEW n \in Nat, menu # None, published' = published,
           menu' = [menu EXCEPT !.seats_booked = n]
    PROVE  MenuOnward
  <1>1. menu \in MenuRow /\ published \in Nat
    BY MealAssumption DEF TypeOK
  <1>2. /\ menu'.era = menu.era /\ menu'.version = menu.version
        /\ menu'.capacity = menu.capacity /\ menu'.price = menu.price
    BY <1>1 DEF MenuRow
  <1> QED BY <1>1, <1>2 DEF MenuOnward

\* Every step of a booking keeps the readings fresh.
LEMMA BookStepFresh ==
    ASSUME TypeOK, TypeOK', FreshInv, NEW r \in Requests, BookStep(r)
    PROVE  FreshInv'
  <1>1. ASSUME NEW u \in Students, Book(r, u) PROVE FreshInv'
    <2> DEFINE q == [pc |-> "menu", user |-> u, left |-> Tries]
    <2>1. Suspend(r, q) /\ q.pc \notin Reading /\ MenuOnward
      BY <1>1, MenuStays DEF Book, Reading
    <2> HIDE DEF q
    <2> QED BY <2>1, NothingRead
  <1>2. ASSUME NEW inTime \in BOOLEAN, BookMenu(r, inTime) PROVE FreshInv'
    <2>0. MenuOnward /\ menu' = menu /\ published' = published
      BY <1>2, MenuStays DEF BookMenu
    <2>1. CASE ~(menu # None /\ inTime)
      BY <1>2, <2>0, <2>1, EndFresh DEF BookMenu
    <2>2. CASE menu # None /\ inTime
      <3> DEFINE q == [pc |-> "row", user |-> req[r].user,
                       left |-> req[r].left, capacity |-> menu.capacity,
                       version |-> menu.version, era |-> menu.era]
      <3>1. /\ Suspend(r, q) /\ q.pc = "row" /\ q.capacity = menu.capacity
            /\ q.version = menu.version /\ q.era = menu.era
        BY <1>2, <2>2 DEF BookMenu
      <3> HIDE DEF q
      <3>2. req'[r] = q
        BY <3>1 DEF TypeOK, Suspend
      <3>3. menu.version \in Nat /\ published \in Nat
        BY <2>2, MealAssumption DEF TypeOK, MenuRow
      <3>4. FreshOK(r)'
        BY <2>0, <2>2, <3>1, <3>2, <3>3 DEF FreshInv, FreshOK, Priced
      <3> QED BY <2>0, <3>1, <3>4, OthersFresh
    <2> QED BY <2>1, <2>2
  <1>3. ASSUME BookRow(r) PROVE FreshInv'
    <2> DEFINE u == req[r].user
    <2>0. MenuOnward /\ menu' = menu /\ published' = published
      BY <1>3, MenuStays DEF BookRow
    <2>1. CASE Booked(u)
      <3> DEFINE q == [pc |-> "replay", user |-> u, left |-> req[r].left,
                       held |-> booking[u]]
      <3>1. Suspend(r, q) /\ q.pc \notin Reading
        BY <1>3, <2>1 DEF BookRow, Reading
      <3> HIDE DEF q
      <3> QED BY <2>0, <3>1, NothingRead
    <2>2. CASE ~Booked(u) /\ NextAttempt(u) > MaxAttempts
      BY <1>3, <2>0, <2>2, EndFresh DEF BookRow
    <2>3. CASE ~Booked(u) /\ ~(NextAttempt(u) > MaxAttempts)
      <3> DEFINE q == [pc |-> "price", user |-> u, left |-> req[r].left,
                       capacity |-> req[r].capacity,
                       version |-> req[r].version, era |-> req[r].era,
                       attempt |-> NextAttempt(u)]
      <3>1. /\ Suspend(r, q) /\ q.pc = "price"
            /\ q.capacity = req[r].capacity
            /\ q.version = req[r].version /\ q.era = req[r].era
        BY <1>3, <2>3 DEF BookRow
      <3> HIDE DEF q
      <3>2. req'[r] = q
        BY <3>1 DEF TypeOK, Suspend
      <3>3. FreshOK(r)'
        BY <1>3, <2>0, <3>1, <3>2
           DEF FreshInv, FreshOK, Priced, Reading, BookRow
      <3> QED BY <2>0, <3>1, <3>3, OthersFresh
    <2> QED BY <2>1, <2>2, <2>3
  <1>4. ASSUME Replay(r) PROVE FreshInv'
    <2> DEFINE q == [pc |-> "reread", user |-> req[r].user,
                     left |-> req[r].left]
    <2>1. Suspend(r, q) /\ q.pc \notin Reading /\ MenuOnward
      BY <1>4, MenuStays DEF Replay, Reading
    <2> HIDE DEF q
    <2> QED BY <2>1, NothingRead
  <1>5. ASSUME Reread(r) PROVE FreshInv'
    BY <1>5, MenuStays, EndFresh, NextRoundFresh DEF Reread
  <1>6. ASSUME BookPrice(r) PROVE FreshInv'
    <2> DEFINE q == [pc |-> "held", user |-> req[r].user,
                     left |-> req[r].left, capacity |-> req[r].capacity,
                     version |-> req[r].version, era |-> req[r].era,
                     attempt |-> req[r].attempt, price |-> PriceSnapshot]
    <2>0. MenuOnward /\ menu' = menu /\ published' = published
      BY <1>6, MenuStays DEF BookPrice
    <2>1. /\ Suspend(r, q) /\ q.pc = "held" /\ q.price = PriceSnapshot
          /\ q.capacity = req[r].capacity
          /\ q.version = req[r].version /\ q.era = req[r].era
      BY <1>6 DEF BookPrice
    <2> HIDE DEF q
    <2>2. req'[r] = q
      BY <2>1 DEF TypeOK, Suspend
    <2>3. FreshOK(r)'
      BY <1>6, <2>0, <2>1, <2>2
         DEF FreshInv, FreshOK, Reading, BookPrice, PriceSnapshot
    <2> QED BY <2>0, <2>1, <2>3, OthersFresh
  <1>7. ASSUME NEW p \in {"claim", "why"}, req[r].pc \in {"held", "claim"},
               Suspend(r, [req[r] EXCEPT !.pc = p]),
               UNCHANGED <<menu, published>>
        PROVE  FreshInv'
    <2> DEFINE q == [req[r] EXCEPT !.pc = p]
    <2>0. req[r] \in ClaimRequest
      BY <1>7, Shapes
    <2>1. /\ Suspend(r, q) /\ q.pc = p /\ q.price = req[r].price
          /\ q.capacity = req[r].capacity
          /\ q.version = req[r].version /\ q.era = req[r].era
      BY <1>7, <2>0 DEF ClaimRequest
    <2> HIDE DEF q
    <2>2. req'[r] = q
      BY <2>1 DEF TypeOK, Suspend
    <2>3. FreshOK(r)'
      BY <1>7, <2>1, <2>2 DEF FreshInv, FreshOK, Reading, Priced,
                              PriceSnapshot
    <2> QED BY <1>7, <2>1, <2>3, MenuStays, OthersFresh
  <1>8. ASSUME ClaimHeld(r) PROVE FreshInv'
    <2>1. CASE Booked(req[r].user)
      BY <1>8, <2>1, MenuStays, NextRoundFresh DEF ClaimHeld
    <2>2. CASE ~Booked(req[r].user)
      BY <1>7, <1>8, <2>2 DEF ClaimHeld
    <2> QED BY <2>1, <2>2
  <1>9. ASSUME menu # None, published' = published,
               menu' = [menu EXCEPT !.seats_booked = @ + 1]
        PROVE  MenuOnward
    <2>1. menu.seats_booked + 1 \in Nat
      BY <1>9 DEF TypeOK, MenuRow
    <2> QED BY <1>9, <2>1, SeatIsNoEdit
  <1>10. ASSUME ClaimMade(r) PROVE FreshInv'
    BY <1>9, <1>10, EndFresh DEF ClaimMade, SeatFree
  <1>11. ASSUME ClaimDuplicate(r) PROVE FreshInv'
    BY <1>9, <1>11, NextRoundFresh DEF ClaimDuplicate, SeatFree
  <1>12. ASSUME ClaimFull(r) PROVE FreshInv'
    <2>1. CASE Booked(req[r].user)
      BY <1>12, <2>1, MenuStays, NextRoundFresh DEF ClaimFull
    <2>2. CASE ~Booked(req[r].user)
      BY <1>7, <1>12, <2>2 DEF ClaimFull
    <2> QED BY <2>1, <2>2
  <1>13. ASSUME BookWhy(r) PROVE FreshInv'
    BY <1>13, MenuStays, EndFresh, NextRoundFresh DEF BookWhy
  <1> QED BY <1>1, <1>2, <1>3, <1>4, <1>5, <1>6, <1>8, <1>10, <1>11, <1>12,
             <1>13 DEF BookStep

\* Every step of a cancellation does.
LEMMA CancelStepFresh ==
    ASSUME TypeOK, TypeOK', FreshInv, NEW r \in Requests, CancelStep(r)
    PROVE  FreshInv'
  <1>1. ASSUME NEW u \in Students, CancelRead(r, u) PROVE FreshInv'
    <2> DEFINE q == [pc |-> IF Booked(u) THEN "cutoff" ELSE "reverse",
                     user |-> u, row |-> booking[u]]
    <2>1. Suspend(r, q) /\ q.pc \notin Reading /\ MenuOnward
      BY <1>1, MenuStays DEF CancelRead, Reading
    <2> HIDE DEF q
    <2> QED BY <2>1, NothingRead
  <1>2. ASSUME NEW p \in {"release", "lost"},
               req[r].pc \in {"cutoff", "release"},
               Suspend(r, [req[r] EXCEPT !.pc = p]), MenuOnward
        PROVE  FreshInv'
    <2> DEFINE q == [req[r] EXCEPT !.pc = p]
    <2>0. req[r] \in CancelRequest
      BY <1>2, Shapes
    <2>1. Suspend(r, q) /\ q.pc \notin Reading
      BY <1>2, <2>0 DEF CancelRequest, Reading
    <2> HIDE DEF q
    <2> QED BY <1>2, <2>1, NothingRead
  <1>3. ASSUME NEW inTime \in BOOLEAN, CancelCutoff(r, inTime) PROVE FreshInv'
    BY <1>2, <1>3, MenuStays, EndFresh DEF CancelCutoff
  <1>4. ASSUME NEW row, Suspend(r, [req[r] EXCEPT !.pc = "reverse",
                                                  !.row = row]),
               req[r] \in CancelRequest, MenuOnward
        PROVE  FreshInv'
    <2> DEFINE q == [req[r] EXCEPT !.pc = "reverse", !.row = row]
    <2>1. Suspend(r, q) /\ q.pc \notin Reading
      BY <1>4, MovedToReverse DEF Reading
    <2> HIDE DEF q
    <2> QED BY <1>4, <2>1, NothingRead
  <1>5. ASSUME Release(r) PROVE FreshInv'
    <2>0. req[r] \in CancelRequest
      BY <1>5, Shapes DEF Release
    <2>1. CASE ~Flips(req[r])
      BY <1>2, <1>5, <2>1, MenuStays DEF Release
    <2>2. CASE Flips(req[r])
      <3>1. MenuOnward
        <4>1. CASE menu = None
          BY <1>5, <2>2, <4>1, MenuStays DEF Release
        <4>2. CASE menu # None
          <5>1. GiveBack(menu.seats_booked) \in Nat
            BY <4>2 DEF TypeOK, MenuRow, GiveBack
          <5>2. menu' = [menu EXCEPT
                           !.seats_booked = GiveBack(menu.seats_booked)]
                /\ published' = published
            BY <1>5, <2>2, <4>2 DEF Release
          <5> QED BY <4>2, <5>1, <5>2, SeatIsNoEdit
        <4> QED BY <4>1, <4>2
      <3>2. Suspend(r, [req[r] EXCEPT !.pc = "reverse",
                                      !.row = booking'[req[r].user]])
        BY <1>5, <2>2 DEF Release
      <3> DEFINE row == booking'[req[r].user]
      <3> QED BY <1>4, <2>0, <3>1, <3>2
    <2> QED BY <2>1, <2>2
  <1>6. ASSUME CancelLost(r) PROVE FreshInv'
    <2>0. req[r] \in CancelRequest /\ MenuOnward
      BY <1>6, Shapes, MenuStays DEF CancelLost
    <2> QED BY <1>4, <1>6, <2>0, EndFresh DEF CancelLost
  <1>7. ASSUME CancelReverse(r) PROVE FreshInv'
    BY <1>7, MenuStays, EndFresh DEF CancelReverse
  <1> QED BY <1>1, <1>3, <1>5, <1>6, <1>7 DEF CancelStep

\* Every write of the kitchen moves the menu on.
LEMMA KitchenOnward ==
    ASSUME TypeOK, KitchenStep
    PROVE  MenuOnward
  <1>0. /\ published \in Nat
        /\ menu # None => menu \in MenuRow /\ menu.version \in Nat
    BY MealAssumption DEF TypeOK, MenuRow
  <1>1. ASSUME NEW c \in Capacities, SetCapacity(c) PROVE MenuOnward
    <2>1. menu' = [capacity |-> c, seats_booked |-> menu.seats_booked,
                   version |-> menu.version + 1, price |-> menu.price,
                   era |-> menu.era]
      BY <1>0, <1>1 DEF SetCapacity, MenuRow
    <2> QED BY <1>0, <1>1, <2>1 DEF MenuOnward, SetCapacity
  <1>2. ASSUME NEW p \in Prices, SetDishes(p) PROVE MenuOnward
    <2>1. menu' = [capacity |-> menu.capacity,
                   seats_booked |-> menu.seats_booked,
                   version |-> menu.version + 1, price |-> p,
                   era |-> menu.era]
      BY <1>0, <1>2 DEF SetDishes, MenuRow
    <2> QED BY <1>0, <1>2, <2>1 DEF MenuOnward, SetDishes
  <1>3. ASSUME NEW c \in Capacities, PublishMenu(c) PROVE MenuOnward
    BY <1>0, <1>3 DEF MenuOnward, PublishMenu
  <1>4. ASSUME DeleteMenu PROVE MenuOnward
    BY <1>0, <1>4 DEF MenuOnward, DeleteMenu
  <1> QED BY <1>1, <1>2, <1>3, <1>4 DEF KitchenStep

\* Every step keeps the readings fresh.
LEMMA FreshStep ==
    ASSUME TypeOK, TypeOK', FreshInv, [Next]_vars
    PROVE  FreshInv'
  <1>1. ASSUME MenuOnward, req' = req PROVE FreshInv'
    BY <1>1, FreshKept, MenuEraKept DEF FreshInv
  <1>2. CASE KitchenStep
    <2>1. req' = req
      BY <1>2 DEF KitchenStep, SetCapacity, SetDishes, PublishMenu, DeleteMenu
    <2> QED BY <1>1, <1>2, <2>1, KitchenOnward
  <1>3. ASSUME NEW r \in Requests, Drop(r) PROVE FreshInv'
    BY <1>3, MenuStays, EndFresh DEF Drop
  <1>4. CASE UNCHANGED vars
    BY <1>1, <1>4, MenuStays DEF vars
  <1> QED BY <1>2, <1>3, <1>4, BookStepFresh, CancelStepFresh DEF Next

-----------------------------------------------------------------------------
(* The theorems. *)

IndInv == TypeOK /\ MoneyInv /\ HeldSeatsCounted /\ FreshInv

\* The empty canteen satisfies the invariant.
LEMMA InitHolds == Init => IndInv
  <1> SUFFICES ASSUME Init PROVE IndInv
    OBVIOUS
  <1>1. TypeOK
    BY MealAssumption DEF Init, TypeOK, Request
  <1>2. MoneyInv
    BY MealAssumption
       DEF Init, MoneyInv, LedgerExact, Booked, RequestOK, Idle, Attempts
  <1>3. HeldSeatsCounted
    BY DEF Init, HeldSeatsCounted, Held, Booked
  <1>4. FreshInv
    BY DEF Init, FreshInv, FreshOK, Idle, Reading
  <1> QED BY <1>1, <1>2, <1>3, <1>4 DEF IndInv

\* Every reachable state satisfies the inductive invariant: types, ledger,
\* seats and what the requests in flight may rely on (book, cancel,
\* claim_and_place, release_seat and the kitchen's writes).
THEOREM Invariance == Spec => []IndInv
  <1>1. IndInv /\ [Next]_vars => IndInv'
    BY TypeStep, MoneyStep, SeatsStep, FreshStep DEF IndInv
  <1> QED BY <1>1, InitHolds, PTL DEF Spec

\* Seat counts never go below zero, attempts keep to their ceiling and a
\* booking to its rounds (release_seat, book).
THEOREM TypeCorrect == Spec => []TypeOK
  <1>1. IndInv => TypeOK
    BY DEF IndInv
  <1> QED BY <1>1, Invariance, PTL

\* Whatever cancels, re-books and replays collide, each attempt is charged its
\* row's price once, and refunded in full exactly when it is over
\* (claim_and_place, release_seat, charge_booking, reverse_booking).
THEOREM MoneyFollowsSeats == Spec => []LedgerExact
  <1>1. IndInv => LedgerExact
    BY DEF IndInv, MoneyInv
  <1> QED BY <1>1, Invariance, PTL

\* However many students hold a seat, the menu counts them all and cannot be
\* deleted under them (release_seat, menu::delete).
THEOREM SeatsCounted == Spec => []HeldSeatsCounted
  <1>1. IndInv => HeldSeatsCounted
    BY DEF IndInv
  <1> QED BY <1>1, Invariance, PTL

\* Only a claim that finds a seat free counts one, and it does so for the
\* request that holds it.
LEMMA OnlyClaimsCount ==
    ASSUME TypeOK, [Next]_vars, NEW r \in Requests, req[r].pc = "claim",
           req'[r] # req[r], menu # None, menu' # None,
           menu'.seats_booked > menu.seats_booked
    PROVE  /\ SeatFree(req[r])
           /\ menu'.seats_booked = menu.seats_booked + 1
  <1>0. menu \in MenuRow /\ menu.seats_booked \in Nat
    BY DEF TypeOK, MenuRow
  <1>1. menu' # menu
    BY <1>0
  <1>2. \A p \in Requests : \A q : Suspend(p, q) => p = r
    BY DEF Suspend, TypeOK
  <1>3. ClaimMade(r) \/ ClaimDuplicate(r)
    <2>1. ~KitchenStep
      BY DEF KitchenStep, SetCapacity, SetDishes, PublishMenu, DeleteMenu
    <2>2. PICK p \in Requests : BookStep(p) \/ CancelStep(p) \/ Drop(p)
      BY <2>1 DEF Next, vars
    <2>3. ClaimMade(p) \/ ClaimDuplicate(p) \/ Release(p)
      BY <1>1, <2>2 DEF BookStep, CancelStep, Drop, Book, BookMenu, BookRow,
           Replay, Reread, BookPrice, ClaimHeld, ClaimFull, BookWhy,
           CancelRead, CancelCutoff, CancelLost, CancelReverse
    <2>4. p = r
      BY <1>2, <2>3 DEF ClaimMade, ClaimDuplicate, Release, End, NextRound
    <2> QED BY <2>3, <2>4 DEF Release
  <1>4. SeatFree(req[r])
    BY <1>3 DEF ClaimMade, ClaimDuplicate
  <1>5. menu' = [menu EXCEPT !.seats_booked = @ + 1]
    BY <1>3 DEF ClaimMade, ClaimDuplicate
  <1> QED BY <1>0, <1>4, <1>5 DEF MenuRow

\* Within one publication no seat is sold at a stale price or past the cap in
\* force, whatever the kitchen edits between the reads and the claim (book,
\* claim_and_place).
THEOREM ClaimsFresh == Spec => ClaimsAreFresh
  <1>1. IndInv /\ [Next]_vars => [\A r \in Requests : ClaimIsFresh(r)]_vars
    <2> SUFFICES ASSUME IndInv, [Next]_vars, NEW r \in Requests
        PROVE  ClaimIsFresh(r)
      OBVIOUS
    <2> SUFFICES ASSUME req[r].pc = "claim", menu # None, menu' # None,
                        req[r].era = menu.era,
                        menu'.seats_booked > menu.seats_booked,
                        req'[r] # req[r]
        PROVE  /\ req[r].price = PriceSnapshot
               /\ menu'.seats_booked <= menu.capacity
      BY DEF ClaimIsFresh
    <2>1. /\ SeatFree(req[r])
          /\ menu'.seats_booked = menu.seats_booked + 1
      BY OnlyClaimsCount DEF IndInv
    <2>2. req[r].capacity = menu.capacity /\ req[r].price = PriceSnapshot
      BY <2>1 DEF IndInv, FreshInv, FreshOK, SeatFree, Reading, Priced
    <2>3. menu.seats_booked \in Nat /\ menu.capacity \in Nat
      BY MealAssumption DEF IndInv, TypeOK, MenuRow
    <2> QED BY <2>1, <2>2, <2>3 DEF SeatFree
  <1> QED BY <1>1, Invariance, PTL DEF Spec, ClaimsAreFresh
=============================================================================
