----------------------------- MODULE MealBooking -----------------------------
(***************************************************************************)
(* Seats on one meal's menu, and the money that follows them.  Students    *)
(* and parents book and cancel, staff cancel past the cutoff, while the    *)
(* kitchen changes capacity and dishes, unpublishes the menu and publishes *)
(* it again under the same key.                                            *)
(*                                                                         *)
(* Every await is a step boundary, and what a request read is kept in its  *)
(* record.  claim_and_place is two steps: its first statement locks        *)
(* nothing, and from its seat UPDATE on it holds the menu row.  A          *)
(* release_seat takes the booking row and then the menu row; where it      *)
(* meets a claim the two wait in a cycle, which Postgres breaks and        *)
(* tx_with_retry runs again, so it is one step.                            *)
(*                                                                         *)
(* A seat's price is the sum of its dishes; a dish write is a new sum.     *)
(* Whether the day or the cutoff has passed is an input.                   *)
(* Who may book for whom, dietary tags, attendance marks, the meal slot's  *)
(* reference and credits paid in are left out.                             *)
(***************************************************************************)
EXTENDS Integers, FiniteSets

CONSTANTS
    Students,
    Requests,      \* booking and cancelling requests in flight
    Capacities,    \* the seat caps the kitchen sets
    Prices,        \* the sums its dishes come to (0: a free menu)
    MaxAttempts,   \* MAX_MEAL_BOOKING_ATTEMPTS
    MaxVersion,    \* bound: edits of one publication
    MaxPublished,  \* bound: publications
    Tries,         \* CAP_WRITE_TRIES
    None           \* no row, no line, no price

ASSUME MealAssumption ==
    /\ IsFiniteSet(Students)
    /\ Capacities \subseteq Nat \ {0}
    /\ Prices \subseteq Nat /\ None \notin Prices
    /\ MaxAttempts \in Nat \ {0}
    /\ MaxVersion \in Nat
    /\ MaxPublished \in Nat \ {0}
    /\ Tries \in Nat \ {0}

Attempts == 1 .. MaxAttempts

\* The menu row.  era tells one publication from the next; no statement
\* reads it.
MenuRow ==
    [capacity : Capacities, seats_booked : Nat, version : Nat,
     price : Prices \cup {0}, era : Nat]

BookingRow ==
    [status : {"booked", "cancelled"}, attempt : Attempts,
     price_minor : Prices \cup {None}]

\* An absent row is no row.
ASSUME NoneAssumption == None \notin MenuRow /\ None \notin BookingRow

VARIABLES
    menu,      \* the menu row with its dishes' sum, or None
    booking,   \* meal_booking: student -> row or None
    charge,    \* meal_ledger, charges: student -> attempt -> amount or None
    reversal,  \* meal_ledger, reversals: student -> attempt -> amount or None
    req,       \* per request, where it is suspended and what it read
    published  \* how often the menu has been published (bounds the model)

ledger == <<charge, reversal>>
vars   == <<menu, booking, ledger, req, published>>

\* A request: suspended at pc, with the locals that are still needed there.
Idle == [pc |-> "idle"]

RoundRequest ==
    [pc : {"menu", "reread"}, user : Students, left : 1 .. Tries]
RowRequest ==
    [pc : {"row"}, user : Students, left : 1 .. Tries, capacity : Capacities,
     version : Nat, era : Nat]
ReplayRequest ==
    [pc : {"replay"}, user : Students, left : 1 .. Tries, held : BookingRow]
PriceRequest ==
    [pc : {"price"}, user : Students, left : 1 .. Tries, capacity : Capacities,
     version : Nat, era : Nat, attempt : Attempts]
ClaimRequest ==
    [pc : {"held", "claim", "why"}, user : Students, left : 1 .. Tries,
     capacity : Capacities, version : Nat, era : Nat, attempt : Attempts,
     price : Prices \cup {None}]
CancelRequest ==
    [pc : {"cutoff", "release", "lost", "reverse"}, user : Students,
     row : BookingRow]

Request ==
    {Idle} \cup RoundRequest \cup RowRequest \cup ReplayRequest
    \cup PriceRequest \cup ClaimRequest \cup CancelRequest

Booked(u) == booking[u] # None /\ booking[u].status = "booked"

\* price_snapshot: what a seat costs now; a sum of 0 is no price at all, and so
\* is the sum over a menu that is gone.  (A sum past the chargeable maximum ends
\* the request, as Drop does.)
PriceSnapshot == IF menu = None \/ menu.price = 0 THEN None ELSE menu.price

\* append: a line whose id is taken is left exactly as it is, and a booking
\* without a price has no line.
AppendLine(lines, u, n, amount) ==
    IF amount = None \/ lines[u][n] # None THEN lines
    ELSE [lines EXCEPT ![u][n] = amount]

Suspend(r, q) == req' = [req EXCEPT ![r] = q]
End(r)        == Suspend(r, Idle)

-----------------------------------------------------------------------------
(* POST /menus/{id}/bookings *)

Book(r, u) ==
    /\ req[r] = Idle
    /\ Suspend(r, [pc |-> "menu", user |-> u, left |-> Tries])
    /\ UNCHANGED <<menu, booking, ledger, published>>

\* Another round of book's loop, or 409 when the rounds are spent.
NextRound(r) ==
    IF req[r].left = 1 THEN End(r)
    ELSE Suspend(r, [pc |-> "menu", user |-> req[r].user,
                     left |-> req[r].left - 1])

\* book: the menu is read; its capacity and revision are kept for the claim.
\* inTime is the verdict of check_day_not_past and check_cutoff.
BookMenu(r, inTime) ==
    /\ req[r].pc = "menu"
    /\ IF menu # None /\ inTime
       THEN Suspend(r, [pc |-> "row", user |-> req[r].user,
                        left |-> req[r].left, capacity |-> menu.capacity,
                        version |-> menu.version, era |-> menu.era])
       ELSE End(r)
    /\ UNCHANGED <<menu, booking, ledger, published>>

\* The attempt a claim is made for.
NextAttempt(u) == IF booking[u] = None THEN 1 ELSE booking[u].attempt + 1

\* book: the student's row.  A held seat is replayed; otherwise the attempt is
\* minted here, up to the ceiling.
BookRow(r) ==
    /\ req[r].pc = "row"
    /\ LET q == req[r]
           u == q.user
       IN IF Booked(u)
          THEN Suspend(r, [pc |-> "replay", user |-> u, left |-> q.left,
                           held |-> booking[u]])
          ELSE IF NextAttempt(u) > MaxAttempts THEN End(r)
          ELSE Suspend(r, [pc |-> "price", user |-> u, left |-> q.left,
                           capacity |-> q.capacity, version |-> q.version,
                           era |-> q.era, attempt |-> NextAttempt(u)])
    /\ UNCHANGED <<menu, booking, ledger, published>>

\* charge_booking on the held row that was read.
Replay(r) ==
    /\ req[r].pc = "replay"
    /\ LET q == req[r]
       IN charge' = AppendLine(charge, q.user, q.held.attempt, q.held.price_minor)
    /\ Suspend(r, [pc |-> "reread", user |-> req[r].user,
                   left |-> req[r].left])
    /\ UNCHANGED <<menu, booking, reversal, published>>

\* book answers off a re-read; a seat released meanwhile is another round.
Reread(r) ==
    /\ req[r].pc = "reread"
    /\ IF Booked(req[r].user) THEN End(r) ELSE NextRound(r)
    /\ UNCHANGED <<menu, booking, ledger, published>>

BookPrice(r) ==
    /\ req[r].pc = "price"
    /\ LET q == req[r]
       IN Suspend(r, [pc |-> "held", user |-> q.user, left |-> q.left,
                      capacity |-> q.capacity, version |-> q.version,
                      era |-> q.era, attempt |-> q.attempt,
                      price |-> PriceSnapshot])
    /\ UNCHANGED <<menu, booking, ledger, published>>

\* claim_and_place, first statement: a held seat claims nothing.
ClaimHeld(r) ==
    /\ req[r].pc = "held"
    /\ IF Booked(req[r].user) THEN NextRound(r)
       ELSE Suspend(r, [req[r] EXCEPT !.pc = "claim"])
    /\ UNCHANGED <<menu, booking, ledger, published>>

\* Variant: the seat is claimed whatever the menu's revision.
SeatFreeAnyVersion(q) == menu # None /\ menu.seats_booked < q.capacity

\* The seat UPDATE's WHERE: room under the cap that was read, at the revision
\* it was read at.
SeatFree(q) ==
    /\ menu # None
    /\ menu.seats_booked < q.capacity
    /\ menu.version = q.version

\* The revival, fenced on the attempt before this one, or the insert, which
\* finds the key free.
Placeable(q) ==
    booking[q.user] # None =>
        /\ booking[q.user].status = "cancelled"
        /\ booking[q.user].attempt = q.attempt - 1

\* The seat is taken: counter, row and charge commit together.
ClaimMade(r) ==
    /\ req[r].pc = "claim"
    /\ LET q == req[r]
       IN /\ SeatFree(q) /\ Placeable(q)
          /\ menu' = [menu EXCEPT !.seats_booked = @ + 1]
          /\ booking' = [booking EXCEPT ![q.user] =
                           [status |-> "booked", attempt |-> q.attempt,
                            price_minor |-> q.price]]
          /\ charge' = AppendLine(charge, q.user, q.attempt, q.price)
    /\ End(r)
    /\ UNCHANGED <<reversal, published>>

\* The seat was counted and then the row found taken: Ok(Duplicate), on which
\* tx_with_retry commits, the counter's step included.
ClaimDuplicate(r) ==
    /\ req[r].pc = "claim"
    /\ SeatFree(req[r]) /\ ~Placeable(req[r])
    /\ menu' = [menu EXCEPT !.seats_booked = @ + 1]
    /\ NextRound(r)
    /\ UNCHANGED <<booking, ledger, published>>

\* No seat: the caller's own seat won elsewhere is a duplicate, otherwise the
\* reason is read next.
ClaimFull(r) ==
    /\ req[r].pc = "claim"
    /\ ~SeatFree(req[r])
    /\ IF Booked(req[r].user) THEN NextRound(r)
       ELSE Suspend(r, [req[r] EXCEPT !.pc = "why"])
    /\ UNCHANGED <<menu, booking, ledger, published>>

\* Full, moved or gone: only a moved menu is tried again.
BookWhy(r) ==
    /\ req[r].pc = "why"
    /\ IF menu # None /\ menu.version # req[r].version
       THEN NextRound(r) ELSE End(r)
    /\ UNCHANGED <<menu, booking, ledger, published>>

-----------------------------------------------------------------------------
(* DELETE /bookings/{id} *)

\* cancel: the row is read afresh; a cancelled one only has its reversal
\* replayed.
CancelRead(r, u) ==
    /\ req[r] = Idle
    /\ booking[u] # None
    /\ Suspend(r, [pc |-> IF Booked(u) THEN "cutoff" ELSE "reverse",
                   user |-> u, row |-> booking[u]])
    /\ UNCHANGED <<menu, booking, ledger, published>>

\* cancel: the menu is read for its cutoff, which binds no manager; inTime is
\* check_cutoff's verdict.
CancelCutoff(r, inTime) ==
    /\ req[r].pc = "cutoff"
    /\ IF menu # None /\ inTime
       THEN Suspend(r, [req[r] EXCEPT !.pc = "release"])
       ELSE End(r)
    /\ UNCHANGED <<menu, booking, ledger, published>>

\* Variant: the flip matches any booked attempt.
FlipsAnyAttempt(q) == Booked(q.user)

\* The flip's WHERE: still the booked attempt this call read.
Flips(q) == Booked(q.user) /\ booking[q.user].attempt = q.row.attempt

\* GREATEST(seats_booked - 1, 0)
GiveBack(n) == IF n = 0 THEN 0 ELSE n - 1

\* The reversal of q's row, when the charge it undoes is there.
Refund(q) ==
    IF charge[q.user][q.row.attempt] = None THEN reversal
    ELSE AppendLine(reversal, q.user, q.row.attempt, q.row.price_minor)

\* release_seat: the flip, the counter and the refund in one transaction.
Release(r) ==
    /\ req[r].pc = "release"
    /\ LET q == req[r]
       IN IF Flips(q)
          THEN /\ booking' = [booking EXCEPT ![q.user].status = "cancelled"]
               /\ menu' = IF menu = None THEN None
                          ELSE [menu EXCEPT !.seats_booked = GiveBack(@)]
               /\ reversal' = Refund(q)
               /\ Suspend(r, [q EXCEPT !.pc = "reverse",
                                       !.row = booking'[q.user]])
          ELSE /\ Suspend(r, [q EXCEPT !.pc = "lost"])
               /\ UNCHANGED <<menu, booking, reversal>>
    /\ UNCHANGED <<charge, published>>

\* refundable_after_lost_flip: the very attempt, cancelled by somebody else.
RefundableAfterLostFlip(seen, live) ==
    live.status = "cancelled" /\ live.attempt = seen.attempt

\* A lost flip: the row is read again.
CancelLost(r) ==
    /\ req[r].pc = "lost"
    /\ LET q == req[r]
       IN IF RefundableAfterLostFlip(q.row, booking[q.user])
          THEN Suspend(r, [q EXCEPT !.pc = "reverse", !.row = booking[q.user]])
          ELSE End(r)
    /\ UNCHANGED <<menu, booking, ledger, published>>

\* reverse_booking on the row that was read.
CancelReverse(r) ==
    /\ req[r].pc = "reverse"
    /\ reversal' = Refund(req[r])
    /\ End(r)
    /\ UNCHANGED <<menu, booking, charge, published>>

-----------------------------------------------------------------------------
(* The kitchen. *)

\* menu::update: capacity and revision in one statement.
SetCapacity(c) ==
    /\ menu # None /\ menu.version < MaxVersion
    /\ menu' = [menu EXCEPT !.capacity = c, !.version = @ + 1]
    /\ UNCHANGED <<booking, ledger, req, published>>

\* A dish added, edited or removed: a new sum and a new revision.
SetDishes(p) ==
    /\ menu # None /\ menu.version < MaxVersion
    /\ menu' = [menu EXCEPT !.price = p, !.version = @ + 1]
    /\ UNCHANGED <<booking, ledger, req, published>>

\* Variant: the menu goes while seats are held.
DeletableAlways == menu # None

\* The guard of menu::delete, on the locked row.
Deletable == menu # None /\ menu.seats_booked = 0

\* menu::delete: the dishes go with the menu, the bookings stay.
DeleteMenu ==
    /\ Deletable
    /\ menu' = None
    /\ UNCHANGED <<booking, ledger, req, published>>

\* menu::create: the key is the day and slot, so this is the same menu again,
\* empty, at revision 0.
PublishMenu(c) ==
    /\ menu = None /\ published < MaxPublished
    /\ published' = published + 1
    /\ menu' = [capacity |-> c, seats_booked |-> 0, version |-> 0, price |-> 0,
                era |-> published']
    /\ UNCHANGED <<booking, ledger, req>>

\* The process restarts, or a client hangs up and its handler is dropped.
Drop(r) ==
    /\ req[r] # Idle
    /\ End(r)
    /\ UNCHANGED <<menu, booking, ledger, published>>

-----------------------------------------------------------------------------
Init ==
    /\ menu = None
    /\ booking = [u \in Students |-> None]
    /\ charge = [u \in Students |-> [n \in Attempts |-> None]]
    /\ reversal = [u \in Students |-> [n \in Attempts |-> None]]
    /\ req = [r \in Requests |-> Idle]
    /\ published = 0

BookStep(r) ==
    \/ \E u \in Students : Book(r, u)
    \/ \E inTime \in BOOLEAN : BookMenu(r, inTime)
    \/ BookRow(r) \/ Replay(r) \/ Reread(r) \/ BookPrice(r)
    \/ ClaimHeld(r) \/ ClaimMade(r) \/ ClaimDuplicate(r) \/ ClaimFull(r)
    \/ BookWhy(r)

CancelStep(r) ==
    \/ \E u \in Students : CancelRead(r, u)
    \/ \E inTime \in BOOLEAN : CancelCutoff(r, inTime)
    \/ Release(r) \/ CancelLost(r) \/ CancelReverse(r)

KitchenStep ==
    \/ \E c \in Capacities : SetCapacity(c) \/ PublishMenu(c)
    \/ \E p \in Prices : SetDishes(p)
    \/ DeleteMenu

Next ==
    \/ \E r \in Requests : BookStep(r) \/ CancelStep(r) \/ Drop(r)
    \/ KitchenStep

Spec == Init /\ [][Next]_vars

-----------------------------------------------------------------------------
(* What booking promises. *)

\* Every variable keeps its shape: no seat is given back below zero, no attempt
\* passes the ceiling, and a booking ends within its rounds (book).
TypeOK ==
    /\ menu \in MenuRow \cup {None}
    /\ booking \in [Students -> BookingRow \cup {None}]
    /\ charge \in [Students -> [Attempts -> Prices \cup {None}]]
    /\ reversal \in [Students -> [Attempts -> Prices \cup {None}]]
    /\ req \in [Requests -> Request]
    /\ published \in 0 .. MaxPublished

\* The money follows the seat, attempt by attempt: the current attempt is
\* charged what its row says, every earlier one and a cancelled current one is
\* refunded exactly what it was charged, and nothing else is on the ledger,
\* whatever cancels, re-books, replays and dropped handlers collide
\* (claim_and_place, release_seat, cancel, book).
LedgerExact ==
    \A u \in Students, n \in Attempts :
        LET last == IF booking[u] = None THEN 0 ELSE booking[u].attempt
        IN /\ n = last => charge[u][n] = booking[u].price_minor
           /\ n > last => charge[u][n] = None
           /\ reversal[u][n] =
                IF n = last /\ Booked(u) THEN None ELSE charge[u][n]

\* Every held seat is counted on a menu that is there: a seat given back twice,
\* or a delete slipping past a booking, would break it (release_seat,
\* menu::delete).
Held == {u \in Students : Booked(u)}

HeldSeatsCounted ==
    /\ Held # {} => menu # None
    /\ menu # None => Cardinality(Held) <= menu.seats_booked

\* Within one publication a seat is only taken at the price the menu carries
\* and under the cap it has at that instant, although both were read several
\* awaits earlier (the revision in the seat UPDATE).
ClaimIsFresh(r) ==
    ( /\ req[r].pc = "claim" /\ menu # None /\ menu' # None
      /\ req[r].era = menu.era /\ menu'.seats_booked > menu.seats_booked
      /\ req'[r] # req[r] )
    => /\ req[r].price = PriceSnapshot
       /\ menu'.seats_booked <= menu.capacity

ClaimsAreFresh == [][\A r \in Requests : ClaimIsFresh(r)]_vars
=============================================================================
