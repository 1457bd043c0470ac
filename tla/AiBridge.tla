------------------------------ MODULE AiBridge ------------------------------
(***************************************************************************)
(* The QUIC bridge to the AI services: which workers are connected, which  *)
(* of them gets the next request, and how a request to one ends.           *)
(*                                                                         *)
(* Workers are listed by a handshake and unlisted when their connection    *)
(* task notices it is closed, so for a while a worker may be listed that   *)
(* is already dead.  A call holds a lease on its worker from the pick to   *)
(* its end, whatever end that is.                                          *)
(*                                                                         *)
(* A worker's id is a number: ids are minted in the order of the           *)
(* handshakes.  Handshakes that are refused list nobody and are left out.  *)
(***************************************************************************)
EXTENDS Integers, FiniteSets

CONSTANTS
    MaxWorkers,    \* bound: handshakes ever completed
    MaxConcurrent, \* a worker's max_concurrent, clamped
    Calls,         \* the requests that dispatch
    None           \* no worker

ASSUME BridgeAssumption ==
    /\ MaxWorkers \in Nat /\ MaxConcurrent \in Nat \ {0}
    /\ IsFiniteSet(Calls)
    /\ None \notin 1 .. MaxWorkers

VARIABLES
    worker,    \* per id, the connection and the claims it has withdrawn
    inflight,  \* per id, the worker's own count of requests in flight
    lease      \* per call, the worker it holds a slot of

bridgeVars == <<worker, inflight, lease>>

Ids == 1 .. MaxWorkers
Listed(w) == worker[w].status \in {"live", "dead"}

BridgeInit ==
    /\ worker = [w \in Ids |-> [status |-> "unborn", withdrawn |-> {}]]
    /\ inflight = [w \in Ids |-> 0]
    /\ lease = [c \in Calls |-> None]

\* offers: declared in the Hello and not withdrawn since.
Offers(w, cap) == Listed(w) /\ cap \notin worker[w].withdrawn

\* has_capability, read outside any claim.
HasCapability(cap) == \E w \in Ids : Offers(w, cap)

-----------------------------------------------------------------------------
\* register and insert: the welcome is out, the worker is listed.
Register ==
    /\ \E w \in Ids :
          /\ worker[w].status = "unborn"
          /\ \A v \in 1 .. w - 1 : worker[v].status # "unborn"
          /\ worker' = [worker EXCEPT ![w].status = "live"]
    /\ UNCHANGED <<inflight, lease>>

\* The service dies or the network drops it: nothing here has noticed yet.
Vanish(w) ==
    /\ worker[w].status = "live"
    /\ worker' = [worker EXCEPT ![w].status = "dead"]
    /\ UNCHANGED <<inflight, lease>>

\* serve_connection sees it closed and removes it; a call keeps its lease.
Remove(w) ==
    /\ worker[w].status = "dead"
    /\ worker' = [worker EXCEPT ![w].status = "gone"]
    /\ UNCHANGED <<inflight, lease>>

-----------------------------------------------------------------------------
\* The ceiling a pick respects.
HasRoom(w) == inflight[w] < MaxConcurrent

\* pick: the least loaded worker with room, the newer on a tie.
Candidates(cap) == {w \in Ids : Offers(w, cap) /\ HasRoom(w)}
Picks(w, cap) ==
    /\ w \in Candidates(cap)
    /\ \A v \in Candidates(cap) :
          \/ inflight[w] < inflight[v]
          \/ inflight[w] = inflight[v] /\ w >= v

\* The pick of a dispatch: a lease, in one critical section.
TakeLease(c, w) ==
    /\ lease' = [lease EXCEPT ![c] = w]
    /\ inflight' = [inflight EXCEPT ![w] = @ + 1]
    /\ UNCHANGED worker

\* NoWorker, or Busy.
NobodyPicked(cap) == Candidates(cap) = {}

\* Variant: a call that timed out forgets its lease.
FreedOnReply(how) == how # "timeout"

\* The ways a call can end that give its slot back: all of them.
Freed(how) == how \in {"reply", "error", "refused", "mismatch", "transport", "timeout"}

\* The call is over and the lease is dropped; a worker that denies a name it
\* advertised loses that claim, if it is still listed.
EndCall(c, cap, how) ==
    LET w == lease[c]
    IN /\ lease' = [lease EXCEPT ![c] = None]
       /\ inflight' = IF Freed(how) THEN [inflight EXCEPT ![w] = @ - 1]
                      ELSE inflight
       /\ worker' = IF how = "refused" /\ Listed(w)
                    THEN [worker EXCEPT ![w].withdrawn = @ \cup {cap}]
                    ELSE worker

\* What may end it: an answer or a refusal needs a live worker, a transport
\* error a dead one, the deadline nothing.
MayEnd(c, how) ==
    /\ lease[c] # None
    /\ \/ how \in {"reply", "error", "refused", "mismatch"}
          /\ worker[lease[c]].status = "live"
       \/ how = "transport" /\ worker[lease[c]].status # "live"
       \/ how = "timeout"

\* The process stops and comes back: the registry is memory.
Forget ==
    /\ worker' = [w \in Ids |->
          IF worker[w].status = "unborn" THEN worker[w]
          ELSE [status |-> "gone", withdrawn |-> {}]]
    /\ inflight' = [w \in Ids |-> 0]
    /\ lease' = [c \in Calls |-> None]

-----------------------------------------------------------------------------
Capabilities == {"podcast.submit", "podcast.cancel", "chat.reply", "rag.chat"}

BridgeTypeOK ==
    /\ worker \in [Ids -> [status : {"unborn", "live", "dead", "gone"},
                          withdrawn : SUBSET Capabilities]]
    /\ inflight \in [Ids -> Int]
    /\ lease \in [Calls -> Ids \cup {None}]

\* A worker's count is the number of calls that hold a slot of it, and never
\* over its ceiling, however a call ends and whether or not the worker is still
\* there (pick, Lease::drop, dispatch_with_timeout).
SlotsExact ==
    \A w \in Ids :
        /\ inflight[w] = Cardinality({c \in Calls : lease[c] = w})
        /\ inflight[w] <= MaxConcurrent
=============================================================================
