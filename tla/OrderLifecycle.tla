--------------------------- MODULE OrderLifecycle ---------------------------
(***************************************************************************)
(* The life of a live order in sportsbot: the executor                     *)
(* (sportsbot/bot/executor.py) driven by the runner's loop                 *)
(* (sportsbot/bot/runner.py), the venue the order rests on, and the        *)
(* `orders` and `bets` tables that survive the process.                    *)
(*                                                                         *)
(* The executor is single threaded, but the venue is not: between any two  *)
(* of its calls the venue may fill, expire or cancel an order.  Every      *)
(* network call and every committed database write is therefore a step of  *)
(* its own, so that venue events and crashes fall between them.            *)
(*                                                                         *)
(* Sizes are counted in contracts.  `open` and `partial` rows are handled  *)
(* alike everywhere (open_orders_rows, RESTING_STATUSES) and are written   *)
(* "resting" here.                                                         *)
(***************************************************************************)
EXTENDS Integers

CONSTANTS
    Orders,           \* client ids; each stands for one BetIntent
    Size,             \* contracts per order
    MaxFinalLookups,  \* MAX_FINAL_LOOKUPS
    MaxCrashes,       \* bound: how often the process dies without a shutdown
    HasGetOrder,      \* the client can look up one order (Kalshi can)
    ListingFails,     \* get_open_orders may fail
    SwallowsListing,  \* ... and the client answers [] instead of raising
    RepliesLost       \* a call may take effect although its reply is lost

ASSUME LifecycleAssumption ==
    /\ Size \in Nat \ {0}
    /\ MaxFinalLookups \in Nat \ {0}
    /\ MaxCrashes \in Nat
    /\ {HasGetOrder, ListingFails, SwallowsListing, RepliesLost} \subseteq BOOLEAN

VARIABLES
    (* the venue *)
    vstat,    \* "none" before placement, "open" while resting, then "gone"
    vfill,    \* contracts the venue has filled
    (* the database *)
    row,      \* the orders table: status and filled of each client id
    bets,     \* contracts on the bets rows of each order
    (* the process *)
    trk,      \* Executor._open
    pc,       \* what the main thread is doing
    cur,      \* the order in hand
    pend,     \* the order row it is about to write
    todo,     \* orders the current loop has still to visit
    listing,  \* the answer of get_open_orders the current loop works from
    (* time and failures *)
    stale,    \* orders older than the TTL
    crashes,
    (* history *)
    torn,     \* a crash cut the handling of this order in two
    blind,    \* declared gone on a failed listing while it was resting
    lost,     \* accepted by the venue, rejected for the process
    retired   \* which handler closed the order's row

venue   == <<vstat, vfill>>
db      == <<row, bets>>
loop    == <<todo, listing>>
hand    == <<cur, pend>>
history == <<torn, blind, lost, retired>>
vars    == <<vstat, vfill, row, bets, trk, pc, cur, pend, todo, listing,
             stale, crashes, torn, blind, lost, retired>>

Absent == -1          \* not in a listing; or: get_order gave no answer
Fill   == 0 .. Size

RowStatus == {"none", "resting", "filled", "canceled", "rejected"}
Closed    == {"filled", "canceled", "rejected"}
OrderRow   == [status : RowStatus, filled : Fill]
TrackEntry == [on : BOOLEAN, filled : Fill, booked : Fill, misses : Nat]
NoRow     == [status |-> "none", filled |-> 0]
Untracked == [on |-> FALSE, filled |-> 0, booked |-> 0, misses |-> 0]

Open    == {o \in Orders : trk[o].on}

\* The rows a start still has to deal with.  Unfinished also takes canceled ones.
Unfinished == {o \in Orders : row[o].status \in {"resting", "canceled"}}
Resting    == {o \in Orders : row[o].status = "resting"}

\* The program points at which the process holds an order whose row it has
\* still to write.
Saving  == {"persist", "book", "syncsave", "closesave", "expiresave",
            "stopsave", "restorecancel", "restoresave", "sweepsave"}
InHand(o) == cur = o /\ pc \in Saving

\* The fill to save: the venue's answer when it shows more than the row has.
\* LookupOnly is the same with the comparison forgotten.
LookupOnly(final, saved) == final
FillKnown(final, saved)  == IF final > saved THEN final ELSE saved
-----------------------------------------------------------------------------
Init ==
    /\ vstat = [o \in Orders |-> "none"]
    /\ vfill = [o \in Orders |-> 0]
    /\ row = [o \in Orders |-> NoRow]
    /\ bets = [o \in Orders |-> 0]
    /\ trk = [o \in Orders |-> Untracked]
    /\ pc = "down"
    /\ cur \in Orders
    /\ pend = NoRow
    /\ todo = {}
    /\ listing = [o \in Orders |-> Absent]
    /\ stale = {}
    /\ crashes = 0
    /\ torn = {} /\ blind = {} /\ lost = {}
    /\ retired = [o \in Orders |-> "no"]
-----------------------------------------------------------------------------
(* The venue and the clock. *)

\* A resting order trades one contract; a complete order leaves the book.
VenueFill(o) ==
    /\ vstat[o] = "open"
    /\ vfill' = [vfill EXCEPT ![o] = @ + 1]
    /\ vstat' = [vstat EXCEPT ![o] = IF vfill[o] + 1 = Size THEN "gone" ELSE @]
    /\ UNCHANGED <<db, trk, pc, hand, loop, stale, crashes, history>>

\* The venue's own expiry (venue_expiry), or a cancel by the venue.  With
\* NoExpiry the order is sent without one.
NoExpiry(o) == FALSE

VenueDrop(o) ==
    /\ vstat[o] = "open"
    /\ vstat' = [vstat EXCEPT ![o] = "gone"]
    /\ UNCHANGED <<vfill, db, trk, pc, hand, loop, stale, crashes, history>>

TtlPasses(o) ==
    /\ vstat[o] # "none" /\ o \notin stale
    /\ stale' = stale \union {o}
    /\ UNCHANGED <<venue, db, trk, pc, hand, loop, crashes, history>>

\* What cancel_order may have done to the venue when it reports failure, and
\* what it did when it reports success.  A finished order may be refused.
CancelFails(o) ==
    \/ UNCHANGED vstat
    \/ RepliesLost /\ vstat' = [vstat EXCEPT ![o] = "gone"]
CancelSucceeds(o) == vstat' = [vstat EXCEPT ![o] = "gone"]

\* What get_open_orders answers when it works, and when it fails silently.
HonestListing == [o \in Orders |-> IF vstat[o] = "open" THEN vfill[o] ELSE Absent]
EmptyListing  == [o \in Orders |-> Absent]

\* What a lookup of one order may answer.  LookupsWithoutFill leaves the fill
\* out of the order it parses.
LookupsWithoutFill(o) == IF HasGetOrder THEN {Absent, 0} ELSE {Absent}

Lookups(o) == IF HasGetOrder THEN {Absent, vfill[o]} ELSE {Absent}
-----------------------------------------------------------------------------
(* Executor.submit: place the order, persist it, book what filled at once,  *)
(* then track the rest.                                                     *)

Refused(o) ==
    /\ vstat' = [vstat EXCEPT ![o] = "gone"]
    /\ pend' = [status |-> "rejected", filled |-> 0]
    /\ UNCHANGED <<vfill, lost>>

Accepted(o) ==
    \E f \in Fill :
        /\ vstat' = [vstat EXCEPT ![o] = IF f = Size THEN "gone" ELSE "open"]
        /\ vfill' = [vfill EXCEPT ![o] = f]
        /\ \/ /\ pend' = [status |-> IF f = Size THEN "filled" ELSE "resting",
                          filled |-> f]
              /\ UNCHANGED lost
           \/ /\ RepliesLost
              /\ pend' = [status |-> "rejected", filled |-> 0]
              /\ lost' = lost \union {o}

Place(o) ==
    /\ pc = "trade" /\ vstat[o] = "none"
    /\ Refused(o) \/ Accepted(o)
    /\ cur' = o
    /\ pc' = "persist"
    /\ UNCHANGED <<db, trk, loop, stale, crashes, torn, blind, retired>>

\* submit books the first fill before it tracks the rest.  TrackUnbooked does
\* not remember that it did.
TrackUnbooked(o) == trk' = [trk EXCEPT ![o] = [on |-> TRUE, filled |-> pend.filled,
                                               booked |-> 0, misses |-> 0]]
Track(o) == trk' = [trk EXCEPT ![o] = [on |-> TRUE, filled |-> pend.filled,
                                       booked |-> pend.filled, misses |-> 0]]

Persist ==
    /\ pc = "persist"
    /\ row' = [row EXCEPT ![cur] = pend]
    /\ pc' = IF pend.filled > 0 THEN "book" ELSE "trade"
    /\ IF pend.filled = 0 /\ pend.status = "resting" THEN Track(cur) ELSE UNCHANGED trk
    /\ UNCHANGED <<venue, bets, hand, loop, stale, crashes, history>>

Book ==
    /\ pc = "book"
    /\ bets' = [bets EXCEPT ![cur] = @ + pend.filled]
    /\ pc' = "trade"
    /\ IF pend.status = "resting" THEN Track(cur) ELSE UNCHANGED trk
    /\ UNCHANGED <<venue, row, hand, loop, stale, crashes, history>>
-----------------------------------------------------------------------------
(* Executor.reconcile_open_orders.                                          *)

\* One listing serves the whole pass.  A client that raises ends the pass; a
\* client that swallows the failure hands over an empty listing.
ListOpenOrders ==
    /\ pc = "reconcile"
    /\ \/ /\ Open = {} \/ (ListingFails /\ ~SwallowsListing)
          /\ pc' = "gate"
          /\ UNCHANGED loop
       \/ /\ Open # {}
          /\ listing' = HonestListing \/ (ListingFails /\ SwallowsListing /\ listing' = EmptyListing)
          /\ todo' = Open
          /\ pc' = "sync"
    /\ UNCHANGED <<venue, db, trk, hand, stale, crashes, history>>

\* Still resting: book what it filled since, then save the row.
SyncListed(o) ==
    /\ pc = "sync" /\ o \in todo /\ listing[o] # Absent
    /\ IF listing[o] > trk[o].filled
       THEN /\ trk' = [trk EXCEPT ![o].filled = listing[o], ![o].booked = listing[o]]
            /\ bets' = [bets EXCEPT ![o] = @ + listing[o] - trk[o].booked]
            /\ cur' = o
            /\ pend' = [status |-> "resting", filled |-> listing[o]]
            /\ pc' = "syncsave"
            /\ UNCHANGED todo
       ELSE /\ todo' = todo \ {o}
            /\ UNCHANGED <<trk, bets, hand, pc>>
    /\ UNCHANGED <<venue, row, listing, stale, crashes, history>>

SyncSkipsSave ==
    /\ pc = "syncsave"
    /\ todo' = todo \ {cur}
    /\ pc' = "sync"
    /\ UNCHANGED <<venue, db, trk, hand, listing, stale, crashes, history>>

SyncSave ==
    /\ pc = "syncsave"
    /\ row' = [row EXCEPT ![cur] = pend]
    /\ todo' = todo \ {cur}
    /\ pc' = "sync"
    /\ UNCHANGED <<venue, bets, trk, hand, listing, stale, crashes, history>>

\* Left the book, and the final lookup failed: ask again in the next cycle.
\* LookupForever does not count its misses.
LookupForever(o) ==
    /\ pc = "sync" /\ o \in todo /\ listing[o] = Absent
    /\ HasGetOrder
    /\ todo' = todo \ {o}
    /\ UNCHANGED <<venue, db, trk, pc, hand, listing, stale, crashes, history>>

LookupAgain(o) ==
    /\ pc = "sync" /\ o \in todo /\ listing[o] = Absent
    /\ HasGetOrder
    /\ trk[o].misses + 1 < MaxFinalLookups
    /\ trk' = [trk EXCEPT ![o].misses = @ + 1]
    /\ todo' = todo \ {o}
    /\ UNCHANGED <<venue, db, pc, hand, listing, stale, crashes, history>>

\* Left the book: book the final fill if it is known, then close the row.
LeftBook(o) ==
    /\ pc = "sync" /\ o \in todo /\ listing[o] = Absent
    /\ \E final \in Lookups(o) :
        /\ (final = Absent /\ HasGetOrder) => trk[o].misses + 1 >= MaxFinalLookups
        /\ LET known == FillKnown(final, trk[o].filled) IN
             /\ trk' = [trk EXCEPT ![o].filled = known, ![o].booked = known]
             /\ bets' = [bets EXCEPT ![o] = @ + known - trk[o].booked]
             /\ pend' = [status |-> IF final = Size THEN "filled" ELSE "canceled",
                         filled |-> known]
        /\ retired' = [retired EXCEPT ![o] = IF final = Absent THEN "gaveup" ELSE "lookup"]
    /\ cur' = o
    /\ pc' = "closesave"
    /\ blind' = IF vstat[o] = "open" THEN blind \union {o} ELSE blind
    /\ UNCHANGED <<venue, row, loop, stale, crashes, torn, lost>>

LeaveTracked(o) == UNCHANGED trk
Untrack(o)      == trk' = [trk EXCEPT ![o] = Untracked]

\* The row that ends an order's life in the tracker.
SaveAndPop(from, to) ==
    /\ pc = from
    /\ row' = [row EXCEPT ![cur] = pend]
    /\ Untrack(cur)
    /\ todo' = todo \ {cur}
    /\ pc' = to
    /\ UNCHANGED <<venue, bets, hand, listing, stale, crashes, history>>

CloseSave == SaveAndPop("closesave", "sync")

LoopDone(from, to) ==
    /\ pc = from /\ todo = {}
    /\ pc' = to
    /\ UNCHANGED <<venue, db, trk, hand, loop, stale, crashes, history>>
-----------------------------------------------------------------------------
(* Executor.expire_stale_orders and Executor.cancel_all_resting.            *)

CancelTracked(o, here, save) ==
    /\ pc = here /\ o \in todo
    /\ \/ /\ CancelSucceeds(o)
          /\ cur' = o
          /\ pend' = [status |-> "canceled", filled |-> trk[o].filled]
          /\ retired' = [retired EXCEPT ![o] = "cancel"]
          /\ pc' = save
          /\ UNCHANGED todo
       \/ /\ CancelFails(o)
          /\ todo' = todo \ {o}
          /\ UNCHANGED <<pc, hand, retired>>
    /\ UNCHANGED <<vfill, db, trk, listing, stale, crashes, torn, blind, lost>>

ExpireStale(o) == CancelTracked(o, "expire", "expiresave")
ExpireSave     == SaveAndPop("expiresave", "expire")
StopCancel(o)  == CancelTracked(o, "stop", "stopsave")
StopSave       == SaveAndPop("stopsave", "stop")
-----------------------------------------------------------------------------
(* Runner.cycle and Runner.run_forever.                                     *)

Goto(from, to) ==
    /\ pc = from
    /\ pc' = to
    /\ UNCHANGED <<venue, db, trk, hand, loop, stale, crashes, history>>

GatePasses  == Goto("gate", "trade")
GateBlocks  == Goto("gate", "wait")      \* check_global said no: return
CycleRaises == Goto("trade", "wait")     \* caught by run_forever
NextCycle   == Goto("wait", "reconcile")

StartLoop(from, to, visit) ==
    /\ pc = from
    /\ pc' = to
    /\ todo' = visit
    /\ UNCHANGED <<venue, db, trk, hand, listing, stale, crashes, history>>

EndTrade    == StartLoop("trade", "expire", Open \intersect stale)
Stop        == StartLoop("wait", "stop", Open)          \* SIGTERM
Start       == StartLoop("down", "restore", Resting)

ProcessGone ==
    /\ pc' = "down"
    /\ trk' = [o \in Orders |-> Untracked]
    /\ todo' = {}
    /\ listing' = EmptyListing

Exit ==
    /\ pc = "stop" /\ todo = {}
    /\ ProcessGone
    /\ UNCHANGED <<venue, db, hand, stale, crashes, history>>

\* Between the points below a crash loses nothing the next start cannot see.
Tears == {"persist", "book", "syncsave", "closesave", "restorecancel", "restoresave"}

Crash ==
    /\ pc # "down" /\ crashes < MaxCrashes
    /\ crashes' = crashes + 1
    /\ torn' = IF pc \in Tears THEN torn \union {cur} ELSE torn
    /\ ProcessGone
    /\ UNCHANGED <<venue, db, hand, stale, blind, lost, retired>>
-----------------------------------------------------------------------------
(* Executor.restore_open_orders: book what filled while we were away, cancel *)
(* the remainder, save the row.                                              *)

RestoreLookup(o) ==
    /\ pc = "restore" /\ o \in todo
    /\ \E final \in Lookups(o) :
        LET known == FillKnown(final, row[o].filled) IN
          /\ bets' = [bets EXCEPT ![o] = @ + known - row[o].filled]
          /\ pend' = [status |-> IF final = Size THEN "filled" ELSE "canceled",
                      filled |-> known]
          /\ pc' = IF final = Size THEN "restoresave" ELSE "restorecancel"
    /\ cur' = o
    /\ UNCHANGED <<venue, row, trk, loop, stale, crashes, history>>

\* A cancel that fails leaves the row resting, to be "retried next start".
RestoreCancel ==
    /\ pc = "restorecancel"
    /\ \/ CancelSucceeds(cur) /\ UNCHANGED pend
       \/ CancelFails(cur) /\ pend' = [pend EXCEPT !.status = "resting"]
    /\ pc' = "restoresave"
    /\ UNCHANGED <<vfill, db, trk, cur, loop, stale, crashes, history>>

RestoreSave ==
    /\ pc = "restoresave"
    /\ row' = [row EXCEPT ![cur] = pend]
    /\ retired' = [retired EXCEPT ![cur] = IF pend.status = "resting" THEN "no" ELSE "restore"]
    /\ todo' = todo \ {cur}
    /\ pc' = "restore"
    /\ UNCHANGED <<venue, bets, trk, hand, listing, stale, crashes, torn, blind, lost>>
-----------------------------------------------------------------------------
(* Executor.sweep_orphans: close the rows that still show as resting.       *)

SweepList ==
    /\ pc = "sweep"
    /\ \/ /\ Resting = {}
          /\ pc' = "reconcile"
          /\ UNCHANGED loop
       \/ /\ Resting # {}
          /\ listing' = HonestListing \/ (ListingFails /\ listing' = EmptyListing)
          /\ todo' = Resting
          /\ pc' = "sweeping"
    /\ UNCHANGED <<venue, db, trk, hand, stale, crashes, history>>

\* On the venue's list: cancel there first; a failed cancel leaves the row.
\* Not on it: close the row, whatever the reason it is missing.
SweepOne(o) ==
    /\ pc = "sweeping" /\ o \in todo
    /\ \/ /\ IF listing[o] # Absent
             THEN CancelSucceeds(o) /\ UNCHANGED blind
             ELSE /\ UNCHANGED vstat
                  /\ blind' = IF vstat[o] = "open" THEN blind \union {o} ELSE blind
          /\ cur' = o
          /\ pend' = [status |-> "canceled", filled |-> row[o].filled]
          /\ retired' = [retired EXCEPT ![o] = "sweep"]
          /\ pc' = "sweepsave"
          /\ UNCHANGED todo
       \/ /\ listing[o] # Absent
          /\ CancelFails(o)
          /\ todo' = todo \ {o}
          /\ UNCHANGED <<pc, hand, retired, blind>>
    /\ UNCHANGED <<vfill, db, trk, listing, stale, crashes, torn, lost>>

SweepSave ==
    /\ pc = "sweepsave"
    /\ row' = [row EXCEPT ![cur] = pend]
    /\ todo' = todo \ {cur}
    /\ pc' = "sweeping"
    /\ UNCHANGED <<venue, bets, trk, hand, listing, stale, crashes, history>>
-----------------------------------------------------------------------------
SubmitSteps    == (\E o \in Orders : Place(o)) \/ Persist \/ Book
ReconcileSteps ==
    \/ ListOpenOrders
    \/ \E o \in Orders : SyncListed(o) \/ LookupAgain(o) \/ LeftBook(o)
    \/ SyncSave \/ CloseSave \/ LoopDone("sync", "gate")
CancelSteps ==
    \/ \E o \in Orders : ExpireStale(o) \/ StopCancel(o)
    \/ ExpireSave \/ StopSave \/ LoopDone("expire", "wait")
CycleSteps   == GatePasses \/ GateBlocks \/ CycleRaises \/ EndTrade \/ NextCycle
StartSteps ==
    \/ Start \/ RestoreCancel \/ RestoreSave \/ LoopDone("restore", "sweep")
    \/ SweepList \/ SweepSave \/ LoopDone("sweeping", "reconcile")
    \/ \E o \in Orders : RestoreLookup(o) \/ SweepOne(o)
StopSteps == Stop \/ Exit

Process == SubmitSteps \/ ReconcileSteps \/ CancelSteps \/ CycleSteps \/ StartSteps \/ StopSteps
Venue   == \E o \in Orders : VenueFill(o) \/ VenueDrop(o) \/ TtlPasses(o)
Next    == Process \/ Venue \/ Crash

Spec == Init /\ [][Next]_vars

\* The main thread keeps running, time passes, and the venue honours the
\* expiry every order carries.  Nothing makes a cancel or a lookup succeed,
\* nor check_global let a cycle through.
Fairness ==
    /\ WF_vars(Process)
    /\ \A o \in Orders : WF_vars(TtlPasses(o)) /\ WF_vars(o \in stale /\ VenueDrop(o))

FairSpec == Spec /\ Fairness
-----------------------------------------------------------------------------
(* Properties. *)

\* The shape of every variable.
TypeOK ==
    /\ vstat \in [Orders -> {"none", "open", "gone"}]
    /\ vfill \in [Orders -> Fill]
    /\ row \in [Orders -> OrderRow]
    /\ bets \in [Orders -> Nat]
    /\ trk \in [Orders -> TrackEntry]
    /\ pc \in Saving \union {"down", "restore", "sweep", "sweeping", "reconcile", "sync",
                             "gate", "trade", "expire", "wait", "stop"}
    /\ cur \in Orders
    /\ pend \in OrderRow
    /\ todo \subseteq Orders
    /\ listing \in [Orders -> Fill \union {Absent}]
    /\ stale \subseteq Orders
    /\ crashes \in 0 .. MaxCrashes
    /\ torn \subseteq Orders /\ blind \subseteq Orders /\ lost \subseteq Orders
    /\ retired \in [Orders -> {"no", "lookup", "gaveup", "cancel", "restore", "sweep"}]

\* "A bets row records only what actually filled": the contracts booked for an
\* order never exceed what the venue filled, except for an order whose
\* handling a crash cut in two.
NoPhantomExposure == \A o \in Orders : bets[o] > vfill[o] => o \in torn

\* The same promise without the exception, as executor.py:5 words it.
OnlyFillsAreBooked == \A o \in Orders : bets[o] <= vfill[o]

\* What a restart relies on: the fill saved on the order row is exactly what
\* was booked, so that restore books only the difference.  Only the order in
\* hand, or one a crash cut in two, may be out of step.
BooksMatchRows ==
    \A o \in Orders : o \notin torn /\ ~InHand(o) => bets[o] = row[o].filled

\* No quote is stranded: an order resting on the venue has a row that the next
\* start will find, unless one of three known failures hit it.
NoStrandedQuote ==
    \A o \in Orders :
        vstat[o] = "open" /\ ~InHand(o) =>
            row[o].status = "resting" \/ o \in torn \union blind \union lost

\* "Ask the venue for the final fill count": an order closed on a lookup the
\* venue answered, while it was off the book, is booked to its last contract.
FinalLookupBooksAll ==
    \A o \in Orders :
        retired[o] = "lookup" /\ o \notin torn \union blind => bets[o] = vfill[o]

\* "Later fills on live venues still become bets": once an order is off the
\* book and its row is closed, everything it filled has become a bet.
LaterFillsBecomeBets ==
    \A o \in Orders :
        row[o].status \in Closed /\ vstat[o] = "gone" /\ ~InHand(o) => bets[o] = vfill[o]

\* A closed row is final: no handler reopens it, changes its fill, or books
\* another contract for it.
ClosedRowsAreFinal ==
    [][\A o \in Orders :
        row[o].status \in Closed /\ ~InHand(o) =>
            row'[o] = row[o] /\ bets'[o] = bets[o]]_vars

\* Every order that left the venue's book is closed in the tracker after
\* finitely many cycles, whatever the lookups answer.
LeftBookIsResolved ==
    \A o \in Orders : (trk[o].on /\ vstat[o] = "gone") ~> ~trk[o].on

\* A quote past its TTL does not stay for ever, even if every cycle is blocked
\* and every cancel fails: the venue's expiry ends it and reconcile notices.
StaleQuoteEnds == \A o \in Orders : (trk[o].on /\ o \in stale) ~> ~trk[o].on

\* The executor implements the ledger's promise.
Ledger == INSTANCE FillLedger WITH
    filled <- vfill,
    booked <- bets,
    closed <- {o \in Orders : row[o].status \in Closed /\ ~InHand(o)}
ImplementsLedger == Ledger!Spec
=============================================================================
