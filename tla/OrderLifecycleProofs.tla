------------------------ MODULE OrderLifecycleProofs ------------------------
(***************************************************************************)
(* Theorems about OrderLifecycle, for every set of orders, every order     *)
(* size, every lookup bound and any number of crashes.                     *)
(*                                                                         *)
(* The invariants that matter are not inductive: whether a save keeps the  *)
(* books in step depends on what the handler left in `pend`, which loop it *)
(* is in and what that loop may still visit.  IInv says all of that.       *)
(***************************************************************************)
EXTENDS OrderLifecycle, TLAPS

Starting == {"down", "restore", "restorecancel", "restoresave", "sweep", "sweeping", "sweepsave"}

\* The venue's side: a quote on the book is incomplete, an order never placed
\* has left no trace, and no listing is ahead of the venue.
VenueInv ==
    \A o \in Orders :
        /\ vstat[o] = "open" => vfill[o] < Size
        /\ vstat[o] = "none" =>
             /\ vfill[o] = 0 /\ bets[o] = 0 /\ row[o] = NoRow
             /\ ~trk[o].on /\ retired[o] = "no" /\ o \notin torn
             /\ ~InHand(o)
        /\ listing[o] <= vfill[o]

\* The database: a row never claims more than the venue filled, and is in step
\* with the bets unless the order is in hand or torn.
BooksInv ==
    \A o \in Orders :
        /\ row[o].filled <= vfill[o]
        /\ o \notin torn /\ ~InHand(o) => bets[o] = row[o].filled

\* The tracker: what it holds can be found again after a crash, and agrees
\* with the row except between a booking and its save.
TrackerInv ==
    \A o \in Orders : trk[o].on =>
        /\ row[o].status = "resting" /\ o \notin torn
        /\ pc \notin Starting
        /\ retired[o] # "no" => InHand(o)
        /\ trk[o].booked = trk[o].filled
        /\ ~(cur = o /\ pc \in {"syncsave", "closesave"}) => trk[o].filled = row[o].filled

\* Loops over tracked orders visit tracked orders, loops over rows visit
\* resting rows.
LoopInv ==
    /\ pc \in {"sync", "syncsave", "closesave", "expire", "expiresave", "stop", "stopsave"} =>
          todo \subseteq Open
    /\ pc \in {"restore", "restorecancel", "restoresave", "sweeping", "sweepsave"} =>
          todo \subseteq Resting
    /\ pc \in Saving \ {"persist", "book"} => cur \in todo

\* What the process holds while it has a row still to write.
SubmitHand ==
    /\ pc \in {"persist", "book"} =>
          /\ ~trk[cur].on /\ bets[cur] = 0 /\ retired[cur] = "no" /\ cur \notin torn
          /\ vstat[cur] # "none"
          /\ pend.filled <= vfill[cur]
          /\ pend.status \in {"resting", "filled", "rejected"}
          /\ vstat[cur] = "open" => pend.status = "resting" \/ cur \in lost
    /\ pc = "persist" => row[cur] = NoRow /\ (pend.status = "rejected" => pend.filled = 0)
    /\ pc = "book" => row[cur] = pend

TrackedHand ==
    /\ pc \in {"syncsave", "closesave", "expiresave", "stopsave"} =>
          trk[cur].on /\ pend.filled = trk[cur].filled /\ bets[cur] = pend.filled
          /\ pend.filled <= vfill[cur]
    /\ pc = "syncsave" => pend.status = "resting" /\ retired[cur] = "no"
    /\ pc \in {"closesave", "expiresave", "stopsave"} =>
          /\ pend.status \in {"filled", "canceled"}
          /\ vstat[cur] = "open" => cur \in blind
          /\ pc # "closesave" => retired[cur] = "cancel"

RowHand ==
    /\ pc \in {"restorecancel", "restoresave", "sweepsave"} =>
          /\ cur \notin torn => bets[cur] = pend.filled
          /\ pend.filled <= vfill[cur]
          /\ pend.status \in {"resting", "filled", "canceled"}
    /\ pc \in {"restoresave", "sweepsave"} =>
          (vstat[cur] = "open" => pend.status = "resting" \/ cur \in blind)
    /\ pc = "sweepsave" => pend.filled = row[cur].filled /\ retired[cur] = "sweep"

\* A closed order stays booked as the handler that closed it left it.
RetiredInv ==
    \A o \in Orders :
        retired[o] = "lookup" /\ o \notin torn =>
            /\ row[o].status \in Closed \/ InHand(o)
            /\ o \notin blind => bets[o] = vfill[o] /\ vstat[o] = "gone"

IInv ==
    /\ TypeOK /\ VenueInv /\ BooksInv /\ TrackerInv /\ LoopInv
    /\ SubmitHand /\ TrackedHand /\ RowHand /\ RetiredInv /\ NoStrandedQuote
-----------------------------------------------------------------------------
\* The vocabulary of the model is visible in every proof below.
USE LifecycleAssumption DEF InHand, Saving, Open, Resting, Closed, RowStatus, OrderRow,
    TrackEntry, NoRow, Untracked, Fill,
    Absent, Starting, FillKnown, venue, db, loop, hand, history

\* Moving the booked count keeps a tracker entry well formed.
LEMMA RebookedEntry ==
    ASSUME NEW e \in TrackEntry, NEW f \in Fill
    PROVE  [e EXCEPT !.filled = f, !.booked = f] \in TrackEntry
OBVIOUS

\* So does counting a miss.
LEMMA MissedEntry ==
    ASSUME NEW e \in TrackEntry
    PROVE  [e EXCEPT !.misses = @ + 1] \in TrackEntry
OBVIOUS

\* Between two calls of the process the venue only fills or drops quotes.
LEMMA VenueStep ==
    ASSUME IInv, NEW o \in Orders, VenueFill(o) \/ VenueDrop(o) \/ TtlPasses(o)
    PROVE  IInv'
<1> USE DEF IInv, VenueFill, VenueDrop, TtlPasses
<1>1. (TypeOK /\ VenueInv)'
  <2>1. CASE VenueFill(o)
    <3>1. vfill[o] \in Nat /\ vfill[o] + 1 \in Fill
      BY <2>1 DEF TypeOK, VenueInv
    <3>2. (vstat \in [Orders -> {"none", "open", "gone"}] /\ vfill \in [Orders -> Fill])'
      BY <2>1, <3>1 DEF TypeOK
    <3>3. TypeOK'
      BY <2>1, <3>2 DEF TypeOK
    <3>4. ASSUME NEW p \in Orders PROVE (vstat[p] = "open" => vfill[p] < Size)'
      <4>1. CASE p = o
        <5>1. vfill'[o] = vfill[o] + 1 /\ (vstat'[o] = "open" => vfill[o] + 1 # Size)
          BY <2>1 DEF TypeOK
        <5>2. \A n \in Fill : n # Size => n < Size
          OBVIOUS
        <5> QED
          BY <3>1, <4>1, <5>1, <5>2
      <4>2. CASE p # o
        BY <2>1, <4>2 DEF TypeOK, VenueInv
      <4> QED
        BY <4>1, <4>2
    <3>5. ASSUME NEW p \in Orders PROVE listing[p] <= vfill'[p]
      BY <2>1, <3>1 DEF TypeOK, VenueInv
    <3> QED
      BY <2>1, <3>3, <3>4, <3>5 DEF TypeOK, VenueInv
  <2>2. CASE VenueDrop(o) \/ TtlPasses(o)
    BY <2>2 DEF TypeOK, VenueInv
  <2> QED
    BY <2>1, <2>2
<1>2. BooksInv'
  BY SMTT(30) DEF TypeOK, BooksInv
<1>3. (TrackerInv /\ LoopInv)'
  BY SMTT(30) DEF TypeOK, TrackerInv, LoopInv
<1>4. (SubmitHand /\ TrackedHand /\ RowHand /\ RetiredInv /\ NoStrandedQuote)'
  BY SMTT(30) DEF TypeOK, SubmitHand, TrackedHand, RowHand, RetiredInv, NoStrandedQuote
<1> QED
  BY <1>1, <1>2, <1>3, <1>4

\* An order never placed has left no trace, so submit starts from clean books.
LEMMA PlaceStep ==
    ASSUME IInv, NEW o \in Orders, Place(o)
    PROVE  IInv'
<1> USE DEF IInv, Place, Refused, Accepted
<1>1. TypeOK'
  <2>1. (vstat \in [Orders -> {"none", "open", "gone"}] /\ vfill \in [Orders -> Fill])'
    <3>1. CASE Refused(o)
      BY <3>1 DEF TypeOK
    <3>2. CASE Accepted(o)
      BY <3>2 DEF TypeOK
    <3> QED
      BY <3>1, <3>2
  <2>2. (cur \in Orders /\ pend \in OrderRow)'
    BY SMTT(30) DEF TypeOK
  <2> QED
    BY <2>1, <2>2, SMTT(30) DEF TypeOK
<1>2. (VenueInv /\ TrackerInv /\ LoopInv /\ TrackedHand)'
  BY SMTT(30) DEF TypeOK, VenueInv, TrackerInv, LoopInv, TrackedHand
<1>3. (RowHand /\ RetiredInv /\ NoStrandedQuote)'
  BY SMTT(30) DEF TypeOK, RowHand, RetiredInv, NoStrandedQuote
<1>4. BooksInv'
  BY SMTT(30) DEF TypeOK, BooksInv, VenueInv
<1>5. SubmitHand'
  BY SMTT(30) DEF TypeOK, SubmitHand, VenueInv
<1> QED
  BY <1>1, <1>2, <1>3, <1>4, <1>5

\* The row is written before the bet: in between, the order is in hand.
LEMMA PersistStep ==
    ASSUME IInv, Persist
    PROVE  IInv'
<1> USE DEF IInv, Persist, Track
<1>1. TypeOK'
  <2>1. (row \in [Orders -> OrderRow])'
    BY SMTT(30) DEF TypeOK
  <2>2. (trk \in [Orders -> TrackEntry])'
    <3>1. [on |-> TRUE, filled |-> pend.filled, booked |-> pend.filled, misses |-> 0]
            \in TrackEntry
      BY DEF TypeOK
    <3> HIDE DEF TrackEntry
    <3> QED
      BY <3>1 DEF TypeOK
  <2> QED
    BY <2>1, <2>2, SMTT(30) DEF TypeOK
<1>2. (VenueInv /\ LoopInv /\ SubmitHand /\ TrackedHand /\ RowHand)'
  BY SMTT(30) DEF TypeOK, VenueInv, LoopInv, SubmitHand, TrackedHand, RowHand
<1>3. BooksInv'
  BY SMTT(30) DEF TypeOK, BooksInv, SubmitHand
<1>4. TrackerInv'
  BY SMTT(30) DEF TypeOK, TrackerInv, SubmitHand
<1>5. RetiredInv'
  BY SMTT(30) DEF TypeOK, RetiredInv, SubmitHand
<1>6. NoStrandedQuote'
  BY SMTT(30) DEF TypeOK, NoStrandedQuote, SubmitHand
<1> QED
  BY <1>1, <1>2, <1>3, <1>4, <1>5, <1>6

\* The bet brings the books level with the row just written.
LEMMA BookStep ==
    ASSUME IInv, Book
    PROVE  IInv'
<1> USE DEF IInv, Book, Track
<1>1. TypeOK'
  <2>1. (bets \in [Orders -> Nat])'
    BY SMTT(30) DEF TypeOK
  <2>2. (trk \in [Orders -> TrackEntry])'
    <3>1. [on |-> TRUE, filled |-> pend.filled, booked |-> pend.filled, misses |-> 0]
            \in TrackEntry
      BY DEF TypeOK
    <3> HIDE DEF TrackEntry
    <3> QED
      BY <3>1 DEF TypeOK
  <2> QED
    BY <2>1, <2>2, SMTT(30) DEF TypeOK
<1>2. (VenueInv /\ LoopInv /\ SubmitHand /\ TrackedHand /\ RowHand)'
  BY SMTT(30) DEF TypeOK, VenueInv, LoopInv, SubmitHand, TrackedHand, RowHand
<1>3. BooksInv'
  BY SMTT(30) DEF TypeOK, BooksInv, SubmitHand
<1>4. TrackerInv'
  BY SMTT(30) DEF TypeOK, TrackerInv, SubmitHand
<1>5. RetiredInv'
  BY SMTT(30) DEF TypeOK, RetiredInv, SubmitHand
<1>6. NoStrandedQuote'
  BY SMTT(30) DEF TypeOK, NoStrandedQuote, SubmitHand
<1> QED
  BY <1>1, <1>2, <1>3, <1>4, <1>5, <1>6

\* A listing never shows more than the venue filled.
LEMMA ListStep ==
    ASSUME IInv, ListOpenOrders
    PROVE  IInv'
<1> USE DEF IInv, ListOpenOrders, HonestListing, EmptyListing
<1>1. TypeOK'
  BY SMTT(30) DEF TypeOK
<1>2. (VenueInv /\ BooksInv /\ TrackerInv /\ LoopInv)'
  BY SMTT(30) DEF TypeOK, VenueInv, BooksInv, TrackerInv, LoopInv
<1>3. (SubmitHand /\ TrackedHand /\ RowHand /\ RetiredInv /\ NoStrandedQuote)'
  BY SMTT(30) DEF TypeOK, SubmitHand, TrackedHand, RowHand, RetiredInv, NoStrandedQuote
<1> QED
  BY <1>1, <1>2, <1>3

\* What is booked is the increment over what the tracker has booked, and the
\* tracker agrees with the row of an order that is not in hand.
LEMMA SyncListedStep ==
    ASSUME IInv, NEW o \in Orders, SyncListed(o)
    PROVE  IInv'
<1> USE DEF IInv, SyncListed
<1>1. TypeOK'
  <2>1. trk' \in [Orders -> TrackEntry]
    <3>1. CASE listing[o] > trk[o].filled
      <4>1. [trk[o] EXCEPT !.filled = listing[o], !.booked = listing[o]] \in TrackEntry
        BY RebookedEntry DEF TypeOK
      <4> HIDE DEF TrackEntry
      <4> QED
        BY <3>1, <4>1 DEF TypeOK
    <3>2. CASE ~(listing[o] > trk[o].filled)
      BY <3>2 DEF TypeOK
    <3> QED
      BY <3>1, <3>2
  <2>2. bets' \in [Orders -> Nat]
    BY DEF TypeOK, TrackerInv, LoopInv
  <2>3. cur' \in Orders /\ pend' \in OrderRow
    BY DEF TypeOK
  <2> QED
    BY <2>1, <2>2, <2>3 DEF TypeOK
<1>2. (VenueInv /\ BooksInv /\ SubmitHand /\ RowHand /\ NoStrandedQuote)'
  BY SMTT(30) DEF TypeOK, VenueInv, BooksInv, SubmitHand, RowHand, NoStrandedQuote
<1>3. TrackerInv'
  BY SMTT(30) DEF TypeOK, TrackerInv, LoopInv
<1>4. LoopInv'
  BY SMTT(30) DEF TypeOK, LoopInv, TrackerInv
<1>5. TrackedHand'
  BY SMTT(30) DEF TypeOK, TrackedHand, TrackerInv, LoopInv, BooksInv, VenueInv
<1>6. RetiredInv'
  BY SMTT(30) DEF TypeOK, RetiredInv, TrackerInv
<1> QED
  BY <1>1, <1>2, <1>3, <1>4, <1>5, <1>6

\* A failed lookup changes only the miss counter.
LEMMA LookupAgainStep ==
    ASSUME IInv, NEW o \in Orders, LookupAgain(o)
    PROVE  IInv'
<1> USE DEF IInv, LookupAgain
<1>1. TypeOK'
  <2>1. [trk[o] EXCEPT !.misses = @ + 1] \in TrackEntry
    <3>1. trk[o] \in TrackEntry
      BY DEF TypeOK
    <3> HIDE DEF TrackEntry
    <3> QED
      BY <3>1, MissedEntry
  <2>2. trk' \in [Orders -> TrackEntry]
    <3> HIDE DEF TrackEntry
    <3> QED
      BY <2>1 DEF TypeOK
  <2> QED
    BY <2>2 DEF TypeOK
<1>2. (VenueInv /\ BooksInv /\ TrackerInv /\ LoopInv)'
  BY SMTT(30) DEF TypeOK, VenueInv, BooksInv, TrackerInv, LoopInv
<1>3. (SubmitHand /\ TrackedHand /\ RowHand /\ RetiredInv /\ NoStrandedQuote)'
  BY SMTT(30) DEF TypeOK, SubmitHand, TrackedHand, RowHand, RetiredInv, NoStrandedQuote
<1> QED
  BY <1>1, <1>2, <1>3

\* Closing on a lookup books the venue's final count; closing without one keeps
\* what the tracker knew.
LEMMA LeftBookStep ==
    ASSUME IInv, NEW o \in Orders, LeftBook(o)
    PROVE  IInv'
<1> USE DEF IInv, LeftBook, Lookups
<1>1. TypeOK'
  <2>1. PICK final \in Lookups(o) :
          LET known == FillKnown(final, trk[o].filled) IN
            /\ trk' = [trk EXCEPT ![o].filled = known, ![o].booked = known]
            /\ bets' = [bets EXCEPT ![o] = @ + known - trk[o].booked]
            /\ pend' = [status |-> IF final = Size THEN "filled" ELSE "canceled",
                        filled |-> known]
            /\ retired' = [retired EXCEPT ![o] = IF final = Absent THEN "gaveup" ELSE "lookup"]
    OBVIOUS
  <2> DEFINE known == FillKnown(final, trk[o].filled)
  <2>2. known \in Fill /\ known >= trk[o].filled
    BY DEF TypeOK
  <2>3. trk' \in [Orders -> TrackEntry]
    <3>1. [trk[o] EXCEPT !.filled = known, !.booked = known] \in TrackEntry
      BY <2>2, RebookedEntry DEF TypeOK
    <3> HIDE DEF TrackEntry
    <3> QED
      BY <2>1, <3>1 DEF TypeOK
  <2>4. bets' \in [Orders -> Nat]
    BY <2>1, <2>2 DEF TypeOK, TrackerInv, LoopInv
  <2> QED
    BY <2>1, <2>2, <2>3, <2>4 DEF TypeOK
<1>2. (BooksInv /\ TrackerInv /\ LoopInv /\ SubmitHand)'
  BY SMTT(30) DEF TypeOK, BooksInv, TrackerInv, LoopInv, SubmitHand
<1>3. (RowHand /\ NoStrandedQuote)'
  BY SMTT(30) DEF TypeOK, RowHand, NoStrandedQuote
<1>4. VenueInv'
  BY SMTT(30) DEF TypeOK, VenueInv, LoopInv
<1>5. TrackedHand'
  BY SMTT(30) DEF TypeOK, TrackedHand, TrackerInv, LoopInv, BooksInv, VenueInv
<1>6. RetiredInv'
  BY SMTT(30) DEF TypeOK, RetiredInv, TrackerInv, LoopInv, BooksInv, VenueInv
<1> QED
  BY <1>1, <1>2, <1>3, <1>4, <1>5, <1>6

\* The save ends the interval in which tracker and row disagree.
LEMMA SyncSaveStep ==
    ASSUME IInv, SyncSave
    PROVE  IInv'
<1> USE DEF IInv, SyncSave
<1>1. TypeOK'
  BY SMTT(30) DEF TypeOK
<1>2. (VenueInv /\ LoopInv /\ SubmitHand /\ TrackedHand /\ RowHand)'
  BY SMTT(30) DEF TypeOK, VenueInv, LoopInv, SubmitHand, TrackedHand, RowHand
<1>3. BooksInv'
  BY SMTT(30) DEF TypeOK, BooksInv, TrackedHand
<1>4. TrackerInv'
  BY SMTT(30) DEF TypeOK, TrackerInv, TrackedHand
<1>5. RetiredInv'
  BY SMTT(30) DEF TypeOK, RetiredInv, TrackedHand
<1>6. NoStrandedQuote'
  BY SMTT(30) DEF TypeOK, NoStrandedQuote, TrackedHand
<1> QED
  BY <1>1, <1>2, <1>3, <1>4, <1>5, <1>6

\* The three handlers that save a row and drop the order from the tracker.
LEMMA PopStep ==
    ASSUME IInv, CloseSave \/ ExpireSave \/ StopSave
    PROVE  IInv'
<1> USE DEF IInv, CloseSave, ExpireSave, StopSave, SaveAndPop, Untrack
<1>1. TypeOK'
  <2>1. row' \in [Orders -> OrderRow]
    BY SMTT(30) DEF TypeOK
  <2>2. trk' \in [Orders -> TrackEntry]
    <3>1. Untracked \in TrackEntry
      OBVIOUS
    <3> HIDE DEF TrackEntry, Untracked
    <3> QED
      BY <3>1, SMTT(30) DEF TypeOK
  <2> QED
    BY <2>1, <2>2, SMTT(30) DEF TypeOK
<1>2. (VenueInv /\ TrackerInv /\ LoopInv /\ SubmitHand)'
  BY SMTT(30) DEF TypeOK, VenueInv, TrackerInv, LoopInv, SubmitHand
<1>3. (TrackedHand /\ RowHand)'
  BY SMTT(30) DEF TypeOK, TrackedHand, RowHand
<1>4. BooksInv'
  BY SMTT(30) DEF TypeOK, BooksInv, TrackedHand
<1>5. RetiredInv'
  BY SMTT(30) DEF TypeOK, RetiredInv, TrackedHand
<1>6. NoStrandedQuote'
  BY SMTT(30) DEF TypeOK, NoStrandedQuote, TrackedHand
<1> QED
  BY <1>1, <1>2, <1>3, <1>4, <1>5, <1>6

\* A cancel the venue confirms takes a tracked order in hand; one that fails
\* leaves it to the next cycle.
LEMMA CancelStep ==
    ASSUME IInv, NEW o \in Orders, ExpireStale(o) \/ StopCancel(o)
    PROVE  IInv'
<1> USE DEF IInv, ExpireStale, StopCancel, CancelTracked, CancelSucceeds, CancelFails
<1>1. TypeOK'
  <2>1. vstat' \in [Orders -> {"none", "open", "gone"}]
    BY SMTT(20) DEF TypeOK
  <2>2. (cur \in Orders /\ pend \in OrderRow)'
    <3>1. [status |-> "canceled", filled |-> trk[o].filled] \in OrderRow
      BY DEF TypeOK
    <3> HIDE DEF OrderRow
    <3> QED
      BY <3>1, SMTT(20) DEF TypeOK
  <2>3. retired' \in [Orders -> {"no", "lookup", "gaveup", "cancel", "restore", "sweep"}]
    BY SMTT(20) DEF TypeOK
  <2> QED
    BY <2>1, <2>2, <2>3, SMTT(20) DEF TypeOK
<1>2. (VenueInv /\ BooksInv /\ TrackerInv /\ LoopInv)'
  BY SMTT(30) DEF TypeOK, VenueInv, BooksInv, TrackerInv, LoopInv
<1>3. (SubmitHand /\ RowHand /\ RetiredInv /\ NoStrandedQuote)'
  BY SMTT(30) DEF TypeOK, SubmitHand, RowHand, RetiredInv, NoStrandedQuote
<1>4. TrackedHand'
  BY SMTT(30) DEF TypeOK, TrackedHand, TrackerInv, LoopInv, BooksInv
<1> QED
  BY <1>1, <1>2, <1>3, <1>4

\* The row's own fill is what restore takes as booked.
LEMMA RestoreLookupStep ==
    ASSUME IInv, NEW o \in Orders, RestoreLookup(o)
    PROVE  IInv'
<1> USE DEF IInv, RestoreLookup, Lookups
<1>1. TypeOK'
  <2>1. (bets \in [Orders -> Nat])'
    BY SMTT(30) DEF TypeOK
  <2>2. (cur \in Orders /\ pend \in OrderRow)'
    BY SMTT(30) DEF TypeOK
  <2> QED
    BY <2>1, <2>2, SMTT(30) DEF TypeOK
<1>2. (BooksInv /\ TrackerInv /\ LoopInv /\ SubmitHand)'
  BY SMTT(30) DEF TypeOK, BooksInv, TrackerInv, LoopInv, SubmitHand
<1>3. (TrackedHand /\ NoStrandedQuote)'
  BY SMTT(30) DEF TypeOK, TrackedHand, NoStrandedQuote
<1>4. VenueInv'
  BY SMTT(30) DEF TypeOK, VenueInv, LoopInv
<1>5. RowHand'
  BY SMTT(30) DEF TypeOK, RowHand, BooksInv, LoopInv, VenueInv
<1>6. RetiredInv'
  BY SMTT(30) DEF TypeOK, RetiredInv, LoopInv
<1> QED
  BY <1>1, <1>2, <1>3, <1>4, <1>5, <1>6

\* A failed cancel turns the row in hand back to resting.
LEMMA RestoreCancelStep ==
    ASSUME IInv, RestoreCancel
    PROVE  IInv'
<1> USE DEF IInv, RestoreCancel, CancelSucceeds, CancelFails
<1>1. TypeOK'
  BY SMTT(30) DEF TypeOK
<1>2. (VenueInv /\ BooksInv /\ TrackerInv /\ LoopInv)'
  BY SMTT(30) DEF TypeOK, VenueInv, BooksInv, TrackerInv, LoopInv
<1>3. (SubmitHand /\ TrackedHand /\ RowHand /\ RetiredInv /\ NoStrandedQuote)'
  BY SMTT(30) DEF TypeOK, SubmitHand, TrackedHand, RowHand, RetiredInv, NoStrandedQuote
<1> QED
  BY <1>1, <1>2, <1>3

\* The save of restore brings the row level with the bets.
LEMMA RestoreSaveStep ==
    ASSUME IInv, RestoreSave
    PROVE  IInv'
<1> USE DEF IInv, RestoreSave
<1>1. TypeOK'
  BY SMTT(30) DEF TypeOK
<1>2. (VenueInv /\ TrackerInv /\ LoopInv /\ SubmitHand)'
  BY SMTT(30) DEF TypeOK, VenueInv, TrackerInv, LoopInv, SubmitHand
<1>3. (TrackedHand /\ RowHand /\ RetiredInv)'
  BY SMTT(30) DEF TypeOK, TrackedHand, RowHand, RetiredInv
<1>4. BooksInv'
  BY SMTT(30) DEF TypeOK, BooksInv, RowHand
<1>5. NoStrandedQuote'
  BY SMTT(30) DEF TypeOK, NoStrandedQuote, RowHand
<1> QED
  BY <1>1, <1>2, <1>3, <1>4, <1>5

\* The sweep, like reconcile, starts from one listing.
LEMMA SweepListStep ==
    ASSUME IInv, SweepList
    PROVE  IInv'
<1> USE DEF IInv, SweepList, HonestListing, EmptyListing
<1>1. TypeOK'
  BY SMTT(30) DEF TypeOK
<1>2. (VenueInv /\ BooksInv /\ TrackerInv /\ LoopInv)'
  BY SMTT(30) DEF TypeOK, VenueInv, BooksInv, TrackerInv, LoopInv
<1>3. (SubmitHand /\ TrackedHand /\ RowHand /\ RetiredInv /\ NoStrandedQuote)'
  BY SMTT(30) DEF TypeOK, SubmitHand, TrackedHand, RowHand, RetiredInv, NoStrandedQuote
<1> QED
  BY <1>1, <1>2, <1>3

\* The sweep closes a row at the fill it shows.
LEMMA SweepOneStep ==
    ASSUME IInv, NEW o \in Orders, SweepOne(o)
    PROVE  IInv'
<1> USE DEF IInv, SweepOne, CancelSucceeds, CancelFails
<1>1. TypeOK'
  BY SMTT(30) DEF TypeOK
<1>2. (BooksInv /\ TrackerInv /\ LoopInv /\ SubmitHand)'
  BY SMTT(30) DEF TypeOK, BooksInv, TrackerInv, LoopInv, SubmitHand
<1>3. (TrackedHand /\ RetiredInv /\ NoStrandedQuote)'
  BY SMTT(30) DEF TypeOK, TrackedHand, RetiredInv, NoStrandedQuote
<1>4. VenueInv'
  BY SMTT(30) DEF TypeOK, VenueInv, LoopInv
<1>5. RowHand'
  BY SMTT(30) DEF TypeOK, RowHand, BooksInv
<1> QED
  BY <1>1, <1>2, <1>3, <1>4, <1>5

\* The sweep's save changes no fill.
LEMMA SweepSaveStep ==
    ASSUME IInv, SweepSave
    PROVE  IInv'
<1> USE DEF IInv, SweepSave
<1>1. TypeOK'
  BY SMTT(30) DEF TypeOK
<1>2. (VenueInv /\ TrackerInv /\ LoopInv /\ SubmitHand)'
  BY SMTT(30) DEF TypeOK, VenueInv, TrackerInv, LoopInv, SubmitHand
<1>3. (TrackedHand /\ RowHand)'
  BY SMTT(30) DEF TypeOK, TrackedHand, RowHand
<1>4. BooksInv'
  BY SMTT(30) DEF TypeOK, BooksInv, RowHand
<1>5. NoStrandedQuote'
  BY SMTT(30) DEF TypeOK, NoStrandedQuote, RowHand
<1>6. RetiredInv'
  BY SMTT(30) DEF TypeOK, RetiredInv, RowHand, LoopInv
<1> QED
  BY <1>1, <1>2, <1>3, <1>4, <1>5, <1>6

\* The steps that only move the process from one loop to the next.
LEMMA ControlStep ==
    ASSUME IInv, CycleSteps \/ Stop \/ Start
             \/ LoopDone("sync", "gate") \/ LoopDone("expire", "wait")
             \/ LoopDone("restore", "sweep") \/ LoopDone("sweeping", "reconcile")
    PROVE  IInv'
<1> USE DEF IInv, CycleSteps, GatePasses, GateBlocks, CycleRaises, NextCycle, EndTrade, Stop, Start,
          Goto, StartLoop, LoopDone
<1>1. TypeOK'
  BY SMTT(30) DEF TypeOK
<1>2. (VenueInv /\ BooksInv /\ TrackerInv /\ LoopInv)'
  BY SMTT(30) DEF TypeOK, VenueInv, BooksInv, TrackerInv, LoopInv
<1>3. (SubmitHand /\ TrackedHand /\ RowHand /\ RetiredInv /\ NoStrandedQuote)'
  BY SMTT(30) DEF TypeOK, SubmitHand, TrackedHand, RowHand, RetiredInv, NoStrandedQuote
<1> QED
  BY <1>1, <1>2, <1>3

\* A clean exit forgets the tracker; every order still tracked has a resting row.
LEMMA ExitStep ==
    ASSUME IInv, Exit
    PROVE  IInv'
<1> USE DEF IInv, Exit, ProcessGone, EmptyListing
<1>1. TypeOK'
  BY SMTT(30) DEF TypeOK
<1>2. (VenueInv /\ BooksInv /\ TrackerInv /\ LoopInv)'
  BY SMTT(30) DEF TypeOK, VenueInv, BooksInv, TrackerInv, LoopInv
<1>3. (SubmitHand /\ TrackedHand /\ RowHand /\ RetiredInv /\ NoStrandedQuote)'
  BY SMTT(30) DEF TypeOK, SubmitHand, TrackedHand, RowHand, RetiredInv, NoStrandedQuote
<1> QED
  BY <1>1, <1>2, <1>3

\* A crash outside Tears finds the books level with the row.
LEMMA CrashStep ==
    ASSUME IInv, Crash
    PROVE  IInv'
<1> USE DEF IInv, Crash, Tears, ProcessGone, EmptyListing
<1>1. TypeOK'
  BY SMTT(30) DEF TypeOK
<1>2. (VenueInv /\ TrackerInv /\ LoopInv /\ SubmitHand)'
  BY SMTT(30) DEF TypeOK, VenueInv, TrackerInv, LoopInv, SubmitHand
<1>3. (TrackedHand /\ RowHand)'
  BY SMTT(30) DEF TypeOK, TrackedHand, RowHand
<1>4. BooksInv'
  BY SMTT(30) DEF TypeOK, BooksInv, TrackedHand, RowHand, TrackerInv
<1>5. RetiredInv'
  BY SMTT(30) DEF TypeOK, RetiredInv, TrackedHand, RowHand
<1>6. NoStrandedQuote'
  BY SMTT(30) DEF TypeOK, NoStrandedQuote, TrackedHand, TrackerInv, LoopInv
<1> QED
  BY <1>1, <1>2, <1>3, <1>4, <1>5, <1>6

-----------------------------------------------------------------------------
LEMMA InitInv == Init => IInv
BY DEF Init, IInv, TypeOK, VenueInv, BooksInv, TrackerInv, LoopInv, SubmitHand,
       TrackedHand, RowHand, RetiredInv, NoStrandedQuote

LEMMA StutterInv ==
    ASSUME IInv, UNCHANGED vars
    PROVE  IInv'
BY DEF vars, IInv, TypeOK, VenueInv, BooksInv, TrackerInv, LoopInv, SubmitHand,
       TrackedHand, RowHand, RetiredInv, NoStrandedQuote

\* One case per group of actions; Next is their disjunction.
LEMMA NextInv ==
    ASSUME IInv, [Next]_vars
    PROVE  IInv'
<1>1. CASE Venue
  BY <1>1, VenueStep DEF Venue
<1>2. CASE Crash
  BY <1>2, CrashStep
<1>3. CASE SubmitSteps
  BY <1>3, PlaceStep, PersistStep, BookStep DEF SubmitSteps
<1>4. CASE ReconcileSteps
  BY <1>4, ListStep, SyncListedStep, LookupAgainStep, LeftBookStep, SyncSaveStep, PopStep,
     ControlStep DEF ReconcileSteps
<1>5. CASE CancelSteps
  BY <1>5, CancelStep, PopStep, ControlStep DEF CancelSteps
<1>6. CASE CycleSteps \/ StopSteps
  BY <1>6, ControlStep, ExitStep DEF StopSteps
<1>7. CASE StartSteps
  BY <1>7, ControlStep, RestoreLookupStep, RestoreCancelStep, RestoreSaveStep, SweepListStep,
     SweepOneStep, SweepSaveStep DEF StartSteps
<1>8. CASE UNCHANGED vars
  BY <1>8, StutterInv
<1> QED
  BY <1>1, <1>2, <1>3, <1>4, <1>5, <1>6, <1>7, <1>8 DEF Next, Process

\* The strengthening holds in every reachable state.
THEOREM InvariantHolds == Spec => []IInv
BY InitInv, NextInv, PTL DEF Spec

\* Every variable keeps its shape; in particular no fill exceeds the order and
\* no bet is negative.
THEOREM TypeCorrect == Spec => []TypeOK
<1>1. IInv => TypeOK
  BY DEF IInv
<1> QED
  BY <1>1, InvariantHolds, PTL

\* The fill on a closed or resting row is what was booked: restore may trust it.
THEOREM RowsMatchBooks == Spec => []BooksMatchRows
<1>1. IInv => BooksMatchRows
  BY DEF IInv, BooksInv, BooksMatchRows
<1> QED
  BY <1>1, InvariantHolds, PTL

\* Contracts become bets only after the venue filled them.
THEOREM OnlyFillsBecomeBets == Spec => []NoPhantomExposure
<1>1. ASSUME IInv PROVE NoPhantomExposure
  <2> SUFFICES ASSUME NEW o \in Orders, o \notin torn PROVE bets[o] <= vfill[o]
    BY <1>1 DEF IInv, TypeOK, NoPhantomExposure
  <2>1. CASE ~InHand(o)
    BY <1>1, <2>1 DEF IInv, TypeOK, BooksInv
  <2>2. CASE InHand(o)
    BY <1>1, <2>2 DEF IInv, TypeOK, SubmitHand, TrackedHand, RowHand
  <2> QED
    BY <2>1, <2>2
<1> QED
  BY <1>1, InvariantHolds, PTL

\* A quote on the book can be found again after a restart.
THEOREM QuotesAreFound == Spec => []NoStrandedQuote
<1>1. IInv => NoStrandedQuote
  BY DEF IInv
<1> QED
  BY <1>1, InvariantHolds, PTL

\* An order closed on an answered lookup is booked to its last contract.
THEOREM LookupBooksAll == Spec => []FinalLookupBooksAll
<1>1. IInv => FinalLookupBooksAll
  BY DEF IInv, RetiredInv, FinalLookupBooksAll
<1> QED
  BY <1>1, InvariantHolds, PTL
-----------------------------------------------------------------------------
\* No step touches the row or the bets of an order whose row is closed: the
\* loops visit resting rows only, and an order in hand has not been saved yet.
LEMMA ClosedRowStep ==
    ASSUME IInv, Next, NEW o \in Orders, row[o].status \in Closed, ~InHand(o)
    PROVE  row'[o] = row[o] /\ bets'[o] = bets[o]
<1> USE DEF IInv, TypeOK
<1>1. CASE Venue \/ Crash \/ CycleSteps \/ StopSteps
  BY <1>1 DEF Venue, VenueFill, VenueDrop, TtlPasses, Crash, CycleSteps, GatePasses,
     GateBlocks, CycleRaises, NextCycle, EndTrade, StopSteps, Stop, Exit, Goto, StartLoop
<1>2. CASE SubmitSteps
  BY <1>2, SMTT(30) DEF SubmitSteps, Place, Refused, Accepted, Persist, Book
<1>3. CASE ReconcileSteps
  <2>1. ASSUME NEW p \in Orders, SyncListed(p) \/ LookupAgain(p) \/ LeftBook(p)
        PROVE  row'[o] = row[o] /\ bets'[o] = bets[o]
    <3>1. row[p].status = "resting"
      BY <2>1 DEF SyncListed, LookupAgain, LeftBook, LoopInv, TrackerInv
    <3>2. p # o
      BY <3>1
    <3> QED
      BY <2>1, <3>2 DEF SyncListed, LookupAgain, LeftBook
  <2>2. CASE ListOpenOrders \/ LoopDone("sync", "gate")
    BY <2>2 DEF ListOpenOrders, LoopDone
  <2>3. CASE SyncSave \/ CloseSave
    BY <2>3, SMTT(30) DEF SyncSave, CloseSave, SaveAndPop
  <2> QED
    BY <1>3, <2>1, <2>2, <2>3 DEF ReconcileSteps
<1>4. CASE CancelSteps
  BY <1>4, SMTT(30) DEF CancelSteps, ExpireStale, StopCancel, CancelTracked, ExpireSave,
     StopSave, SaveAndPop, LoopDone
<1>5. CASE StartSteps
  <2>1. ASSUME NEW p \in Orders, RestoreLookup(p)
        PROVE  row'[o] = row[o] /\ bets'[o] = bets[o]
    BY <2>1, SMTT(30) DEF RestoreLookup, LoopInv
  <2>2. ASSUME NEW p \in Orders, SweepOne(p)
        PROVE  row'[o] = row[o] /\ bets'[o] = bets[o]
    BY <2>2 DEF SweepOne
  <2>3. CASE Start \/ RestoreCancel \/ LoopDone("restore", "sweep") \/ SweepList
             \/ LoopDone("sweeping", "reconcile")
    BY <2>3 DEF Start, StartLoop, RestoreCancel, LoopDone, SweepList
  <2>4. CASE RestoreSave \/ SweepSave
    BY <2>4, SMTT(30) DEF RestoreSave, SweepSave
  <2> QED
    BY <1>5, <2>1, <2>2, <2>3, <2>4 DEF StartSteps
<1> QED
  BY <1>1, <1>2, <1>3, <1>4, <1>5 DEF Next, Process

\* A closed row is final: neither its status, nor its fill, nor its bets change.
THEOREM ClosedStaysClosed == Spec => ClosedRowsAreFinal
<1> DEFINE Final == \A o \in Orders : row[o].status \in Closed /\ ~InHand(o) =>
                        row'[o] = row[o] /\ bets'[o] = bets[o]
<1>1. IInv /\ [Next]_vars => [Final]_vars
  BY ClosedRowStep
<1> QED
  BY <1>1, InvariantHolds, PTL DEF Spec, ClosedRowsAreFinal

-----------------------------------------------------------------------------
(***************************************************************************)
(* OrderLifecycle implements FillLedger.  Every save maps to Close or to a *)
(* stutter, every booking to Book, every crash to Tear or to a stutter;    *)
(* placing an order maps to Fill, with what filled at once.                *)
(***************************************************************************)

\* The vocabulary of the model is visible in every proof below.
USE LifecycleAssumption DEF InHand, Saving, Open, Resting, Closed, RowStatus, OrderRow,
    TrackEntry, NoRow, Untracked, Fill,
    Absent, Starting, FillKnown, venue, db, loop, hand, history

\* The orders the ledger counts as closed: saved as closed and no longer in hand.
LedgerClosed == {o \in Orders : row[o].status \in Closed /\ ~InHand(o)}

LEMMA LedgerInit == Init => Ledger!Init
BY DEF Init, Ledger!Init

\* The venue fills; nothing else of the ledger moves.
LEMMA LedgerVenue ==
    ASSUME IInv, NEW o \in Orders, VenueFill(o) \/ VenueDrop(o) \/ TtlPasses(o)
    PROVE  Ledger!Next \/ UNCHANGED Ledger!ledger
<1>1. CASE VenueFill(o)
  <2>1. vfill[o] \in Nat /\ vfill[o] + 1 \in Fill
    BY <1>1 DEF IInv, TypeOK, VenueInv, VenueFill
  <2>2. LedgerClosed' = LedgerClosed
    BY <1>1 DEF VenueFill, LedgerClosed
  <2>3. vfill[o] < vfill[o] + 1 /\ vfill' = [vfill EXCEPT ![o] = vfill[o] + 1]
    BY <1>1, <2>1 DEF VenueFill
  <2>4. bets' = bets /\ torn' = torn
    BY <1>1 DEF VenueFill
  <2>5. Ledger!Fill(o)
    BY <2>1, <2>2, <2>3, <2>4 DEF Ledger!Fill, LedgerClosed
  <2> QED
    BY <2>5 DEF Ledger!Next
<1>2. CASE VenueDrop(o) \/ TtlPasses(o)
  BY <1>2 DEF VenueDrop, TtlPasses, Ledger!ledger
<1> QED
  BY <1>1, <1>2

\* An order placed appears with what filled at once.
LEMMA LedgerPlace ==
    ASSUME IInv, NEW o \in Orders, Place(o)
    PROVE  Ledger!Next \/ UNCHANGED Ledger!ledger
<1>1. bets' = bets /\ torn' = torn /\ row' = row /\ pc = "trade"
  BY DEF Place
<1>2. row[o] = NoRow /\ vfill[o] = 0
  BY DEF Place, IInv, VenueInv
<1>3. LedgerClosed' = LedgerClosed
  BY <1>1, <1>2 DEF LedgerClosed, Place
<1>4. CASE UNCHANGED vfill
  BY <1>1, <1>3, <1>4 DEF Ledger!ledger, LedgerClosed
<1>5. CASE \E n \in Fill : n > 0 /\ vfill' = [vfill EXCEPT ![o] = n]
  <2>1. Ledger!Fill(o)
    BY <1>1, <1>2, <1>3, <1>5 DEF Ledger!Fill, LedgerClosed
  <2> QED
    BY <2>1 DEF Ledger!Next
<1>6. (UNCHANGED vfill) \/ \E n \in Fill : n > 0 /\ vfill' = [vfill EXCEPT ![o] = n]
  <2>1. CASE Refused(o)
    BY <2>1 DEF Refused
  <2>2. CASE Accepted(o)
    <3>1. PICK n \in Fill : vfill' = [vfill EXCEPT ![o] = n]
      BY <2>2 DEF Accepted
    <3>2. CASE n = 0
      BY <3>1, <3>2, <1>2 DEF IInv, TypeOK
    <3>3. CASE n > 0
      BY <3>1, <3>3
    <3> QED
      BY <3>2, <3>3
  <2> QED
    BY <2>1, <2>2 DEF Place
<1> QED
  BY <1>4, <1>5, <1>6

\* Saving a row closes the order in hand, or leaves the ledger alone.
LEMMA LedgerSave ==
    ASSUME IInv, Persist \/ SyncSave \/ CloseSave \/ ExpireSave \/ StopSave
                 \/ RestoreSave \/ SweepSave
    PROVE  Ledger!Next \/ UNCHANGED Ledger!ledger
<1> USE DEF Persist, SyncSave, CloseSave, ExpireSave, StopSave, RestoreSave, SweepSave,
            SaveAndPop
<1>1. vfill' = vfill /\ bets' = bets /\ torn' = torn /\ cur' = cur /\ cur \in Orders
  BY DEF IInv, TypeOK
<1>2. InHand(cur) /\ row' = [row EXCEPT ![cur] = pend]
  OBVIOUS
<1>3. LedgerClosed' = LedgerClosed \/ LedgerClosed' = LedgerClosed \union {cur}
  BY <1>1, <1>2, SMTT(30) DEF LedgerClosed, IInv, TypeOK
<1>4. CASE LedgerClosed' = LedgerClosed
  BY <1>1, <1>4 DEF Ledger!ledger, LedgerClosed
<1>5. CASE LedgerClosed' = LedgerClosed \union {cur}
  <2>1. Ledger!Close
    BY <1>1, <1>5 DEF Ledger!Close, LedgerClosed
  <2> QED
    BY <2>1 DEF Ledger!Next
<1> QED
  BY <1>3, <1>4, <1>5

\* What a booking must satisfy to be one of the ledger's.
LEMMA BookingIsLedgerStep ==
    ASSUME NEW o \in Orders, o \notin LedgerClosed,
           vfill' = vfill, torn' = torn,
           bets \in [Orders -> Nat], NEW n \in Int, n >= bets[o],
           bets' = [bets EXCEPT ![o] = n],
           n <= vfill[o] \/ o \in torn,
           LedgerClosed' = LedgerClosed \/ (n > bets[o] /\ LedgerClosed' = LedgerClosed \union {o})
    PROVE  Ledger!Next \/ UNCHANGED Ledger!ledger
<1>1. CASE n = bets[o]
  BY <1>1 DEF Ledger!ledger, LedgerClosed
<1>2. CASE n > bets[o]
  <2>1. bets'[o] = n
    OBVIOUS
  <2>2. Ledger!Book(o)
    BY <1>2, <2>1 DEF Ledger!Book, LedgerClosed
  <2> QED
    BY <2>2 DEF Ledger!Next
<1> QED
  BY <1>1, <1>2

\* submit's booking: the order in hand has no bets yet.
LEMMA LedgerSubmitBook ==
    ASSUME IInv, Book
    PROVE  Ledger!Next \/ UNCHANGED Ledger!ledger
<1>1. cur \in Orders /\ cur \notin torn /\ bets[cur] = 0 /\ pend.filled \in Nat
      /\ pend.filled <= vfill[cur] /\ row[cur] = pend /\ InHand(cur)
  BY DEF Book, IInv, TypeOK, SubmitHand
<1>2. bets' = [bets EXCEPT ![cur] = pend.filled]
  <2>1. bets' = [bets EXCEPT ![cur] = bets[cur] + pend.filled]
    BY DEF Book
  <2>2. bets[cur] + pend.filled = pend.filled
    BY <1>1
  <2> QED
    BY <2>1, <2>2
<1>3. LedgerClosed' = LedgerClosed \/ LedgerClosed' = LedgerClosed \union {cur}
  BY <1>1, SMTT(30) DEF Book, LedgerClosed
<1>4. cur \notin LedgerClosed
  BY <1>1 DEF LedgerClosed
<1>5. CASE pend.filled > 0
  <2>1. vfill' = vfill /\ torn' = torn /\ bets \in [Orders -> Nat]
    BY DEF Book, IInv, TypeOK
  <2>2. pend.filled \in Int /\ pend.filled > bets[cur] /\ pend.filled >= bets[cur]
    BY <1>1, <1>5
  <2> QED
    BY <1>1, <1>2, <1>3, <1>4, <2>1, <2>2, BookingIsLedgerStep
<1>6. CASE pend.filled = 0
  <2>1. vfill' = vfill /\ torn' = torn /\ bets' = bets
    BY <1>1, <1>2, <1>6 DEF Book, IInv, TypeOK
  <2>2. CASE LedgerClosed' = LedgerClosed
    BY <2>1, <2>2 DEF Ledger!ledger, LedgerClosed
  <2>3. CASE LedgerClosed' = LedgerClosed \union {cur}
    <3>1. Ledger!Close
      BY <1>1, <2>1, <2>3 DEF Ledger!Close, LedgerClosed
    <3> QED
      BY <3>1 DEF Ledger!Next
  <2> QED
    BY <1>3, <2>2, <2>3
<1> QED
  BY <1>1, <1>5, <1>6

\* reconcile's bookings: from what the tracker has booked to what the venue shows.
LEMMA LedgerReconcileBook ==
    ASSUME IInv, NEW o \in Orders, SyncListed(o) \/ LeftBook(o)
    PROVE  Ledger!Next \/ UNCHANGED Ledger!ledger
<1>1. /\ row[o].status = "resting" /\ o \notin LedgerClosed
      /\ bets[o] = trk[o].booked /\ trk[o].booked = trk[o].filled
      /\ trk[o].filled \in Fill /\ trk[o].filled <= vfill[o]
      /\ listing[o] \in Int /\ listing[o] <= vfill[o] /\ vfill[o] \in Fill
  BY DEF IInv, TypeOK, SyncListed, LeftBook, LoopInv, TrackerInv, BooksInv, VenueInv, LedgerClosed
<1>2. vfill' = vfill /\ torn' = torn /\ row' = row /\ pc = "sync"
      /\ (cur' = o \/ pc' = "sync")
  BY DEF SyncListed, LeftBook
<1>3. LedgerClosed' = LedgerClosed
  BY <1>1, <1>2 DEF LedgerClosed
<1>4. PICK n \in Int : n >= bets[o] /\ n <= vfill[o] /\ bets' = [bets EXCEPT ![o] = n]
  <2>1. CASE SyncListed(o)
    <3>1. CASE listing[o] > trk[o].filled
      BY <1>1, <2>1, <3>1 DEF SyncListed, IInv, TypeOK
    <3>2. CASE ~(listing[o] > trk[o].filled)
      <4>1. bets' = [bets EXCEPT ![o] = bets[o]]
        BY <1>1, <2>1, <3>2 DEF SyncListed, IInv, TypeOK
      <4>2. bets[o] \in Int /\ bets[o] >= bets[o] /\ bets[o] <= vfill[o]
        BY <1>1
      <4> QED
        BY <4>1, <4>2
    <3> QED
      BY <3>1, <3>2
  <2>2. CASE LeftBook(o)
    <3>1. PICK final \in Lookups(o) :
            bets' = [bets EXCEPT ![o] = @ + FillKnown(final, trk[o].filled) - trk[o].booked]
      BY <2>2 DEF LeftBook
    <3> DEFINE known == FillKnown(final, trk[o].filled)
    <3>2. known \in Int /\ known >= trk[o].filled /\ known <= vfill[o]
      BY <1>1 DEF Lookups
    <3>3. bets[o] + known - trk[o].booked = known
      BY <1>1, <3>2
    <3>4. bets' = [bets EXCEPT ![o] = known]
      BY <3>1, <3>3
    <3> QED
      BY <1>1, <3>2, <3>4
  <2> QED
    BY <2>1, <2>2
<1> QED
  BY <1>1, <1>2, <1>3, <1>4, BookingIsLedgerStep DEF IInv, TypeOK

\* restore's booking: from the row's fill to the venue's.
LEMMA LedgerRestoreBook ==
    ASSUME IInv, NEW o \in Orders, RestoreLookup(o)
    PROVE  Ledger!Next \/ UNCHANGED Ledger!ledger
<1>1. /\ row[o].status = "resting" /\ o \notin LedgerClosed
      /\ o \notin torn => bets[o] = row[o].filled
      /\ bets[o] \in Nat /\ row[o].filled \in Fill /\ row[o].filled <= vfill[o]
      /\ vfill[o] \in Fill
  BY DEF IInv, TypeOK, RestoreLookup, LoopInv, BooksInv, LedgerClosed
<1>2. vfill' = vfill /\ torn' = torn /\ row' = row /\ pc = "restore" /\ cur' = o
  BY DEF RestoreLookup
<1>3. LedgerClosed' = LedgerClosed
  BY <1>1, <1>2 DEF LedgerClosed
<1>4. PICK n \in Int : /\ n >= bets[o] /\ bets' = [bets EXCEPT ![o] = n]
                       /\ n <= vfill[o] \/ o \in torn
  <2>1. PICK final \in Lookups(o) :
          bets' = [bets EXCEPT ![o] = @ + FillKnown(final, row[o].filled) - row[o].filled]
    BY DEF RestoreLookup
  <2> DEFINE known == FillKnown(final, row[o].filled)
             n == bets[o] + known - row[o].filled
  <2>2. known \in Int /\ known >= row[o].filled /\ known <= vfill[o]
    BY <1>1 DEF Lookups
  <2>3. n \in Int /\ n >= bets[o] /\ (n <= vfill[o] \/ o \in torn)
    BY <1>1, <2>2
  <2>4. bets' = [bets EXCEPT ![o] = n]
    BY <2>1 DEF IInv, TypeOK
  <2> QED
    BY <2>3, <2>4
<1> QED
  BY <1>1, <1>2, <1>3, <1>4, BookingIsLedgerStep DEF IInv, TypeOK

\* A crash may tear the order in hand, and may free one already saved as closed.
LEMMA LedgerCrash ==
    ASSUME IInv, Crash
    PROVE  Ledger!Next \/ UNCHANGED Ledger!ledger
<1>1. vfill' = vfill /\ bets' = bets /\ row' = row /\ cur' = cur /\ pc' = "down" /\ cur \in Orders
  BY DEF Crash, ProcessGone, IInv, TypeOK
<1>2. CASE pc \in Tears
  <2>1. torn' = torn \union {cur}
    BY <1>2 DEF Crash
  <2>2. LedgerClosed' = LedgerClosed \/ LedgerClosed' = LedgerClosed \union {cur}
    BY <1>1, SMTT(30) DEF LedgerClosed
  <2>3. torn \subseteq Orders /\ LedgerClosed \subseteq Orders
    BY DEF IInv, TypeOK, LedgerClosed
  <2>4. Ledger!Tear
    BY <1>1, <2>1, <2>2, <2>3 DEF Ledger!Tear, LedgerClosed
  <2> QED
    BY <2>4 DEF Ledger!Next
<1>3. CASE pc \notin Tears
  <2>1. torn' = torn
    BY <1>3 DEF Crash
  <2>2. pc \in Saving => row[cur].status = "resting"
    BY <1>3 DEF Tears, IInv, LoopInv, TrackerInv
  <2>3. LedgerClosed' = LedgerClosed
    BY <1>1, <2>2 DEF LedgerClosed
  <2> QED
    BY <1>1, <2>1, <2>3 DEF Ledger!ledger, LedgerClosed
<1> QED
  BY <1>2, <1>3

\* The remaining steps leave the ledger alone: what they take in hand is resting.
LEMMA LedgerIdle ==
    ASSUME IInv,
           \/ ListOpenOrders \/ RestoreCancel \/ SweepList \/ CycleSteps \/ StopSteps \/ Start
           \/ LoopDone("sync", "gate") \/ LoopDone("expire", "wait")
           \/ LoopDone("restore", "sweep") \/ LoopDone("sweeping", "reconcile")
           \/ \E o \in Orders : LookupAgain(o) \/ ExpireStale(o) \/ StopCancel(o) \/ SweepOne(o)
    PROVE  UNCHANGED Ledger!ledger
<1>1. vfill' = vfill /\ bets' = bets /\ torn' = torn /\ row' = row
  BY DEF ListOpenOrders, RestoreCancel, SweepList, CycleSteps, StopSteps, Start, LoopDone,
     LookupAgain, ExpireStale, StopCancel, CancelTracked, SweepOne, GatePasses, GateBlocks,
     CycleRaises, NextCycle, EndTrade, Goto, StartLoop, Stop, Exit
<1>2. LedgerClosed' = LedgerClosed
  <2>1. CASE \E o \in Orders : ExpireStale(o) \/ StopCancel(o) \/ SweepOne(o)
    <3>1. PICK o \in Orders : ExpireStale(o) \/ StopCancel(o) \/ SweepOne(o)
      BY <2>1
    <3>2. row[o].status = "resting" /\ (cur' = o \/ pc' = pc) /\ pc \notin Saving
      BY <3>1, SMTT(30) DEF ExpireStale, StopCancel, CancelTracked, SweepOne, IInv, LoopInv,
         TrackerInv
    <3>3. pc' = pc => cur' = cur
      BY <3>1, SMTT(30) DEF ExpireStale, StopCancel, CancelTracked, SweepOne
    <3> QED
      BY <1>1, <3>2, <3>3 DEF LedgerClosed
  <2>2. CASE RestoreCancel
    BY <1>1, <2>2 DEF RestoreCancel, LedgerClosed
  <2>3. CASE \/ ListOpenOrders \/ SweepList \/ CycleSteps \/ StopSteps \/ Start
             \/ LoopDone("sync", "gate") \/ LoopDone("expire", "wait")
             \/ LoopDone("restore", "sweep") \/ LoopDone("sweeping", "reconcile")
             \/ \E o \in Orders : LookupAgain(o)
    <3>1. pc \notin Saving /\ pc' \notin Saving
      BY <2>3 DEF ListOpenOrders, SweepList, CycleSteps, StopSteps, Start, LoopDone, LookupAgain,
         GatePasses, GateBlocks, CycleRaises, NextCycle, EndTrade, Goto, StartLoop, Stop, Exit,
         ProcessGone
    <3> QED
      BY <1>1, <3>1 DEF LedgerClosed
  <2> QED
    BY <2>1, <2>2, <2>3
<1> QED
  BY <1>1, <1>2 DEF Ledger!ledger, LedgerClosed

LEMMA LedgerNext ==
    ASSUME IInv, [Next]_vars
    PROVE  [Ledger!Next]_(Ledger!ledger)
<1>1. CASE Venue
  BY <1>1, LedgerVenue DEF Venue
<1>2. CASE Crash
  BY <1>2, LedgerCrash
<1>3. CASE SubmitSteps
  BY <1>3, LedgerPlace, LedgerSave, LedgerSubmitBook DEF SubmitSteps
<1>4. CASE ReconcileSteps
  BY <1>4, LedgerReconcileBook, LedgerSave, LedgerIdle DEF ReconcileSteps
<1>5. CASE CancelSteps \/ CycleSteps \/ StopSteps
  BY <1>5, LedgerSave, LedgerIdle DEF CancelSteps
<1>6. CASE StartSteps
  BY <1>6, LedgerRestoreBook, LedgerSave, LedgerIdle DEF StartSteps
<1>7. CASE UNCHANGED vars
  BY <1>7 DEF vars, Ledger!ledger
<1> QED
  BY <1>1, <1>2, <1>3, <1>4, <1>5, <1>6, <1>7 DEF Next, Process

\* The detailed executor implements the ledger: under every interleaving with
\* the venue, every failed call and every crash.
THEOREM LedgerImplemented == Spec => ImplementsLedger
BY InvariantHolds, LedgerInit, LedgerNext, PTL DEF Spec, ImplementsLedger, Ledger!Spec
=============================================================================
