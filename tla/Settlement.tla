----------------------------- MODULE Settlement -----------------------------
(***************************************************************************)
(* How a bet ends: Runner._settle_resolved pays it when its market has     *)
(* resolved, Runner._manage_positions sells it before, and a partial sale  *)
(* is banked in the key-value table until the rest is out.                 *)
(*                                                                         *)
(* One market is modelled, with the paper and the live process that may    *)
(* share one database file.  A process is the sequence of commits it does, *)
(* so a crash may fall between any two.  Money is counted in units chosen  *)
(* so that every share is whole; the rounding to cents is left out.        *)
(***************************************************************************)
EXTENDS Integers, FiniteSets, FiniteSetsExt

CONSTANTS
    Modes,      \* the processes sharing the file
    Live,       \* the mode that trades on the venue; the others are paper
    Sides,      \* "yes" and "no" of the market
    Bets,       \* the bets that may fill
    BetMode,    \* the mode of a bet
    BetSide,    \* its side
    Size,       \* its contracts
    Stake,      \* what it cost
    SellPrice,  \* proceeds of one contract sold early, fee deducted
    Payout,     \* what a winning contract pays
    MaxDepth,   \* contracts a book may take (bound)
    MaxCrashes  \* crashes explored (bound)

ASSUME SettlementAssumption ==
    /\ Live \in Modes /\ "none" \notin Sides
    /\ IsFiniteSet(Bets)
    /\ BetMode \in [Bets -> Modes] /\ BetSide \in [Bets -> Sides]
    /\ Size \in [Bets -> Nat \ {0}] /\ Stake \in [Bets -> Nat \ {0}]
    /\ SellPrice \in Nat /\ Payout \in Nat /\ SellPrice < Payout
    /\ MaxDepth \in Nat /\ MaxCrashes \in Nat

VARIABLES
    row,      \* per bet: "unfilled", "unbooked" (filled, no row), then its row
    credit,   \* per bet: what the ledger paid it, pnl + stake
    bank,     \* per side: the partial_close key; no mode in it
    held,     \* per mode and side: contracts at the venue (paper: in memory)
    winner,   \* the side the market resolved to, or "none"
    pc,       \* per mode: the next commit of its cycle
    job,      \* per mode: what the loop in hand has read
    depth,    \* per mode and side: what the book would take at an exit signal
              \* of this cycle; 0 without a signal
    crashes,
    \* History, read by no action.
    sold,     \* per mode and side: contracts sold early
    owner,    \* per side: the mode that wrote the bank
    flaw      \* per mode and side: which known failure happened to it

files == <<row, credit, bank>>
hist == <<sold, owner, flaw>>
vars == <<files, held, winner, pc, job, depth, crashes, hist>>

EmptyBank == [closed |-> 0, proceeds |-> 0]
NoJob == [todo |-> {}, sides |-> {}, size |-> [s \in Sides |-> 0],
          bank |-> [s \in Sides |-> EmptyBank], side |-> "none", sale |-> 0]

Flaws == {"torn", "late", "shared"}
Final == {"closed", "settled"}

Total(f, S) == SumFunctionOnSet(f, S)
InBook(p, s) == {b \in Bets : BetMode[b] = p /\ BetSide[b] = s}

\* The unit of money: small enough for every share the code may work out of
\* the bets S of one book, n of whose contracts were sold.
ASSUME SharesAreWhole ==
    \A p \in Modes, s \in Sides : \A S \in SUBSET InBook(p, s) : \A b \in S :
        /\ (Total(Size, S) * SellPrice * Stake[b]) % Total(Stake, S) = 0
        /\ \A n \in 0 .. Total(Size, S) :
             /\ (n * SellPrice * Size[b]) % Total(Size, S) = 0
             /\ (Size[b] * (Total(Size, S) - n) * Payout) % Total(Size, S) = 0

\* aggregate_open_bets: the open rows of one mode and side.
OpenBets(p, s) == {b \in InBook(p, s) : row[b] = "open"}
AllOpen(p) == UNION {OpenBets(p, s) : s \in Sides}
AggSize(p, s) == Total(Size, OpenBets(p, s))
Min2(x, y) == IF x < y THEN x ELSE y
Above(x, y) == IF x > y THEN x - y ELSE 0

Init ==
    /\ row = [b \in Bets |-> "unfilled"]
    /\ credit = [b \in Bets |-> 0]
    /\ bank = [s \in Sides |-> EmptyBank]
    /\ held = [p \in Modes |-> [s \in Sides |-> 0]]
    /\ winner = "none"
    /\ pc = [p \in Modes |-> "reconcile"]
    /\ job = [p \in Modes |-> NoJob]
    /\ depth = [p \in Modes |-> [s \in Sides |-> 0]]
    /\ crashes = 0
    /\ sold = [p \in Modes |-> [s \in Sides |-> 0]]
    /\ owner = [s \in Sides |-> Live]
    /\ flaw = [p \in Modes |-> [s \in Sides |-> {}]]

-----------------------------------------------------------------------------
(* The history. *)

\* p reads or writes a bank that another mode has filled.
Foreign(p, S) == {s \in S : bank[s] # EmptyBank /\ owner[s] # p}
Shared(p, S) ==
    [q \in Modes |-> [s \in Sides |->
        IF s \in Foreign(p, S) /\ q \in {p, owner[s]}
        THEN flaw[q][s] \union {"shared"} ELSE flaw[q][s]]]
Mark(p, S, kind) ==
    flaw' = [flaw EXCEPT ![p] =
                [s \in Sides |-> IF s \in S THEN @[s] \union {kind} ELSE @[s]]]

Goto(p, to) == pc' = [pc EXCEPT ![p] = to]

-----------------------------------------------------------------------------
(* The venue. *)

\* A resting live order fills between two reads of ours; a paper order fills
\* only when the process reads the tape, at the start of a cycle.
Fill(b) ==
    LET p == BetMode[b]
        s == BetSide[b]
    IN  /\ row[b] = "unfilled" /\ winner = "none"
        /\ p # Live => pc[p] = "reconcile"
        /\ row' = [row EXCEPT ![b] = "unbooked"]
        /\ held' = [held EXCEPT ![p][s] = @ + Size[b]]
        /\ UNCHANGED <<credit, bank, winner, pc, job, depth, crashes, hist>>

\* The market resolves; the venue pays live positions and they are gone.
Resolve ==
    /\ winner = "none"
    /\ winner' \in Sides
    /\ held' = [held EXCEPT ![Live] = [s \in Sides |-> 0]]
    /\ UNCHANGED <<files, pc, job, depth, crashes, hist>>

-----------------------------------------------------------------------------
(* A cycle: reconcile, settle, the risk gate, then the exit pass. *)

\* reconcile_open_orders: every fill known by now becomes a bet.
Reconcile(p) ==
    /\ pc[p] = "reconcile"
    /\ row' = [b \in Bets |-> IF BetMode[b] = p /\ row[b] = "unbooked"
                              THEN "open" ELSE row[b]]
    /\ Goto(p, "settle")
    /\ UNCHANGED <<credit, bank, held, winner, job, depth, crashes, hist>>

\* get_resolution answers None, or raises: nothing is settled this cycle.
Unresolved(p) ==
    /\ pc[p] = "settle"
    /\ Goto(p, "gate")
    /\ UNCHANGED <<files, held, winner, job, depth, crashes, hist>>

\* The sizes per side and the banks are read once, before the first bet.
SettleUnbanked(p) ==  \* mutant: a market with a banked sale is left alone
    /\ pc[p] = "settle" /\ winner # "none" /\ AllOpen(p) # {}
    /\ \A s \in Sides : bank[s] = EmptyBank
    /\ job' = [job EXCEPT ![p] =
                 [NoJob EXCEPT !.todo = AllOpen(p), !.sides = Sides,
                      !.size = [s \in Sides |-> AggSize(p, s)]]]
    /\ Goto(p, "settling")
    /\ UNCHANGED <<files, held, winner, depth, crashes, hist>>
SettleStart(p) ==
    /\ pc[p] = "settle" /\ winner # "none" /\ AllOpen(p) # {}
    /\ LET S == {BetSide[b] : b \in AllOpen(p)}
       IN  /\ job' = [job EXCEPT ![p] =
                        [NoJob EXCEPT !.todo = AllOpen(p), !.sides = S,
                             !.size = [s \in Sides |-> AggSize(p, s)],
                             !.bank = bank]]
           /\ flaw' = Shared(p, S)
    /\ Goto(p, "settling")
    /\ UNCHANGED <<files, held, winner, depth, crashes, sold, owner>>

\* A bet's share of the bank, plus the payout of the part not sold.
SettledInFull(b, j) ==  \* mutant: the part sold early is paid again
    LET s == BetSide[b]
        total == j.size[s]
    IN  (j.bank[s].proceeds * Size[b]) \div total
        + (IF s = winner THEN Size[b] * Payout ELSE 0)
SettledCredit(b, j) ==
    LET s == BetSide[b]
        total == j.size[s]
        rest == Above(total, j.bank[s].closed)
    IN  (j.bank[s].proceeds * Size[b]) \div total
        + (IF s = winner THEN (Size[b] * rest * Payout) \div total ELSE 0)

SettleOne(p) ==
    /\ pc[p] = "settling"
    /\ \E b \in job[p].todo :
         /\ row' = [row EXCEPT ![b] = "settled"]
         /\ credit' = [credit EXCEPT ![b] = @ + SettledCredit(b, job[p])]
         /\ job' = [job EXCEPT ![p].todo = @ \ {b}]
         /\ Goto(p, IF job[p].todo = {b} THEN "settled" ELSE "settling")
    /\ UNCHANGED <<bank, held, winner, depth, crashes, hist>>

\* The banks that were read are cleared and the paper positions paid.
BanksToClear(p) == {s \in job[p].sides : job[p].bank[s].closed > 0}
SettleEnd(p) ==
    /\ pc[p] = "settled"
    /\ bank' = [s \in Sides |-> IF s \in BanksToClear(p) THEN EmptyBank ELSE bank[s]]
    /\ held' = [held EXCEPT ![p] = [s \in Sides |-> 0]]
    /\ flaw' = Shared(p, BanksToClear(p))
    /\ job' = [job EXCEPT ![p] = NoJob]
    /\ Goto(p, "gate")
    /\ UNCHANGED <<row, credit, winner, depth, crashes, sold, owner>>

\* check_global refuses and the cycle returns.
GateBlocks(p) ==
    /\ pc[p] = "gate"
    /\ Goto(p, "reconcile")
    /\ UNCHANGED <<files, held, winner, job, depth, crashes, hist>>

\* The scan quotes the market; both sides are then looked at in turn.
GatePasses(p) ==
    /\ pc[p] = "gate"
    /\ \E d \in [Sides -> 0 .. MaxDepth] :
         /\ \A s \in Sides : OpenBets(p, s) = {} => d[s] = 0
         /\ depth' = [depth EXCEPT ![p] = d]
    /\ job' = [job EXCEPT ![p] =
                 [NoJob EXCEPT !.sides = {s \in Sides : OpenBets(p, s) # {}}]]
    /\ Goto(p, "manage")
    /\ UNCHANGED <<files, held, winner, crashes, hist>>

Looked(p, s) == job' = [job EXCEPT ![p].sides = @ \ {s}]

\* An exit signal whose book would not take the whole aggregate.
TooThin(p, s) == depth[p][s] < AggSize(p, s)

\* No exit signal, or the closer sells nothing.
Hold(p, s) ==
    /\ pc[p] = "manage" /\ s \in job[p].sides
    /\ depth[p][s] = 0 \/ ~ TooThin(p, s)
    /\ Looked(p, s)
    /\ UNCHANGED <<files, held, winner, pc, depth, crashes, hist>>

SkipThin(p, s) ==
    /\ pc[p] = "manage" /\ s \in job[p].sides
    /\ depth[p][s] > 0 /\ TooThin(p, s)
    /\ Looked(p, s)
    /\ UNCHANGED <<files, held, winner, pc, depth, crashes, hist>>

\* close_position sells the position the venue reports, not the aggregate.
\* The live IOC may fill in part; the paper walk sells all the book takes.
SellAggregate(p, s) == Min2(AggSize(p, s), depth[p][s])  \* mutant: sells what the rows say
Sellable(p, s) == Min2(held[p][s], depth[p][s])
Sales(p, s) ==
    IF p = Live THEN 1 .. Sellable(p, s) ELSE {Sellable(p, s)} \ {0}
LateSale(p, s, f) == f > Above(AggSize(p, s), bank[s].closed)

AtVenue(p, s, f) ==
    /\ pc[p] = "manage" /\ s \in job[p].sides /\ winner = "none"
    /\ ~ TooThin(p, s)
    /\ f \in Sales(p, s)
    /\ held' = [held EXCEPT ![p][s] = @ - f]
    /\ sold' = [sold EXCEPT ![p][s] = @ + f]
    /\ UNCHANGED <<files, winner, depth, crashes, owner>>

Sell(p, s, f) ==
    /\ AtVenue(p, s, f)
    /\ job' = [job EXCEPT ![p] = [@ EXCEPT !.side = s, !.sale = f, !.todo = OpenBets(p, s)]]
    /\ IF LateSale(p, s, f) THEN Mark(p, {s}, "late") ELSE UNCHANGED flaw
    /\ Goto(p, "sold")

\* The reply to the IOC is lost: place_order reports rejected, the closer
\* None, and nothing is banked.
SellUnheard(p, s, f) ==
    /\ p = Live
    /\ AtVenue(p, s, f)
    /\ Looked(p, s)
    /\ Mark(p, {s}, "torn")
    /\ UNCHANGED pc

\* Add the sale to the bank; below the aggregate it stays banked.
AfterSaleOnly(p, s) ==  \* mutant: the bank is overwritten, not added to
    [closed |-> job[p].sale, proceeds |-> job[p].sale * SellPrice]
AfterSale(p, s) ==
    [closed   |-> bank[s].closed + job[p].sale,
     proceeds |-> bank[s].proceeds + job[p].sale * SellPrice]

BankPartial(p) ==
    LET s == job[p].side
    IN  /\ pc[p] = "sold"
        /\ AfterSale(p, s).closed < AggSize(p, s)
        /\ bank' = [bank EXCEPT ![s] = AfterSale(p, s)]
        /\ owner' = [owner EXCEPT ![s] = p]
        /\ flaw' = Shared(p, {s})
        /\ job' = [job EXCEPT ![p] = [NoJob EXCEPT !.sides = job[p].sides \ {s}]]
        /\ Goto(p, "manage")
        /\ UNCHANGED <<row, credit, held, winner, depth, crashes, sold>>

CloseStart(p) ==
    LET s == job[p].side
    IN  /\ pc[p] = "sold"
        /\ AfterSale(p, s).closed >= AggSize(p, s)
        /\ job' = [job EXCEPT ![p] =
                     [job[p] EXCEPT !.bank[s] = AfterSale(p, s),
                                    !.size[s] = Total(Stake, OpenBets(p, s)),
                                    !.sides = job[p].sides \ {s}]]
        /\ flaw' = Shared(p, {s})
        /\ Goto(p, "closing")
        /\ UNCHANGED <<files, held, winner, depth, crashes, sold, owner>>

\* Every bet gets its share of all proceeds by stake, one commit each.
ClosedCredit(b, j) ==
    (j.bank[BetSide[b]].proceeds * Stake[b]) \div j.size[BetSide[b]]

CloseOne(p) ==
    /\ pc[p] = "closing" /\ job[p].todo # {}
    /\ \E b \in job[p].todo :
         /\ row' = [row EXCEPT ![b] = "closed"]
         /\ credit' = [credit EXCEPT ![b] = @ + ClosedCredit(b, job[p])]
         /\ job' = [job EXCEPT ![p].todo = @ \ {b}]
    /\ UNCHANGED <<bank, held, winner, pc, depth, crashes, hist>>

\* Then the bank of the side is cleared.
CloseEndEarly(p) ==  \* mutant: the bank is cleared before the bets close
    /\ pc[p] = "closing" /\ job[p].todo # {}
    /\ bank' = [bank EXCEPT ![job[p].side] = EmptyBank]
    /\ flaw' = Shared(p, {job[p].side})
    /\ UNCHANGED <<row, pc, job, credit, held, winner, depth, crashes, sold, owner>>
CloseEnd(p) ==
    /\ pc[p] = "closing" /\ job[p].todo = {}
    /\ bank' = [bank EXCEPT ![job[p].side] = EmptyBank]
    /\ flaw' = Shared(p, {job[p].side})
    /\ job' = [job EXCEPT ![p] = [NoJob EXCEPT !.sides = job[p].sides]]
    /\ Goto(p, "manage")
    /\ UNCHANGED <<row, credit, held, winner, depth, crashes, sold, owner>>

EndCycle(p) ==
    /\ pc[p] = "manage" /\ job[p].sides = {}
    /\ depth' = [depth EXCEPT ![p] = [s \in Sides |-> 0]]
    /\ Goto(p, "reconcile")
    /\ UNCHANGED <<files, held, winner, job, crashes, hist>>

-----------------------------------------------------------------------------
(* A crash forgets the job in hand and, for paper, the positions. *)

\* The sides on which a crash now leaves the file and the money apart.
Torn(p) ==
    CASE pc[p] = "sold" -> {job[p].side}
      [] pc[p] = "closing" ->
            {s \in {job[p].side} : job[p].todo # {} \/ bank[s] # EmptyBank}
      [] pc[p] = "settling" ->
            {s \in job[p].sides : /\ job[p].bank[s] # EmptyBank
                                  /\ AggSize(p, s) < job[p].size[s]}
      [] pc[p] = "settled" -> BanksToClear(p)
      [] OTHER -> {}

Crash(p) ==
    /\ crashes < MaxCrashes /\ crashes' = crashes + 1
    /\ Mark(p, Torn(p), "torn")
    /\ held' = IF p = Live THEN held
               ELSE [held EXCEPT ![p] = [s \in Sides |-> 0]]
    /\ job' = [job EXCEPT ![p] = NoJob]
    /\ depth' = [depth EXCEPT ![p] = [s \in Sides |-> 0]]
    /\ Goto(p, "reconcile")
    /\ UNCHANGED <<files, winner, sold, owner>>

-----------------------------------------------------------------------------
Manage(p) == \E s \in Sides :
    Hold(p, s) \/ SkipThin(p, s)
    \/ \E f \in 1 .. MaxDepth : Sell(p, s, f) \/ SellUnheard(p, s, f)

Settle(p) == Unresolved(p) \/ SettleStart(p) \/ SettleOne(p) \/ SettleEnd(p)
Closing(p) == BankPartial(p) \/ CloseStart(p) \/ CloseOne(p) \/ CloseEnd(p)

Cycle(p) ==
    \/ Reconcile(p) \/ Settle(p)
    \/ GateBlocks(p) \/ GatePasses(p)
    \/ Manage(p) \/ Closing(p) \/ EndCycle(p)

Next ==
    \/ \E b \in Bets : Fill(b)
    \/ Resolve
    \/ \E p \in Modes : Cycle(p) \/ Crash(p)

Spec == Init /\ [][Next]_vars

\* run_forever cycles for ever; get_resolution is answered again and again.
Fairness == \A p \in Modes : WF_vars(Cycle(p)) /\ SF_vars(SettleStart(p))
FairSpec == Spec /\ Fairness

-----------------------------------------------------------------------------
(* Properties. *)

Counters == [Modes -> [Sides -> Nat]]
TypeOK ==
    /\ row \in [Bets -> {"unfilled", "unbooked", "open"} \union Final]
    /\ credit \in [Bets -> Nat]
    /\ bank \in [Sides -> [closed : Nat, proceeds : Nat]]
    /\ held \in Counters /\ sold \in Counters /\ depth \in Counters
    /\ winner \in Sides \union {"none"}
    /\ pc \in [Modes -> {"reconcile", "settle", "settling", "settled", "gate",
                         "manage", "sold", "closing"}]
    /\ \A p \in Modes : /\ job[p].todo \subseteq Bets
                        /\ job[p].sides \subseteq Sides
                        /\ job[p].side \in Sides \union {"none"}
                        /\ job[p].sale \in 0 .. MaxDepth
    /\ crashes \in 0 .. MaxCrashes
    /\ owner \in [Sides -> Modes]
    /\ flaw \in [Modes -> [Sides -> SUBSET Flaws]]

Filled(p, s) == {b \in InBook(p, s) : row[b] # "unfilled"}
AllFinal(p, s) == Filled(p, s) # {} /\ \A b \in Filled(p, s) : row[b] \in Final
\* What the contracts were worth: those sold at their price, the rest settled.
Worth(p, s) ==
    sold[p][s] * SellPrice
    + (IF s = winner THEN (Total(Size, Filled(p, s)) - sold[p][s]) * Payout ELSE 0)

\* Every contract is paid once.  Once the bets of a book are final, the pnl in
\* the ledger (positions closed in parts, banked, settled for the remainder,
\* runner.py:596-626 and 764-780) adds up to what its contracts brought,
\* unless one of the three known failures happened to that book.
PaidOnce ==
    \A p \in Modes, s \in Sides :
        AllFinal(p, s) /\ flaw[p][s] = {} => Total(credit, Filled(p, s)) = Worth(p, s)

Between(p) == pc[p] \notin {"sold", "closing", "settling", "settled"}
OwnBank(p, s) == IF owner[s] = p THEN bank[s].closed ELSE 0

\* Between two jobs the live position is what the open bets hold less what
\* the bank says was sold: the exit pass never sells contracts the ledger
\* still counts, and never banks contracts still held (runner.py:764-770).
PositionMatchesBook ==
    \A s \in Sides :
        winner = "none" /\ Between(Live) /\ flaw[Live][s] = {} =>
            held[Live][s] + OwnBank(Live, s)
              = Total(Size, {b \in Filled(Live, s) : row[b] \notin Final})

\* Banked proceeds are dropped only when every bet they are shared over is
\* final, whatever crashes (runner.py:624-626, 775-780).
BankClearedLast ==
    [][\A s \in Sides :
          bank[s] # EmptyBank /\ bank'[s] = EmptyBank /\ flaw'[owner[s]][s] = {}
            => OpenBets(owner[s], s) = {}]_vars

\* Once the market has resolved every filled bet ends, though settling one
\* may be cut short by crashes (runner.py:581-629).
BetsEnd ==
    winner # "none" ~> \A b \in Bets : row[b] \in Final \union {"unfilled"}

\* "the bets close only once the whole aggregate is out (next cycles retry
\* the remainder)" (runner.py:760-763): an exit is never put off for want of
\* depth while the book would take all that is left to sell.
RemainderRetried ==
    [][\A p \in Modes, s \in Sides :
          SkipThin(p, s) => depth[p][s] < Above(AggSize(p, s), bank[s].closed)]_vars
=============================================================================
