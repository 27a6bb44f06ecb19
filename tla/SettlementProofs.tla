-------------------------- MODULE SettlementProofs --------------------------
(***************************************************************************)
(* Banked proceeds are never dropped early and every contract is paid      *)
(* once, for every value of the constants: any number of processes, bets,  *)
(* sides and crashes.                                                      *)
(*                                                                         *)
(* The first argument: a process that settles or closes works from a set   *)
(* of bets it has read; no other step changes which of them are open, so   *)
(* what is left of that set is what is still open.  The second: the books  *)
(* balance at every commit, if what the job in hand still owes its open    *)
(* bets is counted with what the final ones were credited.                 *)
(***************************************************************************)
EXTENDS Settlement, SumLemmas

RowStates == {"unfilled", "unbooked", "open"} \union Final
Phases == {"reconcile", "settle", "settling", "settled", "gate", "manage", "sold", "closing"}
Banks == [closed : Nat, proceeds : Nat]

JobFields == {"todo", "sides", "size", "bank", "side", "sale"}
IsJob(j) == j = [f \in JobFields |-> j[f]]

Shapes ==
    /\ row \in [Bets -> RowStates]
    /\ bank \in [Sides -> Banks]
    /\ pc \in [Modes -> Phases]
    /\ job = [p \in Modes |-> job[p]]
    /\ \A p \in Modes : IsJob(job[p])
    /\ owner \in [Sides -> Modes]
    /\ flaw \in [Modes -> [Sides -> SUBSET Flaws]]

\* What the job in hand has to do with the rows.
JobFits(p) ==
    /\ pc[p] \in {"settling", "settled"} => job[p].todo = AllOpen(p)
    /\ pc[p] = "settled" => job[p].todo = {}
    /\ pc[p] \in {"sold", "closing"} =>
         job[p].side \in Sides /\ job[p].todo = OpenBets(p, job[p].side)
    /\ pc[p] = "sold" => job[p].sale \in Nat \ {0}

IInv == Shapes /\ \A p \in Modes : JobFits(p)

-----------------------------------------------------------------------------
(* Lemmas. *)

\* A mode is left alone by a step that keeps its phase, its job and which of
\* its bets are open.
LeftAlone(q) ==
    /\ pc'[q] = pc[q] /\ job'[q] = job[q]
    /\ \A b \in Bets : BetMode[b] = q => (row'[b] = "open" <=> row[b] = "open")

LEMMA SameOpen ==
    ASSUME NEW q,
           \A b \in Bets : BetMode[b] = q => (row'[b] = "open" <=> row[b] = "open")
    PROVE  /\ \A s : OpenBets(q, s)' = OpenBets(q, s)
           /\ AllOpen(q)' = AllOpen(q)
<1>1. \A s : OpenBets(q, s)' = OpenBets(q, s)
  BY DEF OpenBets, InBook
<1>2. AllOpen(q)' = UNION {OpenBets(q, s)' : s \in Sides}
  BY DEF AllOpen
<1> QED BY <1>1, <1>2 DEF AllOpen

LEMMA AloneFits ==
    ASSUME NEW q \in Modes, JobFits(q), LeftAlone(q)
    PROVE  JobFits(q)'
<1>1. /\ \A s : OpenBets(q, s)' = OpenBets(q, s)
      /\ AllOpen(q)' = AllOpen(q)
  BY SameOpen DEF LeftAlone
<1>2. OpenBets(q, job[q].side)' = OpenBets(q, job[q].side)
  BY <1>1 DEF OpenBets, InBook, LeftAlone
<1> QED BY <1>1, <1>2 DEF JobFits, LeftAlone

\* A process that is between two jobs owes nothing.
LEMMA IdleFits ==
    ASSUME NEW p \in Modes, pc'[p] \notin {"settling", "settled", "sold", "closing"}
    PROVE  JobFits(p)'
BY DEF JobFits

LEMMA NoJobIsJob == IsJob(NoJob) /\ NoJob.todo = {}
BY DEF IsJob, NoJob, JobFields

\* A job stays one when some of its fields are written.
LEMMA TodoOnly ==
    ASSUME NEW j, IsJob(j), NEW x
    PROVE  /\ IsJob([j EXCEPT !.todo = x])
           /\ [j EXCEPT !.todo = x].todo = x
           /\ [j EXCEPT !.todo = x].side = j.side
BY DEF IsJob, JobFields

LEMMA CloseExcept ==
    ASSUME NEW j, IsJob(j), NEW a, NEW b, NEW c, NEW i
    PROVE  /\ IsJob([j EXCEPT !.bank[i] = a, !.size[i] = b, !.sides = c])
           /\ [j EXCEPT !.bank[i] = a, !.size[i] = b, !.sides = c].todo = j.todo
           /\ [j EXCEPT !.bank[i] = a, !.size[i] = b, !.sides = c].side = j.side
BY DEF IsJob, JobFields

LEMMA SidesExcept ==
    ASSUME NEW j, IsJob(j), NEW a
    PROVE  /\ IsJob([j EXCEPT !.sides = a])
           /\ [j EXCEPT !.sides = a].todo = j.todo
           /\ [j EXCEPT !.sides = a].side = j.side
BY DEF IsJob, JobFields

LEMMA EmptyIsBank == EmptyBank \in Banks /\ \A n \in Nat \ {0} : \A m : [closed |-> n, proceeds |-> m] # EmptyBank
BY SMT DEF EmptyBank, Banks

LEMMA GotoTypes ==
    ASSUME Shapes, NEW p \in Modes, NEW to \in Phases, Goto(p, to)
    PROVE  pc' \in [Modes -> Phases] /\ pc'[p] = to /\ \A q \in Modes \ {p} : pc'[q] = pc[q]
BY DEF Shapes, Goto

LEMMA SharedTypes ==
    ASSUME Shapes, NEW p \in Modes, NEW S \in SUBSET Sides
    PROVE  Shared(p, S) \in [Modes -> [Sides -> SUBSET Flaws]]
BY DEF Shapes, Shared, Flaws

LEMMA MarkTypes ==
    ASSUME Shapes, NEW p \in Modes, NEW S, NEW kind \in Flaws, Mark(p, S, kind)
    PROVE  flaw' \in [Modes -> [Sides -> SUBSET Flaws]]
BY DEF Shapes, Mark

\* A step of p that gives it the job j.
LEMMA JobTypes ==
    ASSUME Shapes, NEW p \in Modes, NEW j, IsJob(j), job' = [job EXCEPT ![p] = j]
    PROVE  /\ job' = [q \in Modes |-> job'[q]] /\ \A q \in Modes : IsJob(job'[q])
           /\ job'[p] = j /\ \A q \in Modes \ {p} : job'[q] = job[q]
BY DEF Shapes

LEMMA StepOf ==
    ASSUME IInv, NEW p \in Modes, Shapes', JobFits(p)',
           \A q \in Modes \ {p} : LeftAlone(q)
    PROVE  IInv'
<1>1. ASSUME NEW q \in Modes PROVE JobFits(q)'
  <2>1. CASE q = p
    BY <2>1
  <2>2. CASE q # p
    BY <2>2, AloneFits DEF IInv
  <2> QED BY <2>1, <2>2
<1> QED BY <1>1 DEF IInv

\* A step of p that writes no row, in its phase and its job.
LEMMA OwnStep ==
    ASSUME IInv, NEW p \in Modes, row' = row,
           bank' \in [Sides -> Banks], owner' \in [Sides -> Modes],
           flaw' \in [Modes -> [Sides -> SUBSET Flaws]],
           NEW to \in Phases, Goto(p, to) \/ (pc' = pc /\ to = pc[p]),
           NEW j, IsJob(j), job' = [job EXCEPT ![p] = j],
           JobFits(p)'
    PROVE  IInv'
<1>1. Shapes
  BY DEF IInv
<1>2. pc' \in [Modes -> Phases] /\ \A q \in Modes \ {p} : pc'[q] = pc[q]
  BY <1>1, GotoTypes DEF Shapes
<1>3. Shapes'
  BY <1>1, <1>2, JobTypes DEF Shapes
<1>4. \A q \in Modes \ {p} : LeftAlone(q)
  BY <1>1, <1>2, JobTypes DEF LeftAlone
<1> QED BY <1>3, <1>4, StepOf

-----------------------------------------------------------------------------
(* Every step keeps the invariant. *)

LEMMA InitIInv == Init => IInv
<1> SUFFICES ASSUME Init PROVE IInv
  OBVIOUS
<1>1. Shapes
  BY NoJobIsJob, EmptyIsBank, SettlementAssumption DEF Init, Shapes, RowStates, Phases
<1>2. \A p \in Modes : JobFits(p)
  BY DEF Init, JobFits
<1> QED BY <1>1, <1>2 DEF IInv

\* No bet opens or ends and no job moves.
LEMMA NothingMoves ==
    ASSUME IInv, row' \in [Bets -> RowStates], UNCHANGED <<bank, pc, job, owner, flaw>>,
           \A b \in Bets : row'[b] = "open" <=> row[b] = "open"
    PROVE  IInv'
<1>1. Shapes'
  BY DEF IInv, Shapes, IsJob
<1>2. \A p \in Modes : LeftAlone(p)
  BY DEF LeftAlone
<1> QED BY <1>1, <1>2, AloneFits DEF IInv

LEMMA VenueKeeps ==
    ASSUME IInv, Resolve \/ \E b \in Bets : Fill(b)
    PROVE  IInv'
<1>1. CASE Resolve
  BY <1>1, NothingMoves DEF Resolve, files, hist, IInv, Shapes
<1>2. ASSUME NEW b \in Bets, Fill(b) PROVE IInv'
  <2>1. row' = [row EXCEPT ![b] = "unbooked"] /\ row[b] = "unfilled"
        /\ UNCHANGED <<bank, pc, job, owner, flaw>>
    BY <1>2 DEF Fill, hist
  <2>2. row' \in [Bets -> RowStates]
        /\ \A a \in Bets : row'[a] = "open" <=> row[a] = "open"
    BY <2>1 DEF IInv, Shapes, RowStates
  <2> QED BY <2>1, <2>2, NothingMoves
<1> QED BY <1>1, <1>2

\* Reconcile opens bets of p while p has no job.
LEMMA ReconcileKeeps ==
    ASSUME IInv, NEW p \in Modes, Reconcile(p)
    PROVE  IInv'
<1>1. Shapes /\ Goto(p, "settle") /\ "settle" \in Phases
  BY DEF IInv, Reconcile, Phases
<1>2. pc' \in [Modes -> Phases] /\ pc'[p] = "settle" /\ \A q \in Modes \ {p} : pc'[q] = pc[q]
  BY <1>1, GotoTypes
<1>3. row' = [b \in Bets |-> IF BetMode[b] = p /\ row[b] = "unbooked" THEN "open" ELSE row[b]]
      /\ UNCHANGED <<bank, job, owner, flaw>>
  BY DEF Reconcile, hist
<1>4. Shapes'
  BY <1>1, <1>2, <1>3 DEF Shapes, RowStates, IsJob
<1>5. \A q \in Modes \ {p} : LeftAlone(q)
  BY <1>2, <1>3 DEF LeftAlone
<1>6. JobFits(p)'
  BY <1>2, IdleFits
<1> QED BY <1>4, <1>5, <1>6, StepOf

LEMMA SettleStartKeeps ==
    ASSUME IInv, NEW p \in Modes, SettleStart(p)
    PROVE  IInv'
<1> DEFINE S == {BetSide[b] : b \in AllOpen(p)}
           j == [NoJob EXCEPT !.todo = AllOpen(p), !.sides = S,
                    !.size = [s \in Sides |-> AggSize(p, s)], !.bank = bank]
<1>1. /\ Shapes /\ Goto(p, "settling") /\ "settling" \in Phases
      /\ job' = [job EXCEPT ![p] = j] /\ flaw' = Shared(p, S)
      /\ UNCHANGED <<row, bank, owner>>
  BY DEF IInv, SettleStart, Phases, files
<1>2. S \in SUBSET Sides
  BY SettlementAssumption DEF AllOpen, OpenBets, InBook
<1>3. IsJob(j) /\ j.todo = AllOpen(p)
  BY NoJobIsJob DEF IsJob, JobFields
<1> HIDE DEF j, S
<1>4. flaw' \in [Modes -> [Sides -> SUBSET Flaws]]
  BY <1>1, <1>2, SharedTypes
<1>5. pc'[p] = "settling" /\ job'[p] = j
  BY <1>1, <1>3, GotoTypes, JobTypes
<1>6. AllOpen(p)' = AllOpen(p)
  BY <1>1, SameOpen
<1>7. JobFits(p)'
  BY <1>3, <1>5, <1>6 DEF JobFits
<1> QED BY <1>1, <1>3, <1>4, <1>7, OwnStep DEF IInv, Shapes

\* One bet of the job ends, in the job and in the table.
LEMMA OneEnds ==
    ASSUME IInv, NEW p \in Modes, NEW b \in job[p].todo, NEW final \in Final,
           pc[p] \in {"settling", "closing"},
           row' = [row EXCEPT ![b] = final],
           job' = [job EXCEPT ![p].todo = @ \ {b}],
           (Goto(p, "settled") /\ pc[p] = "settling" /\ job[p].todo = {b}) \/ pc' = pc,
           UNCHANGED <<bank, owner, flaw>>
    PROVE  IInv'
<1>1. Shapes /\ JobFits(p) /\ "settled" \in Phases
  BY DEF IInv, Phases
<1> DEFINE j == [job[p] EXCEPT !.todo = @ \ {b}]
<1>2. job' = [job EXCEPT ![p] = j]
  BY <1>1 DEF Shapes
<1>3. IsJob(j) /\ j.todo = job[p].todo \ {b} /\ j.side = job[p].side
  BY <1>1, TodoOnly DEF Shapes
<1> HIDE DEF j
<1>4. /\ pc' \in [Modes -> Phases] /\ \A q \in Modes \ {p} : pc'[q] = pc[q]
      /\ pc'[p] = pc[p] \/ (pc'[p] = "settled" /\ pc[p] = "settling" /\ job[p].todo = {b})
  BY <1>1, GotoTypes DEF Shapes
<1>5. job'[p] = j /\ \A q \in Modes \ {p} : job'[q] = job[q]
  BY <1>1, <1>2, <1>3, JobTypes
<1>6. b \in Bets /\ BetMode[b] = p
  BY <1>1 DEF JobFits, AllOpen, OpenBets, InBook
<1>7. Shapes'
  BY <1>1, <1>2, <1>3, <1>4, <1>6, JobTypes DEF Shapes, RowStates, Final
<1>8. row'[b] # "open" /\ \A a \in Bets \ {b} : row'[a] = row[a]
  BY <1>1, <1>6 DEF Shapes, Final
<1>9. /\ \A s : OpenBets(p, s)' = OpenBets(p, s) \ {b}
      /\ AllOpen(p)' = AllOpen(p) \ {b}
  <2>1. \A s : OpenBets(p, s)' = OpenBets(p, s) \ {b}
    BY <1>8 DEF OpenBets, InBook
  <2>2. AllOpen(p)' = UNION {OpenBets(p, s)' : s \in Sides}
    BY DEF AllOpen
  <2> QED BY <2>1, <2>2 DEF AllOpen
<1>10. JobFits(p)'
  <2>1. CASE pc[p] = "settling"
    BY <1>1, <1>3, <1>4, <1>5, <1>9, <2>1 DEF JobFits
  <2>2. CASE pc[p] = "closing"
    <3>1. pc'[p] = "closing"
      BY <1>4, <2>2
    <3>2. job'[p].side = job[p].side /\ job'[p].todo = job[p].todo \ {b}
      BY <1>3, <1>5
    <3>3. PICK d \in Sides : d = job[p].side /\ job[p].todo = OpenBets(p, d)
      BY <1>1, <2>2 DEF JobFits
    <3>4. OpenBets(p, job[p].side)' = OpenBets(p, d)'
      BY <3>2, <3>3 DEF OpenBets, InBook
    <3> QED BY <1>9, <3>1, <3>2, <3>3, <3>4 DEF JobFits
  <2> QED BY <2>1, <2>2
<1>11. \A q \in Modes \ {p} : LeftAlone(q)
  BY <1>4, <1>5, <1>6, <1>8 DEF LeftAlone
<1> QED BY <1>7, <1>10, <1>11, StepOf

LEMMA SettleOneKeeps ==
    ASSUME IInv, NEW p \in Modes, SettleOne(p)
    PROVE  IInv'
<1>1. PICK b \in job[p].todo :
        /\ row' = [row EXCEPT ![b] = "settled"]
        /\ job' = [job EXCEPT ![p].todo = @ \ {b}]
        /\ Goto(p, IF job[p].todo = {b} THEN "settled" ELSE "settling")
  BY DEF SettleOne
<1>2. pc[p] = "settling" /\ UNCHANGED <<bank, owner, flaw>>
  BY DEF SettleOne, hist
<1>3. (Goto(p, "settled") /\ job[p].todo = {b}) \/ pc' = pc
  BY <1>1, <1>2 DEF Goto, IInv, Shapes
<1> QED BY <1>1, <1>2, <1>3, OneEnds DEF Final

LEMMA CloseOneKeeps ==
    ASSUME IInv, NEW p \in Modes, CloseOne(p)
    PROVE  IInv'
<1>1. PICK b \in job[p].todo :
        /\ row' = [row EXCEPT ![b] = "closed"]
        /\ job' = [job EXCEPT ![p].todo = @ \ {b}]
  BY DEF CloseOne
<1>2. pc[p] = "closing" /\ pc' = pc /\ UNCHANGED <<bank, owner, flaw>>
  BY DEF CloseOne, hist
<1> QED BY <1>1, <1>2, OneEnds DEF Final

\* Back to no job, whatever becomes of the bank.
LEMMA JobEnds ==
    ASSUME IInv, NEW p \in Modes, row' = row,
           bank' \in [Sides -> Banks], owner' \in [Sides -> Modes],
           flaw' \in [Modes -> [Sides -> SUBSET Flaws]],
           NEW to \in Phases \ {"settling", "settled", "sold", "closing"}, Goto(p, to),
           NEW j, IsJob(j), job' = [job EXCEPT ![p] = j]
    PROVE  IInv'
<1>1. pc'[p] = to
  BY GotoTypes DEF IInv
<1>2. JobFits(p)'
  BY <1>1, IdleFits
<1> QED BY <1>2, OwnStep

LEMMA SettleEndKeeps ==
    ASSUME IInv, NEW p \in Modes, SettleEnd(p)
    PROVE  IInv'
<1>1. /\ bank' = [s \in Sides |-> IF s \in BanksToClear(p) THEN EmptyBank ELSE bank[s]]
      /\ flaw' = Shared(p, BanksToClear(p)) /\ owner' = owner /\ row' = row
      /\ job' = [job EXCEPT ![p] = NoJob] /\ Goto(p, "gate")
  BY DEF SettleEnd
<1>2. bank' \in [Sides -> Banks]
  BY <1>1, EmptyIsBank DEF IInv, Shapes
<1>3. flaw' \in [Modes -> [Sides -> SUBSET Flaws]]
  BY <1>1 DEF IInv, Shapes, Shared, Flaws
<1> QED BY <1>1, <1>2, <1>3, NoJobIsJob, JobEnds DEF Phases, IInv, Shapes

\* The phases between two jobs.
LEMMA PhasesKeep ==
    ASSUME IInv, NEW p \in Modes,
           Unresolved(p) \/ GateBlocks(p) \/ GatePasses(p) \/ EndCycle(p)
    PROVE  IInv'
<1>1. job[p] = job[p] /\ IsJob(job[p]) /\ job = [job EXCEPT ![p] = job[p]]
  BY DEF IInv, Shapes
<1>2. CASE GatePasses(p)
  <2> DEFINE j == [NoJob EXCEPT !.sides = {s \in Sides : OpenBets(p, s) # {}}]
  <2>1. IsJob(j)
    BY NoJobIsJob, SidesExcept
  <2>2. job' = [job EXCEPT ![p] = j] /\ Goto(p, "manage")
        /\ UNCHANGED <<row, bank, owner, flaw>>
    BY <1>2 DEF GatePasses, files, hist
  <2> HIDE DEF j
  <2> QED BY <2>1, <2>2, JobEnds DEF Phases, IInv, Shapes
<1>3. CASE Unresolved(p) \/ GateBlocks(p) \/ EndCycle(p)
  <2>1. PICK to \in {"gate", "reconcile"} : Goto(p, to)
    BY <1>3 DEF Unresolved, GateBlocks, EndCycle
  <2>2. UNCHANGED <<job, row, bank, owner, flaw>>
    BY <1>3 DEF Unresolved, GateBlocks, EndCycle, files, hist
  <2> QED BY <1>1, <2>1, <2>2, JobEnds DEF Phases, IInv, Shapes
<1> QED BY <1>2, <1>3

\* Looking at a side without selling, or selling unheard.
LEMMA LookedKeeps ==
    ASSUME IInv, NEW p \in Modes, NEW s \in Sides, pc[p] = "manage",
           Looked(p, s), UNCHANGED <<row, bank, owner, pc>>,
           flaw' \in [Modes -> [Sides -> SUBSET Flaws]]
    PROVE  IInv'
<1> DEFINE j == [job[p] EXCEPT !.sides = @ \ {s}]
<1>1. job' = [job EXCEPT ![p] = j]
  BY DEF IInv, Shapes, Looked
<1>2. IsJob(j)
  BY SidesExcept DEF IInv, Shapes
<1>3. JobFits(p)'
  BY IdleFits
<1>4. "manage" \in Phases
  BY DEF Phases
<1> HIDE DEF j
<1> QED BY <1>1, <1>2, <1>3, <1>4, OwnStep DEF IInv, Shapes

LEMMA SellKeeps ==
    ASSUME IInv, NEW p \in Modes, NEW s \in Sides, NEW f \in 1 .. MaxDepth, Sell(p, s, f)
    PROVE  IInv'
<1> DEFINE j == [job[p] EXCEPT !.side = s, !.sale = f, !.todo = OpenBets(p, s)]
<1>1. /\ job' = [job EXCEPT ![p] = j] /\ Goto(p, "sold") /\ "sold" \in Phases
      /\ UNCHANGED <<row, bank, owner>>
  BY DEF Sell, AtVenue, files, Phases
<1>2. flaw' \in [Modes -> [Sides -> SUBSET Flaws]]
  <2>1. Mark(p, {s}, "late") \/ UNCHANGED flaw
    BY DEF Sell
  <2> QED BY <2>1, MarkTypes DEF IInv, Shapes, Flaws
<1>3. IsJob(j) /\ j.side = s /\ j.sale = f /\ j.todo = OpenBets(p, s)
  <2>1. IsJob(job[p])
    BY DEF IInv, Shapes
  <2> QED BY <2>1 DEF IsJob, JobFields
<1> HIDE DEF j
<1>4. pc'[p] = "sold" /\ job'[p] = j
  BY <1>1, <1>3, GotoTypes, JobTypes DEF IInv
<1>5. OpenBets(p, s)' = OpenBets(p, s)
  BY <1>1 DEF OpenBets, InBook
<1>6. OpenBets(p, job[p].side)' = OpenBets(p, s)'
  BY <1>3, <1>4 DEF OpenBets, InBook
<1>7. f \in Nat \ {0}
  BY SettlementAssumption
<1>8. JobFits(p)'
  BY <1>3, <1>4, <1>5, <1>6, <1>7 DEF JobFits
<1> QED BY <1>1, <1>2, <1>3, <1>8, OwnStep DEF IInv, Shapes

LEMMA SellUnheardKeeps ==
    ASSUME IInv, NEW p \in Modes, NEW s \in Sides, NEW f \in 1 .. MaxDepth, SellUnheard(p, s, f)
    PROVE  IInv'
<1>1. flaw' \in [Modes -> [Sides -> SUBSET Flaws]]
  BY MarkTypes DEF SellUnheard, IInv, Flaws
<1> QED BY <1>1, LookedKeeps DEF SellUnheard, AtVenue, files

\* A sale that was made leaves a bank, and not an empty one.
LEMMA AfterSaleBank ==
    ASSUME IInv, NEW p \in Modes, pc[p] = "sold"
    PROVE  /\ job[p].side \in Sides
           /\ AfterSale(p, job[p].side) \in Banks
           /\ AfterSale(p, job[p].side) # EmptyBank
<1>1. job[p].side \in Sides /\ job[p].sale \in Nat \ {0}
  BY DEF IInv, JobFits
<1>2. bank[job[p].side] \in Banks
  BY <1>1 DEF IInv, Shapes
<1>3. /\ bank[job[p].side].closed + job[p].sale \in Nat \ {0}
      /\ bank[job[p].side].closed \in Nat /\ bank[job[p].side].proceeds \in Nat
  BY <1>1, <1>2 DEF Banks
<1>4. job[p].sale * SellPrice \in Nat
  BY <1>1, SettlementAssumption
<1>5. bank[job[p].side].proceeds + job[p].sale * SellPrice \in Nat
  BY <1>3, <1>4
<1> QED BY <1>1, <1>3, <1>5, EmptyIsBank DEF AfterSale, Banks

LEMMA BankPartialKeeps ==
    ASSUME IInv, NEW p \in Modes, BankPartial(p)
    PROVE  IInv'
<1> DEFINE j == [NoJob EXCEPT !.sides = job[p].sides \ {job[p].side}]
<1>1. /\ pc[p] = "sold" /\ row' = row /\ Goto(p, "manage") /\ "manage" \in Phases
      /\ bank' = [bank EXCEPT ![job[p].side] = AfterSale(p, job[p].side)]
      /\ owner' = [owner EXCEPT ![job[p].side] = p]
      /\ flaw' = Shared(p, {job[p].side})
      /\ job' = [job EXCEPT ![p] = j]
  BY DEF BankPartial, Phases
<1>2. IsJob(j)
  BY NoJobIsJob, SidesExcept
<1> HIDE DEF j
<1>3. bank' \in [Sides -> Banks] /\ owner' \in [Sides -> Modes]
  BY <1>1, AfterSaleBank DEF IInv, Shapes
<1>4. flaw' \in [Modes -> [Sides -> SUBSET Flaws]]
  BY <1>1, AfterSaleBank, SharedTypes DEF IInv
<1> QED BY <1>1, <1>2, <1>3, <1>4, JobEnds

LEMMA CloseStartKeeps ==
    ASSUME IInv, NEW p \in Modes, CloseStart(p)
    PROVE  IInv'
<1> DEFINE s == job[p].side
           a == AfterSale(p, s)
           n == Total(Stake, OpenBets(p, s))
           c == job[p].sides \ {s}
           j == [job[p] EXCEPT !.bank[s] = a, !.size[s] = n, !.sides = c]
<1>1. /\ pc[p] = "sold" /\ Goto(p, "closing") /\ "closing" \in Phases
      /\ job' = [job EXCEPT ![p] = j] /\ flaw' = Shared(p, {s})
      /\ UNCHANGED <<row, bank, owner>>
  BY DEF CloseStart, files, Phases
<1>2. IsJob(job[p]) /\ JobFits(p) /\ Shapes
  BY DEF IInv, Shapes
<1>3. IsJob(j) /\ j.todo = job[p].todo /\ j.side = job[p].side
  <2> HIDE DEF s, a, n, c
  <2>1. IsJob(job[p])
    BY <1>2
  <2> QED BY <2>1, CloseExcept DEF IsJob, JobFields
<1>4. flaw' \in [Modes -> [Sides -> SUBSET Flaws]]
  BY <1>1, <1>2, AfterSaleBank, SharedTypes
<1> HIDE DEF j, a, n, c
<1>5. pc'[p] = "closing" /\ job'[p] = j
  BY <1>1, <1>2, <1>3, GotoTypes, JobTypes
<1>6. PICK d \in Sides : d = job[p].side /\ job[p].todo = OpenBets(p, d)
  BY <1>1, <1>2 DEF JobFits
<1>7. OpenBets(p, job[p].side)' = OpenBets(p, d)
  BY <1>1, <1>3, <1>5, <1>6 DEF OpenBets, InBook
<1>8. JobFits(p)'
  BY <1>3, <1>5, <1>6, <1>7 DEF JobFits
<1> QED BY <1>1, <1>2, <1>3, <1>4, <1>8, OwnStep DEF Shapes

LEMMA CloseEndKeeps ==
    ASSUME IInv, NEW p \in Modes, CloseEnd(p)
    PROVE  IInv'
<1> DEFINE j == [NoJob EXCEPT !.sides = job[p].sides]
<1>1. /\ bank' = [bank EXCEPT ![job[p].side] = EmptyBank]
      /\ flaw' = Shared(p, {job[p].side})
      /\ job' = [job EXCEPT ![p] = j] /\ Goto(p, "manage") /\ "manage" \in Phases
      /\ UNCHANGED <<row, owner>> /\ job[p].side \in Sides
  BY DEF CloseEnd, Phases, IInv, JobFits
<1>2. IsJob(j)
  BY NoJobIsJob, SidesExcept
<1> HIDE DEF j
<1>3. bank' \in [Sides -> Banks] /\ owner' \in [Sides -> Modes]
  BY <1>1, EmptyIsBank DEF IInv, Shapes
<1>4. flaw' \in [Modes -> [Sides -> SUBSET Flaws]]
  BY <1>1, SharedTypes DEF IInv
<1> QED BY <1>1, <1>2, <1>3, <1>4, JobEnds

LEMMA CrashKeeps ==
    ASSUME IInv, NEW p \in Modes, Crash(p)
    PROVE  IInv'
<1>1. /\ job' = [job EXCEPT ![p] = NoJob] /\ Goto(p, "reconcile") /\ "reconcile" \in Phases
      /\ Mark(p, Torn(p), "torn") /\ UNCHANGED <<row, bank, owner>>
  BY DEF Crash, files, Phases
<1>2. flaw' \in [Modes -> [Sides -> SUBSET Flaws]]
  BY <1>1, MarkTypes DEF IInv, Flaws
<1> QED BY <1>1, <1>2, NoJobIsJob, JobEnds DEF IInv, Shapes

LEMMA NextIInv ==
    ASSUME IInv, [Next]_vars
    PROVE  IInv'
<1>1. CASE UNCHANGED vars
  BY <1>1, NothingMoves DEF vars, files, hist, IInv, Shapes
<1>2. CASE Resolve \/ \E b \in Bets : Fill(b)
  BY <1>2, VenueKeeps
<1>3. ASSUME NEW p \in Modes, Crash(p) PROVE IInv'
  BY <1>3, CrashKeeps
<1>4. ASSUME NEW p \in Modes, Reconcile(p) \/ Settle(p) PROVE IInv'
  BY <1>4, ReconcileKeeps, SettleStartKeeps, SettleOneKeeps, SettleEndKeeps, PhasesKeep
  DEF Settle
<1>5. ASSUME NEW p \in Modes, GateBlocks(p) \/ GatePasses(p) \/ EndCycle(p) PROVE IInv'
  BY <1>5, PhasesKeep
<1>6. ASSUME NEW p \in Modes, Closing(p) PROVE IInv'
  BY <1>6, BankPartialKeeps, CloseStartKeeps, CloseOneKeeps, CloseEndKeeps DEF Closing
<1>7. ASSUME NEW p \in Modes, Manage(p) PROVE IInv'
  <2>1. ASSUME NEW s \in Sides, Hold(p, s) \/ SkipThin(p, s) PROVE IInv'
    BY <2>1, LookedKeeps DEF Hold, SkipThin, files, hist, IInv, Shapes
  <2>2. ASSUME NEW s \in Sides, NEW f \in 1 .. MaxDepth, Sell(p, s, f) \/ SellUnheard(p, s, f)
        PROVE  IInv'
    BY <2>2, SellKeeps, SellUnheardKeeps
  <2> QED BY <1>7, <2>1, <2>2 DEF Manage
<1> QED BY <1>1, <1>2, <1>3, <1>4, <1>5, <1>6, <1>7 DEF Next, Cycle

-----------------------------------------------------------------------------
(* Theorems. *)

\* At every moment the process that settles or closes has in hand exactly the
\* bets of its book that are still open (runner.py:596-626, 764-780).
THEOREM InvariantHolds == Spec => []IInv
<1>1. Init => IInv
  BY InitIInv
<1>2. IInv /\ [Next]_vars => IInv'
  BY NextIInv
<1> QED BY <1>1, <1>2, PTL DEF Spec

\* A step that clears a bank does so with no bet of its owner open.
LEMMA ClearedLast ==
    ASSUME IInv, [Next]_vars, NEW s \in Sides, bank[s] # EmptyBank,
           bank'[s] = EmptyBank, flaw'[owner[s]][s] = {}
    PROVE  OpenBets(owner[s], s) = {}
<1>1. owner[s] \in Modes /\ bank \in [Sides -> Banks]
  BY DEF IInv, Shapes
<1>2. ASSUME NEW p \in Modes, NEW S \in SUBSET Sides, s \in S, flaw' = Shared(p, S)
      PROVE  owner[s] = p
  BY <1>1, <1>2 DEF Shared, Foreign
<1>3. ASSUME NEW p \in Modes, SettleEnd(p) PROVE OpenBets(owner[s], s) = {}
  <2>1. s \in BanksToClear(p) /\ flaw' = Shared(p, BanksToClear(p) \intersect Sides)
    BY <1>3 DEF SettleEnd, Shared, Foreign
  <2>2. owner[s] = p
    BY <1>2, <2>1
  <2>3. AllOpen(p) = {}
    BY <1>3 DEF SettleEnd, IInv, JobFits
  <2> QED BY <2>2, <2>3 DEF AllOpen
<1>4. ASSUME NEW p \in Modes, CloseEnd(p) PROVE OpenBets(owner[s], s) = {}
  <2>1. job[p].side \in Sides /\ job[p].todo = {} /\ job[p].todo = OpenBets(p, job[p].side)
    BY <1>4 DEF CloseEnd, IInv, JobFits
  <2>2. s = job[p].side
    BY <1>1, <1>4, <2>1 DEF CloseEnd
  <2>3. flaw' = Shared(p, {s})
    BY <1>4, <2>2 DEF CloseEnd
  <2>4. owner[s] = p
    BY <1>2, <2>3
  <2> QED BY <2>1, <2>2, <2>4
<1>5. ASSUME NEW p \in Modes, BankPartial(p) PROVE FALSE
  <2>1. bank' = [bank EXCEPT ![job[p].side] = AfterSale(p, job[p].side)] /\ pc[p] = "sold"
    BY <1>5 DEF BankPartial
  <2> QED BY <1>1, <2>1, AfterSaleBank
<1>6. ASSUME bank' = bank PROVE FALSE
  BY <1>6
<1>7. ASSUME NEW p \in Modes, Settle(p), ~ SettleEnd(p) PROVE bank' = bank
  BY <1>7 DEF Settle, Unresolved, SettleStart, SettleOne, files
<1>8. ASSUME NEW p \in Modes, Closing(p), ~ CloseEnd(p), ~ BankPartial(p) PROVE bank' = bank
  BY <1>8 DEF Closing, CloseStart, CloseOne, files
<1>9. ASSUME NEW p \in Modes, Manage(p) PROVE bank' = bank
  BY <1>9 DEF Manage, Hold, SkipThin, Sell, SellUnheard, AtVenue, files
<1>10. ASSUME NEW p \in Modes,
              Reconcile(p) \/ GateBlocks(p) \/ GatePasses(p) \/ EndCycle(p) \/ Crash(p)
       PROVE  bank' = bank
  BY <1>10 DEF Reconcile, GateBlocks, GatePasses, EndCycle, Crash, files
<1>11. ASSUME Resolve \/ (\E b \in Bets : Fill(b)) \/ UNCHANGED vars PROVE bank' = bank
  BY <1>11 DEF Resolve, Fill, vars, files
<1> QED BY <1>3, <1>4, <1>5, <1>6, <1>7, <1>8, <1>9, <1>10, <1>11 DEF Next, Cycle

\* The proceeds banked by partial sales are dropped only when every bet they
\* are shared over is final, whatever crashes, unless the other mode wrote
\* to the same key (runner.py:624-626, 775-780).
THEOREM BankOutlivesBets == Spec => BankClearedLast
<1>1. IInv /\ [Next]_vars =>
        [\A s \in Sides :
           bank[s] # EmptyBank /\ bank'[s] = EmptyBank /\ flaw'[owner[s]][s] = {}
             => OpenBets(owner[s], s) = {}]_vars
  BY ClearedLast
<1> QED BY <1>1, InvariantHolds, PTL DEF Spec, BankClearedLast
-----------------------------------------------------------------------------
(* The money.  What the final bets of a book were paid, with what the job in *)
(* hand still owes its open bets, is what the contracts counted so far       *)
(* brought: those sold early at their price, the rest at the payout.         *)

\* The commits of p in which the bets of side s are being paid from the job.
Paying(p, s) ==
    \/ pc[p] = "closing" /\ job[p].side = s
    \/ pc[p] \in {"settling", "settled"} /\ s \in job[p].sides
\* A sale made and not yet banked.
Unbanked(p, s) == IF pc[p] = "sold" /\ job[p].side = s THEN job[p].sale ELSE 0

Ended(p, s) == {b \in InBook(p, s) : row[b] \in Final}
\* The bets whose contracts are accounted for: final, or being paid.
Counted(p, s) == Ended(p, s) \union (IF Paying(p, s) THEN OpenBets(p, s) ELSE {})
\* The contracts sold early whose proceeds those bets have, or are about to.
Gone(p, s) ==
    IF Paying(p, s) THEN sold[p][s]
    ELSE sold[p][s] - OwnBank(p, s) - Unbanked(p, s)
\* What the job in hand will still credit to an open bet.
Due(p, b) ==
    IF pc[p] = "closing" THEN ClosedCredit(b, job[p]) ELSE SettledCredit(b, job[p])
Dues(p) == [b \in Bets |-> Due(p, b)]
Owed(p, s) == IF Paying(p, s) THEN Total(Dues(p), OpenBets(p, s)) ELSE 0
Won(p, s) ==
    IF s = winner THEN (Total(Size, Counted(p, s)) - Gone(p, s)) * Payout ELSE 0

\* The contracts of a book and the money they brought, unless it is flawed.
Accounts(p, s) ==
    /\ ~ Paying(p, s) => OwnBank(p, s) + Unbanked(p, s) <= AggSize(p, s)
    /\ winner = "none" => Total(Size, Counted(p, s)) = Gone(p, s)
    /\ Total(credit, Ended(p, s)) + Owed(p, s) = Gone(p, s) * SellPrice + Won(p, s)
    /\ pc[p] \in {"settling", "settled"} /\ s \in job[p].sides =>
         /\ job[p].bank[s].closed = OwnBank(p, s)
         /\ job[p].bank[s].closed <= job[p].size[s]

AtPrice(k) == k.proceeds = k.closed * SellPrice

\* What the job in hand has read.
JobReads(p) ==
    /\ pc[p] \in {"settling", "settled"} =>
         /\ winner # "none"
         /\ \A b \in job[p].todo : BetSide[b] \in job[p].sides
         /\ \A s \in job[p].sides : AggSize(p, s) <= job[p].size[s]
    /\ pc[p] = "closing" => Total(Stake, job[p].todo) <= job[p].size[job[p].side]

Jobs == [todo : SUBSET Bets, sides : SUBSET Sides, size : [Sides -> Nat],
         bank : [Sides -> Banks], side : Sides \union {"none"}, sale : 0 .. MaxDepth]

Typed == TypeOK /\ job \in [Modes -> Jobs]

Prices ==
    /\ \A s \in Sides : AtPrice(bank[s])
    /\ \A p \in Modes, s \in Sides : AtPrice(job[p].bank[s])

LiveHeld ==
    winner = "none" => \A s \in Sides :
        held[Live][s] + sold[Live][s] = Total(Size, Filled(Live, s))

Unpaid == \A b \in Bets : row[b] \notin Final => credit[b] = 0

MoneyInv ==
    /\ Typed /\ Prices /\ LiveHeld /\ Unpaid
    /\ \A p \in Modes : JobReads(p)
    /\ \A p \in Modes, s \in Sides : flaw[p][s] = {} => Accounts(p, s)

-----------------------------------------------------------------------------
(* Types. *)

LEMMA BooksFinite ==
    /\ \A S \in SUBSET Bets : IsFiniteSet(S)
    /\ \A p, s : /\ InBook(p, s) \in SUBSET Bets /\ OpenBets(p, s) \in SUBSET InBook(p, s)
                 /\ Ended(p, s) \in SUBSET InBook(p, s) /\ Filled(p, s) \in SUBSET InBook(p, s)
BY SettlementAssumption, FS_Subset DEF InBook, OpenBets, Ended, Filled

LEMMA SizeTotals ==
    ASSUME NEW S \in SUBSET Bets
    PROVE  Total(Size, S) \in Nat /\ Total(Stake, S) \in Nat
<1>1. \A b \in S : Size[b] \in Nat /\ Stake[b] \in Nat
  BY SettlementAssumption
<1> QED BY <1>1, BooksFinite, SumNat DEF Total

LEMMA AggSizes ==
    ASSUME NEW p, NEW s
    PROVE  AggSize(p, s) \in Nat
BY BooksFinite, SizeTotals DEF AggSize

\* A bet of a set weighs something in its totals.
LEMMA SizeTerm ==
    ASSUME NEW S \in SUBSET Bets, NEW b \in S
    PROVE  Total(Size, S) \in Nat \ {0} /\ Total(Stake, S) \in Nat \ {0}
<1>1. \A a \in S : Size[a] \in Nat \ {0} /\ Stake[a] \in Nat \ {0}
  BY SettlementAssumption
<1>2. Size[b] <= Total(Size, S) /\ Stake[b] <= Total(Stake, S)
  BY <1>1, BooksFinite, SumTerm DEF Total
<1> QED BY <1>1, <1>2, SizeTotals

LEMMA JobParts ==
    ASSUME Typed, NEW p \in Modes
    PROVE  /\ job[p] \in Jobs /\ job[p].todo \in SUBSET Bets /\ job[p].sides \in SUBSET Sides
           /\ job[p].size \in [Sides -> Nat] /\ job[p].bank \in [Sides -> Banks]
           /\ job[p].side \in Sides \union {"none"} /\ job[p].sale \in 0 .. MaxDepth
BY DEF Typed, Jobs

LEMMA NoJobTyped == NoJob \in Jobs
BY SettlementAssumption, EmptyIsBank DEF NoJob, Jobs, EmptyBank, Banks

LEMMA JobPut ==
    ASSUME Typed, NEW p \in Modes, NEW j \in Jobs, job' = [job EXCEPT ![p] = j]
    PROVE  job' \in [Modes -> Jobs] /\ job'[p] = j
BY DEF Typed

LEMMA JobsTyped ==
    ASSUME IInv, Typed, [Next]_vars
    PROVE  job' \in [Modes -> Jobs]
<1>1. ASSUME NEW p \in Modes, SettleStart(p) PROVE job' \in [Modes -> Jobs]
  <2> DEFINE S == {BetSide[b] : b \in AllOpen(p)}
             j == [NoJob EXCEPT !.todo = AllOpen(p), !.sides = S,
                      !.size = [s \in Sides |-> AggSize(p, s)], !.bank = bank]
  <2>1. job' = [job EXCEPT ![p] = j]
    BY <1>1 DEF SettleStart
  <2>2. AllOpen(p) \in SUBSET Bets /\ S \in SUBSET Sides /\ bank \in [Sides -> Banks]
    BY SettlementAssumption DEF AllOpen, OpenBets, InBook, IInv, Shapes
  <2>3. [s \in Sides |-> AggSize(p, s)] \in [Sides -> Nat]
    BY AggSizes
  <2>4. j \in Jobs
    <3> HIDE DEF S
    <3> QED BY <2>2, <2>3, NoJobTyped DEF Jobs
  <2> HIDE DEF j
  <2> QED BY <2>1, <2>4, JobPut
<1>2. ASSUME NEW p \in Modes, NEW x, job' = [job EXCEPT ![p].todo = @ \ x]
      PROVE  job' \in [Modes -> Jobs]
  <2>1. [job[p] EXCEPT !.todo = @ \ x] \in Jobs
    BY JobParts DEF Jobs
  <2>2. job' = [job EXCEPT ![p] = [job[p] EXCEPT !.todo = @ \ x]]
    BY <1>2 DEF Typed
  <2> QED BY <2>1, <2>2, JobPut
<1>3. ASSUME NEW p \in Modes, NEW x \in SUBSET Sides, job' = [job EXCEPT ![p] = [NoJob EXCEPT !.sides = x]]
      PROVE  job' \in [Modes -> Jobs]
  <2>1. [NoJob EXCEPT !.sides = x] \in Jobs
    BY NoJobTyped DEF Jobs
  <2> QED BY <1>3, <2>1, JobPut
<1>4. ASSUME NEW p \in Modes, NEW s, Looked(p, s) PROVE job' \in [Modes -> Jobs]
  <2>1. [job[p] EXCEPT !.sides = @ \ {s}] \in Jobs
    BY JobParts DEF Jobs
  <2>2. job' = [job EXCEPT ![p] = [job[p] EXCEPT !.sides = @ \ {s}]]
    BY <1>4 DEF Typed, Looked
  <2> QED BY <2>1, <2>2, JobPut
<1>5. ASSUME NEW p \in Modes, NEW s \in Sides, NEW f \in 1 .. MaxDepth, Sell(p, s, f)
      PROVE  job' \in [Modes -> Jobs]
  <2> DEFINE j == [job[p] EXCEPT !.side = s, !.sale = f, !.todo = OpenBets(p, s)]
  <2>1. job' = [job EXCEPT ![p] = j]
    BY <1>5 DEF Sell
  <2>2. f \in 0 .. MaxDepth /\ OpenBets(p, s) \in SUBSET Bets
    BY SettlementAssumption DEF OpenBets, InBook
  <2>3. j \in Jobs
    BY <2>2, JobParts DEF Jobs
  <2> HIDE DEF j
  <2> QED BY <2>1, <2>3, JobPut
<1>6. ASSUME NEW p \in Modes, CloseStart(p) PROVE job' \in [Modes -> Jobs]
  <2> DEFINE s == job[p].side
             a == AfterSale(p, s)
             n == Total(Stake, OpenBets(p, s))
             c == job[p].sides \ {s}
             j == [job[p] EXCEPT !.bank[s] = a, !.size[s] = n, !.sides = c]
  <2>1. job' = [job EXCEPT ![p] = j] /\ pc[p] = "sold"
    BY <1>6 DEF CloseStart
  <2>2. s \in Sides /\ a \in Banks
    BY <2>1, AfterSaleBank
  <2>3. n \in Nat /\ c \in SUBSET Sides
    BY BooksFinite, SizeTotals, JobParts
  <2>4. j \in Jobs
    <3> HIDE DEF s, a, n, c
    <3> QED BY <2>2, <2>3, JobParts DEF Jobs
  <2> HIDE DEF j
  <2> QED BY <2>1, <2>4, JobPut
<1>7. ASSUME NEW p \in Modes, SettleEnd(p) \/ Crash(p) PROVE job' \in [Modes -> Jobs]
  BY <1>7, NoJobTyped, JobPut DEF SettleEnd, Crash
<1>8. ASSUME UNCHANGED job PROVE job' \in [Modes -> Jobs]
  BY <1>8 DEF Typed
<1>9. ASSUME NEW p \in Modes, Settle(p) PROVE job' \in [Modes -> Jobs]
  BY <1>9, <1>1, <1>2, <1>7, <1>8 DEF Settle, Unresolved, SettleOne
<1>10. ASSUME NEW p \in Modes, Closing(p) PROVE job' \in [Modes -> Jobs]
  <2>1. job[p].sides \in SUBSET Sides /\ job[p].sides \ {job[p].side} \in SUBSET Sides
    BY JobParts
  <2> QED BY <1>10, <1>2, <1>3, <1>6, <2>1 DEF Closing, BankPartial, CloseOne, CloseEnd
<1>11. ASSUME NEW p \in Modes, Manage(p) PROVE job' \in [Modes -> Jobs]
  BY <1>11, <1>4, <1>5 DEF Manage, Hold, SkipThin, SellUnheard
<1>12. ASSUME NEW p \in Modes, GatePasses(p) PROVE job' \in [Modes -> Jobs]
  <2> DEFINE x == {s \in Sides : OpenBets(p, s) # {}}
  <2>1. job' = [job EXCEPT ![p] = [NoJob EXCEPT !.sides = x]]
    BY <1>12 DEF GatePasses
  <2>2. x \in SUBSET Sides
    OBVIOUS
  <2> HIDE DEF x
  <2> QED BY <2>1, <2>2, <1>3
<1>13. ASSUME NEW p \in Modes, Reconcile(p) \/ GateBlocks(p) \/ EndCycle(p)
       PROVE  job' \in [Modes -> Jobs]
  BY <1>13, <1>8 DEF Reconcile, GateBlocks, EndCycle
<1>14. CASE Resolve \/ \E b \in Bets : Fill(b)
  BY <1>14, <1>8 DEF Resolve, Fill
<1>15. CASE UNCHANGED vars
  BY <1>15, <1>8 DEF vars
<1> QED BY <1>7, <1>9, <1>10, <1>11, <1>12, <1>13, <1>14, <1>15 DEF Next, Cycle

LEMMA BankParts ==
    ASSUME Typed, NEW p \in Modes, NEW s \in Sides
    PROVE  /\ bank[s] \in Banks /\ bank[s].closed \in Nat /\ bank[s].proceeds \in Nat
           /\ job[p].bank[s] \in Banks /\ job[p].bank[s].closed \in Nat
           /\ job[p].bank[s].proceeds \in Nat /\ job[p].size[s] \in Nat
           /\ OwnBank(p, s) \in Nat /\ Unbanked(p, s) \in Nat
<1>1. job[p].bank[s] \in Banks /\ job[p].size[s] \in Nat /\ job[p].sale \in Nat
  BY JobParts, SettlementAssumption
<1>2. bank[s] \in Banks
  BY DEF Typed, TypeOK, Banks
<1> QED BY <1>1, <1>2 DEF Banks, OwnBank, Unbanked

LEMMA ProductNat ==
    ASSUME NEW x \in Nat, NEW y \in Nat
    PROVE  x * y \in Nat
OBVIOUS

LEMMA AboveNat ==
    ASSUME NEW x \in Nat, NEW y \in Nat
    PROVE  Above(x, y) \in Nat /\ (y <= x => Above(x, y) = x - y)
BY DEF Above

\* A credit worked out over contracts that are there is an amount of money.
LEMMA SettledNat ==
    ASSUME Typed, NEW p \in Modes, NEW b \in Bets, job[p].size[BetSide[b]] # 0
    PROVE  SettledCredit(b, job[p]) \in Nat
<1> DEFINE s == BetSide[b]
           total == job[p].size[s]
           rest == Above(total, job[p].bank[s].closed)
<1>1. s \in Sides /\ Size[b] \in Nat /\ Payout \in Nat
  BY SettlementAssumption
<1>2. total \in Nat \ {0} /\ rest \in Nat /\ job[p].bank[s].proceeds \in Nat
  BY <1>1, BankParts, AboveNat
<1>3. SettledCredit(b, job[p]) = (job[p].bank[s].proceeds * Size[b]) \div total
        + (IF s = winner THEN (Size[b] * rest * Payout) \div total ELSE 0)
  BY DEF SettledCredit
<1> HIDE DEF s, total, rest
<1>4. job[p].bank[s].proceeds * Size[b] \in Nat /\ Size[b] * rest * Payout \in Nat
  BY <1>1, <1>2, ProductNat
<1>5. /\ (job[p].bank[s].proceeds * Size[b]) \div total \in Nat
      /\ (Size[b] * rest * Payout) \div total \in Nat
  BY <1>2, <1>4, DivNat
<1> QED BY <1>3, <1>5

LEMMA ClosedNat ==
    ASSUME Typed, NEW p \in Modes, NEW b \in Bets, job[p].size[BetSide[b]] # 0
    PROVE  ClosedCredit(b, job[p]) \in Nat
<1>1. BetSide[b] \in Sides /\ Stake[b] \in Nat
  BY SettlementAssumption
<1>2. job[p].size[BetSide[b]] \in Nat \ {0} /\ job[p].bank[BetSide[b]].proceeds \in Nat
  BY <1>1, BankParts
<1>3. job[p].bank[BetSide[b]].proceeds * Stake[b] \in Nat
  BY <1>1, <1>2, ProductNat
<1> QED BY <1>2, <1>3, DivNat DEF ClosedCredit

\* The bets in hand divide an amount that is not nothing.
LEMMA InHandCounts ==
    ASSUME IInv, Typed, NEW p \in Modes, JobReads(p), NEW b \in job[p].todo,
           pc[p] \in {"settling", "closing"}
    PROVE  /\ b \in Bets /\ BetMode[b] = p /\ row[b] = "open"
           /\ job[p].size[BetSide[b]] # 0
           /\ pc[p] = "closing" => BetSide[b] = job[p].side
<1>1. b \in Bets /\ BetMode[b] = p /\ row[b] = "open"
  BY DEF IInv, JobFits, AllOpen, OpenBets, InBook
<1>2. BetSide[b] \in Sides
  BY <1>1, SettlementAssumption
<1>3. CASE pc[p] = "settling"
  <2>1. b \in OpenBets(p, BetSide[b])
    BY <1>1 DEF OpenBets, InBook
  <2>2. AggSize(p, BetSide[b]) \in Nat \ {0}
    BY <2>1, BooksFinite, SizeTerm DEF AggSize
  <2>3. AggSize(p, BetSide[b]) <= job[p].size[BetSide[b]]
    BY <1>3 DEF JobReads
  <2> QED BY <1>1, <1>2, <1>3, <2>2, <2>3, BankParts
<1>4. CASE pc[p] = "closing"
  <2>1. BetSide[b] = job[p].side
    BY <1>4 DEF IInv, JobFits, OpenBets, InBook
  <2>2. Total(Stake, job[p].todo) \in Nat \ {0}
    BY JobParts, SizeTerm
  <2>3. Total(Stake, job[p].todo) <= job[p].size[job[p].side]
    BY <1>4 DEF JobReads
  <2>4. job[p].size[BetSide[b]] \in Nat
    BY <1>2, BankParts
  <2> QED BY <1>1, <2>1, <2>2, <2>3, <2>4
<1> QED BY <1>3, <1>4

LEMMA CreditTyped ==
    ASSUME IInv, Typed, \A p \in Modes : JobReads(p), [Next]_vars
    PROVE  credit' \in [Bets -> Nat]
<1>1. credit \in [Bets -> Nat]
  BY DEF Typed, TypeOK
<1>2. ASSUME NEW p \in Modes, SettleOne(p) PROVE credit' \in [Bets -> Nat]
  <2>1. PICK b \in job[p].todo : credit' = [credit EXCEPT ![b] = @ + SettledCredit(b, job[p])]
    BY <1>2 DEF SettleOne
  <2>2. b \in Bets /\ SettledCredit(b, job[p]) \in Nat
    BY <1>2, InHandCounts, SettledNat DEF SettleOne
  <2> QED BY <1>1, <2>1, <2>2
<1>3. ASSUME NEW p \in Modes, CloseOne(p) PROVE credit' \in [Bets -> Nat]
  <2>1. PICK b \in job[p].todo : credit' = [credit EXCEPT ![b] = @ + ClosedCredit(b, job[p])]
    BY <1>3 DEF CloseOne
  <2>2. b \in Bets /\ ClosedCredit(b, job[p]) \in Nat
    BY <1>3, InHandCounts, ClosedNat DEF CloseOne
  <2> QED BY <1>1, <2>1, <2>2
<1>4. ASSUME UNCHANGED credit PROVE credit' \in [Bets -> Nat]
  BY <1>1, <1>4
<1>5. ASSUME NEW p \in Modes, Settle(p) \/ Closing(p) PROVE credit' \in [Bets -> Nat]
  BY <1>5, <1>2, <1>3, <1>4 DEF Settle, Closing, Unresolved, SettleStart, SettleEnd,
     BankPartial, CloseStart, CloseEnd, files
<1>6. ASSUME NEW p \in Modes, Manage(p) PROVE credit' \in [Bets -> Nat]
  BY <1>4, <1>6 DEF Manage, Hold, SkipThin, Sell, SellUnheard, AtVenue, files
<1>7. ASSUME NEW p \in Modes,
             Reconcile(p) \/ GateBlocks(p) \/ GatePasses(p) \/ EndCycle(p) \/ Crash(p)
      PROVE  credit' \in [Bets -> Nat]
  BY <1>4, <1>7 DEF Reconcile, GateBlocks, GatePasses, EndCycle, Crash, files
<1>8. CASE Resolve \/ \E b \in Bets : Fill(b)
  BY <1>4, <1>8 DEF Resolve, Fill, files
<1>9. CASE UNCHANGED vars
  BY <1>4, <1>9 DEF vars, files
<1> QED BY <1>5, <1>6, <1>7, <1>8, <1>9 DEF Next, Cycle

LEMMA SetCounter ==
    ASSUME NEW x \in Counters, NEW p \in Modes, NEW s \in Sides, NEW n \in Nat
    PROVE  [x EXCEPT ![p][s] = n] \in Counters
BY DEF Counters

LEMMA ZeroCounter ==
    ASSUME NEW x \in Counters, NEW p \in Modes
    PROVE  [x EXCEPT ![p] = [s \in Sides |-> 0]] \in Counters
BY DEF Counters

\* What is sold is held.
LEMMA SaleWithin ==
    ASSUME Typed, NEW p \in Modes, NEW s \in Sides, NEW f \in 1 .. MaxDepth, AtVenue(p, s, f)
    PROVE  /\ held[p][s] \in Nat /\ sold[p][s] \in Nat /\ f \in Nat \ {0} /\ f <= held[p][s]
<1>1. held[p][s] \in Nat /\ sold[p][s] \in Nat /\ depth[p][s] \in Nat
  BY DEF Typed, TypeOK, Counters
<1>2. f \in Nat \ {0}
  BY SettlementAssumption
<1>3. f <= Sellable(p, s)
  <2>1. Sellable(p, s) \in Nat
    BY <1>1 DEF Sellable, Min2
  <2> QED BY <1>1, <1>2, <2>1 DEF AtVenue, Sales
<1> QED BY <1>1, <1>2, <1>3 DEF Sellable, Min2

LEMMA CountersTyped ==
    ASSUME Typed, [Next]_vars
    PROVE  held' \in Counters /\ sold' \in Counters /\ depth' \in Counters
<1> DEFINE C == held' \in Counters /\ sold' \in Counters /\ depth' \in Counters
<1>0. held \in Counters /\ sold \in Counters /\ depth \in Counters
  BY DEF Typed, TypeOK
<1>1. ASSUME NEW b \in Bets, Fill(b) PROVE C
  <2>1. BetMode[b] \in Modes /\ BetSide[b] \in Sides /\ Size[b] \in Nat
    BY SettlementAssumption
  <2>2. held[BetMode[b]][BetSide[b]] + Size[b] \in Nat
    BY <1>0, <2>1 DEF Counters
  <2>3. held' = [held EXCEPT ![BetMode[b]][BetSide[b]] = @ + Size[b]]
        /\ UNCHANGED <<sold, depth>>
    BY <1>1 DEF Fill, hist
  <2>4. held' = [held EXCEPT ![BetMode[b]][BetSide[b]] = held[BetMode[b]][BetSide[b]] + Size[b]]
    BY <2>3
  <2>5. held' \in Counters
    BY <1>0, <2>1, <2>2, <2>4, SetCounter
  <2> QED BY <1>0, <2>3, <2>5
<1>2. ASSUME NEW p \in Modes, NEW s \in Sides, NEW f \in 1 .. MaxDepth, AtVenue(p, s, f) PROVE C
  <2>1. held[p][s] - f \in Nat /\ sold[p][s] + f \in Nat
    BY <1>2, SaleWithin
  <2>2. held' = [held EXCEPT ![p][s] = held[p][s] - f]
        /\ sold' = [sold EXCEPT ![p][s] = sold[p][s] + f] /\ depth' = depth
    BY <1>2 DEF AtVenue
  <2> QED BY <1>0, <2>1, <2>2, SetCounter
<1>3. ASSUME NEW p \in Modes, GatePasses(p) PROVE C
  <2>1. PICK d \in [Sides -> 0 .. MaxDepth] : depth' = [depth EXCEPT ![p] = d]
    BY <1>3 DEF GatePasses
  <2>2. d \in [Sides -> Nat] /\ UNCHANGED <<held, sold>>
    BY <1>3, SettlementAssumption DEF GatePasses, hist
  <2> QED BY <1>0, <2>1, <2>2 DEF Counters
<1>4. CASE Resolve
  BY <1>0, <1>4, ZeroCounter, SettlementAssumption DEF Resolve, hist
<1>5. ASSUME NEW p \in Modes, SettleEnd(p) PROVE C
  BY <1>0, <1>5, ZeroCounter DEF SettleEnd
<1>6. ASSUME NEW p \in Modes, Crash(p) PROVE C
  BY <1>0, <1>6, ZeroCounter DEF Crash
<1>7. ASSUME NEW p \in Modes, EndCycle(p) PROVE C
  BY <1>0, <1>7, ZeroCounter DEF EndCycle, hist
<1>8. ASSUME UNCHANGED <<held, sold, depth>> PROVE C
  BY <1>0, <1>8
<1> HIDE DEF C
<1>9. ASSUME NEW p \in Modes, Settle(p) \/ Closing(p) PROVE C
  BY <1>5, <1>8, <1>9 DEF Settle, Closing, Unresolved, SettleStart, SettleOne,
     BankPartial, CloseStart, CloseOne, CloseEnd, hist
<1>10. ASSUME NEW p \in Modes, Manage(p) PROVE C
  BY <1>2, <1>8, <1>10 DEF Manage, Hold, SkipThin, Sell, SellUnheard, hist
<1>11. ASSUME NEW p \in Modes, Reconcile(p) \/ GateBlocks(p) PROVE C
  BY <1>8, <1>11 DEF Reconcile, GateBlocks, hist
<1>12. ASSUME UNCHANGED vars PROVE C
  BY <1>8, <1>12 DEF vars, hist
<1> QED BY <1>1, <1>3, <1>4, <1>6, <1>7, <1>9, <1>10, <1>11, <1>12 DEF Next, Cycle, C

LEMMA WinnerMoves ==
    ASSUME [Next]_vars
    PROVE  winner' = winner \/ Resolve
<1>1. ASSUME NEW p \in Modes, Settle(p) \/ Closing(p) PROVE winner' = winner
  BY <1>1 DEF Settle, Closing, Unresolved, SettleStart, SettleOne, SettleEnd,
     BankPartial, CloseStart, CloseOne, CloseEnd
<1>2. ASSUME NEW p \in Modes, Manage(p) PROVE winner' = winner
  BY <1>2 DEF Manage, Hold, SkipThin, Sell, SellUnheard, AtVenue
<1>3. ASSUME NEW p \in Modes,
             Reconcile(p) \/ GateBlocks(p) \/ GatePasses(p) \/ EndCycle(p) \/ Crash(p)
      PROVE  winner' = winner
  BY <1>3 DEF Reconcile, GateBlocks, GatePasses, EndCycle, Crash
<1>4. ASSUME NEW b \in Bets, Fill(b) PROVE winner' = winner
  BY <1>4 DEF Fill
<1>5. CASE UNCHANGED vars
  BY <1>5 DEF vars
<1> QED BY <1>1, <1>2, <1>3, <1>4, <1>5 DEF Next, Cycle

LEMMA CrashesTyped ==
    ASSUME Typed, [Next]_vars
    PROVE  crashes' \in 0 .. MaxCrashes
<1>0. crashes \in 0 .. MaxCrashes
  BY DEF Typed, TypeOK
<1>1. ASSUME NEW p \in Modes, Settle(p) \/ Closing(p) PROVE crashes' = crashes
  BY <1>1 DEF Settle, Closing, Unresolved, SettleStart, SettleOne, SettleEnd,
     BankPartial, CloseStart, CloseOne, CloseEnd
<1>2. ASSUME NEW p \in Modes, Manage(p) PROVE crashes' = crashes
  BY <1>2 DEF Manage, Hold, SkipThin, Sell, SellUnheard, AtVenue
<1>3. ASSUME NEW p \in Modes, Reconcile(p) \/ GateBlocks(p) \/ GatePasses(p) \/ EndCycle(p)
      PROVE  crashes' = crashes
  BY <1>3 DEF Reconcile, GateBlocks, GatePasses, EndCycle
<1>4. ASSUME NEW p \in Modes, Crash(p) PROVE crashes' \in 0 .. MaxCrashes
  BY <1>0, <1>4, SettlementAssumption DEF Crash
<1>5. CASE Resolve \/ \E b \in Bets : Fill(b)
  BY <1>0, <1>5 DEF Resolve, Fill
<1>6. CASE UNCHANGED vars
  BY <1>0, <1>6 DEF vars
<1> QED BY <1>0, <1>1, <1>2, <1>3, <1>4, <1>5, <1>6 DEF Next, Cycle

LEMMA TypedKeeps ==
    ASSUME IInv, Typed, \A p \in Modes : JobReads(p), [Next]_vars
    PROVE  Typed'
<1>1. IInv'
  BY NextIInv
<1>2. job' \in [Modes -> Jobs]
  BY JobsTyped
<1>3. winner' \in Sides \union {"none"}
  BY WinnerMoves DEF Typed, TypeOK, Resolve
<1>4. \A p \in Modes : /\ job'[p].todo \subseteq Bets /\ job'[p].sides \subseteq Sides
                       /\ job'[p].side \in Sides \union {"none"} /\ job'[p].sale \in 0 .. MaxDepth
  BY <1>2 DEF Jobs
<1>5. TypeOK'
  BY <1>1, <1>3, <1>4, CreditTyped, CountersTyped, CrashesTyped
  DEF TypeOK, IInv, Shapes, RowStates, Banks, Phases
<1> QED BY <1>2, <1>5 DEF Typed

-----------------------------------------------------------------------------
(* A flaw stays, and a step that meets another mode's bank is one. *)

LEMMA SharedClean ==
    ASSUME Shapes, NEW p \in Modes, NEW S, flaw' = Shared(p, S),
           NEW q \in Modes, NEW s \in Sides, flaw'[q][s] = {}
    PROVE  flaw[q][s] = {} /\ (s \in Foreign(p, S) => q # p /\ q # owner[s])
BY DEF Shared, Shapes

LEMMA MarkClean ==
    ASSUME Shapes, NEW p \in Modes, NEW S, NEW kind, Mark(p, S, kind),
           NEW q \in Modes, NEW s \in Sides, flaw'[q][s] = {}
    PROVE  flaw[q][s] = {} /\ (q = p => s \notin S)
BY DEF Mark, Shapes

LEMMA FlawStays ==
    ASSUME Shapes, [Next]_vars, NEW q \in Modes, NEW s \in Sides, flaw'[q][s] = {}
    PROVE  flaw[q][s] = {}
<1>1. ASSUME NEW p \in Modes, NEW S, flaw' = Shared(p, S) PROVE flaw[q][s] = {}
  BY <1>1, SharedClean
<1>2. ASSUME NEW p \in Modes, NEW S, NEW kind, Mark(p, S, kind) PROVE flaw[q][s] = {}
  BY <1>2, MarkClean
<1>3. ASSUME NEW p \in Modes, Settle(p) \/ Closing(p) PROVE flaw[q][s] = {}
  BY <1>1, <1>3 DEF Settle, Closing, Unresolved, SettleStart, SettleOne, SettleEnd,
     BankPartial, CloseStart, CloseOne, CloseEnd, hist
<1>4. ASSUME NEW p \in Modes, Manage(p) PROVE flaw[q][s] = {}
  BY <1>2, <1>4 DEF Manage, Hold, SkipThin, Sell, SellUnheard, hist
<1>5. ASSUME NEW p \in Modes, Reconcile(p) \/ GateBlocks(p) \/ GatePasses(p) \/ EndCycle(p)
      PROVE  flaw[q][s] = {}
  BY <1>5 DEF Reconcile, GateBlocks, GatePasses, EndCycle, hist
<1>6. ASSUME NEW p \in Modes, Crash(p) PROVE flaw[q][s] = {}
  BY <1>2, <1>6 DEF Crash
<1>7. CASE Resolve \/ \E b \in Bets : Fill(b)
  BY <1>7 DEF Resolve, Fill, hist
<1>8. CASE UNCHANGED vars
  BY <1>8 DEF vars, hist
<1> QED BY <1>3, <1>4, <1>5, <1>6, <1>7, <1>8 DEF Next, Cycle

-----------------------------------------------------------------------------
(* What a step of one mode leaves alone. *)

AloneMoney(q) ==
    /\ LeftAlone(q) /\ sold'[q] = sold[q] /\ winner' = winner
    /\ \A b \in Bets : BetMode[b] = q => row'[b] = row[b] /\ credit'[b] = credit[b]

LEMMA OthersAlone ==
    ASSUME IInv, Typed, NEW p \in Modes, Cycle(p) \/ Crash(p), NEW q \in Modes \ {p}
    PROVE  AloneMoney(q)
<1>0. /\ row \in [Bets -> RowStates] /\ credit \in [Bets -> Nat] /\ pc \in [Modes -> Phases]
      /\ job \in [Modes -> Jobs] /\ sold \in Counters
  BY DEF IInv, Shapes, Typed, TypeOK
<1>1. ASSUME NEW x, Goto(p, x) PROVE pc'[q] = pc[q]
  BY <1>0, <1>1 DEF Goto
<1>2. ASSUME NEW x, job' = [job EXCEPT ![p] = x] PROVE job'[q] = job[q]
  BY <1>0, <1>2
<1>3. ASSUME UNCHANGED <<row, credit>>
      PROVE  \A b \in Bets : BetMode[b] = q => row'[b] = row[b] /\ credit'[b] = credit[b]
  BY <1>3
<1>4. CASE Reconcile(p)
  BY <1>0, <1>1, <1>4 DEF Reconcile, AloneMoney, LeftAlone, hist
<1>5. CASE Unresolved(p) \/ GateBlocks(p) \/ EndCycle(p)
  BY <1>1, <1>3, <1>5 DEF Unresolved, GateBlocks, EndCycle, AloneMoney, LeftAlone, files, hist
<1>6. CASE SettleStart(p)
  <2>1. job'[q] = job[q] /\ pc'[q] = pc[q] /\ UNCHANGED <<row, credit, sold, winner>>
    BY <1>1, <1>2, <1>6 DEF SettleStart, files
  <2> QED BY <1>3, <2>1 DEF AloneMoney, LeftAlone
<1>7. ASSUME NEW b \in job[p].todo, pc[p] \in {"settling", "closing"},
             \A a \in Bets \ {b} : row'[a] = row[a] /\ credit'[a] = credit[a],
             job'[q] = job[q], pc'[q] = pc[q], sold' = sold, winner' = winner
      PROVE  AloneMoney(q)
  <2>1. b \in Bets /\ BetMode[b] = p
    BY <1>7 DEF IInv, JobFits, AllOpen, OpenBets, InBook
  <2>2. \A a \in Bets : BetMode[a] = q => row'[a] = row[a] /\ credit'[a] = credit[a]
    BY <1>7, <2>1
  <2> QED BY <1>7, <2>2 DEF AloneMoney, LeftAlone
<1>8. CASE SettleOne(p)
  <2>1. PICK b \in job[p].todo :
          /\ row' = [row EXCEPT ![b] = "settled"]
          /\ credit' = [credit EXCEPT ![b] = @ + SettledCredit(b, job[p])]
          /\ job' = [job EXCEPT ![p].todo = @ \ {b}]
          /\ pc'[q] = pc[q]
    BY <1>1, <1>8 DEF SettleOne
  <2>2. pc[p] = "settling" /\ sold' = sold /\ winner' = winner
    BY <1>8 DEF SettleOne, hist
  <2>3. (\A a \in Bets \ {b} : row'[a] = row[a] /\ credit'[a] = credit[a]) /\ job'[q] = job[q]
    BY <1>0, <2>1
  <2> QED BY <1>7, <2>1, <2>2, <2>3
<1>9. CASE CloseOne(p)
  <2>1. PICK b \in job[p].todo :
          /\ row' = [row EXCEPT ![b] = "closed"]
          /\ credit' = [credit EXCEPT ![b] = @ + ClosedCredit(b, job[p])]
          /\ job' = [job EXCEPT ![p].todo = @ \ {b}]
    BY <1>9 DEF CloseOne
  <2>2. pc[p] = "closing" /\ sold' = sold /\ winner' = winner /\ pc' = pc
    BY <1>9 DEF CloseOne, hist
  <2>3. (\A a \in Bets \ {b} : row'[a] = row[a] /\ credit'[a] = credit[a]) /\ job'[q] = job[q]
    BY <1>0, <2>1
  <2> QED BY <1>7, <2>2, <2>3
<1>10. CASE SettleEnd(p) \/ CloseEnd(p) \/ BankPartial(p) \/ GatePasses(p) \/ Crash(p)
  <2>1. job'[q] = job[q] /\ pc'[q] = pc[q] /\ UNCHANGED <<row, credit, sold, winner>>
    BY <1>1, <1>2, <1>10 DEF SettleEnd, CloseEnd, BankPartial, GatePasses, Crash, files, hist
  <2> QED BY <1>3, <2>1 DEF AloneMoney, LeftAlone
<1>11. CASE CloseStart(p)
  <2>1. job'[q] = job[q] /\ pc'[q] = pc[q] /\ UNCHANGED <<row, credit, sold, winner>>
    BY <1>1, <1>2, <1>11 DEF CloseStart, files
  <2> QED BY <1>3, <2>1 DEF AloneMoney, LeftAlone
<1>12. ASSUME NEW s \in Sides, Hold(p, s) \/ SkipThin(p, s) PROVE AloneMoney(q)
  <2>1. job'[q] = job[q] /\ UNCHANGED <<row, credit, sold, winner, pc>>
    BY <1>0, <1>12 DEF Hold, SkipThin, Looked, files, hist
  <2> QED BY <1>3, <2>1 DEF AloneMoney, LeftAlone
<1>13. ASSUME NEW s \in Sides, NEW f \in 1 .. MaxDepth, Sell(p, s, f) \/ SellUnheard(p, s, f)
       PROVE  AloneMoney(q)
  <2>1. job'[q] = job[q] /\ pc'[q] = pc[q] /\ UNCHANGED <<row, credit, winner>>
    BY <1>0, <1>1, <1>2, <1>13 DEF Sell, SellUnheard, AtVenue, Looked, files
  <2>2. sold'[q] = sold[q]
    BY <1>0, <1>13 DEF Sell, SellUnheard, AtVenue, Counters
  <2> QED BY <1>3, <2>1, <2>2 DEF AloneMoney, LeftAlone
<1> QED BY <1>4, <1>5, <1>6, <1>8, <1>9, <1>10, <1>11, <1>12, <1>13
        DEF Cycle, Settle, Closing, Manage

\* A bank that another mode writes or clears was empty or not ours, or both
\* books are flawed.
LEMMA BankAlone ==
    ASSUME IInv, NEW p \in Modes, NEW q \in Modes \ {p}, NEW S, flaw' = Shared(p, S),
           NEW s \in Sides, flaw'[q][s] = {},
           \/ bank'[s] = bank[s] /\ owner'[s] = owner[s]
           \/ /\ s \in S
              /\ owner'[s] = p \/ (owner'[s] = owner[s] /\ bank'[s] = EmptyBank)
    PROVE  OwnBank(q, s)' = OwnBank(q, s)
<1>1. s \in Foreign(p, S) => q # owner[s]
  BY SharedClean DEF IInv
<1>2. EmptyBank.closed = 0
  BY DEF EmptyBank
<1> QED BY <1>1, <1>2 DEF OwnBank, Foreign

LEMMA OthersBank ==
    ASSUME IInv, NEW p \in Modes, Cycle(p) \/ Crash(p), NEW q \in Modes \ {p},
           NEW s \in Sides, flaw'[q][s] = {}
    PROVE  OwnBank(q, s)' = OwnBank(q, s)
<1>0. bank \in [Sides -> Banks] /\ owner \in [Sides -> Modes]
  BY DEF IInv, Shapes
<1>1. CASE BankPartial(p)
  <2>1. bank' = [bank EXCEPT ![job[p].side] = AfterSale(p, job[p].side)]
        /\ owner' = [owner EXCEPT ![job[p].side] = p] /\ flaw' = Shared(p, {job[p].side})
    BY <1>1 DEF BankPartial
  <2>2. (bank'[s] = bank[s] /\ owner'[s] = owner[s]) \/ (s = job[p].side /\ owner'[s] = p)
    BY <1>0, <2>1
  <2> QED BY <2>1, <2>2, BankAlone
<1>2. CASE CloseEnd(p)
  <2>1. bank' = [bank EXCEPT ![job[p].side] = EmptyBank]
        /\ owner' = owner /\ flaw' = Shared(p, {job[p].side})
    BY <1>2 DEF CloseEnd
  <2>2. bank'[s] = bank[s] \/ (s = job[p].side /\ bank'[s] = EmptyBank)
    BY <1>0, <2>1
  <2> QED BY <2>1, <2>2, BankAlone
<1>3. CASE SettleEnd(p)
  <2>1. bank' = [d \in Sides |-> IF d \in BanksToClear(p) THEN EmptyBank ELSE bank[d]]
        /\ owner' = owner /\ flaw' = Shared(p, BanksToClear(p))
    BY <1>3 DEF SettleEnd
  <2>2. bank'[s] = bank[s] \/ (s \in BanksToClear(p) /\ bank'[s] = EmptyBank)
    BY <2>1
  <2> QED BY <2>1, <2>2, BankAlone
<1>4. ASSUME UNCHANGED <<bank, owner>> PROVE OwnBank(q, s)' = OwnBank(q, s)
  BY <1>4 DEF OwnBank
<1>5. CASE Settle(p) /\ ~ SettleEnd(p)
  BY <1>4, <1>5 DEF Settle, Unresolved, SettleStart, SettleOne, files, hist
<1>6. CASE CloseStart(p) \/ CloseOne(p)
  BY <1>4, <1>6 DEF CloseStart, CloseOne, files, hist
<1>7. CASE Manage(p)
  BY <1>4, <1>7 DEF Manage, Hold, SkipThin, Sell, SellUnheard, AtVenue, files, hist
<1>8. CASE Reconcile(p) \/ GateBlocks(p) \/ GatePasses(p) \/ EndCycle(p) \/ Crash(p)
  BY <1>4, <1>8 DEF Reconcile, GateBlocks, GatePasses, EndCycle, Crash, files, hist
<1> QED BY <1>1, <1>2, <1>3, <1>5, <1>6, <1>7, <1>8 DEF Cycle, Closing

LEMMA TotalSame ==
    ASSUME NEW S \in SUBSET Bets, NEW f, NEW g, \A b \in S : f[b] = g[b]
    PROVE  Total(f, S) = Total(g, S)
BY BooksFinite, SumSame DEF Total

LEMMA DuesSame ==
    ASSUME NEW q, NEW S \in SUBSET Bets, \A b \in S : Due(q, b)' = Due(q, b)
    PROVE  Total(Dues(q)', S) = Total(Dues(q), S)
<1>1. \A b \in S : Dues(q)'[b] = Due(q, b)' /\ Dues(q)[b] = Due(q, b)
  BY DEF Dues
<1>2. \A b \in S : Dues(q)'[b] = Dues(q)[b]
  BY <1>1
<1> QED BY <1>2, TotalSame

\* A book in which nothing the accounts mention has changed.
SameBook(q, s) ==
    /\ winner' = winner /\ sold'[q][s] = sold[q][s]
    /\ OwnBank(q, s)' = OwnBank(q, s) /\ Unbanked(q, s)' = Unbanked(q, s)
    /\ \A b \in InBook(q, s) : /\ row'[b] \in Final <=> row[b] \in Final
                               /\ row'[b] = "open" <=> row[b] = "open"
    /\ \A b \in Ended(q, s) : credit'[b] = credit[b]
    /\ Paying(q, s)' <=> Paying(q, s)
    /\ Paying(q, s) => \A b \in OpenBets(q, s) : Due(q, b)' = Due(q, b)
    /\ (pc'[q] \in {"settling", "settled"} /\ s \in job'[q].sides) =>
         /\ pc[q] \in {"settling", "settled"} /\ s \in job[q].sides
         /\ job'[q].bank[s].closed = job[q].bank[s].closed
         /\ job'[q].size[s] = job[q].size[s]

LEMMA CarryAccounts ==
    ASSUME NEW q, NEW s, Accounts(q, s), SameBook(q, s)
    PROVE  Accounts(q, s)'
<1>1. Ended(q, s)' = Ended(q, s) /\ OpenBets(q, s)' = OpenBets(q, s)
  BY DEF SameBook, Ended, OpenBets, InBook
<1>2. Counted(q, s)' = Counted(q, s) /\ AggSize(q, s)' = AggSize(q, s)
  BY <1>1 DEF SameBook, Counted, AggSize
<1>3. Gone(q, s)' = Gone(q, s)
  BY DEF SameBook, Gone
<1>4. Total(credit', Ended(q, s)) = Total(credit, Ended(q, s))
  <2>1. Ended(q, s) \in SUBSET Bets
    BY BooksFinite
  <2> QED BY <2>1, TotalSame DEF SameBook
<1>5. Owed(q, s)' = Owed(q, s)
  <2>1. CASE Paying(q, s)
    <3>1. OpenBets(q, s) \in SUBSET Bets /\ \A b \in OpenBets(q, s) : Due(q, b)' = Due(q, b)
      BY <2>1, BooksFinite DEF SameBook
    <3>2. Total(Dues(q)', OpenBets(q, s)) = Total(Dues(q), OpenBets(q, s))
      BY <3>1, DuesSame
    <3>3. Owed(q, s)' = Total(Dues(q)', OpenBets(q, s)')
      BY <2>1 DEF Owed, SameBook, Total
    <3> QED BY <1>1, <2>1, <3>2, <3>3 DEF Owed
  <2>2. CASE ~ Paying(q, s)
    BY <2>2 DEF Owed, SameBook
  <2> QED BY <2>1, <2>2
<1>6. Won(q, s)' = Won(q, s)
  BY <1>2, <1>3 DEF Won, SameBook, Total
<1>7. ~ Paying(q, s)' => OwnBank(q, s)' + Unbanked(q, s)' <= AggSize(q, s)'
  BY <1>2 DEF Accounts, SameBook
<1>8. winner' = "none" => Total(Size, Counted(q, s)') = Gone(q, s)'
  BY <1>2, <1>3 DEF Accounts, SameBook
<1>9. Total(credit', Ended(q, s)') + Owed(q, s)' = Gone(q, s)' * SellPrice + Won(q, s)'
  BY <1>1, <1>3, <1>4, <1>5, <1>6 DEF Accounts
<1>10. pc'[q] \in {"settling", "settled"} /\ s \in job'[q].sides =>
         /\ job'[q].bank[s].closed = OwnBank(q, s)'
         /\ job'[q].bank[s].closed <= job'[q].size[s]
  BY DEF Accounts, SameBook
<1> QED BY <1>7, <1>8, <1>9, <1>10 DEF Accounts, Total

LEMMA AloneAccounts ==
    ASSUME IInv, NEW q \in Modes, NEW s \in Sides, AloneMoney(q), Accounts(q, s),
           OwnBank(q, s)' = OwnBank(q, s)
    PROVE  Accounts(q, s)'
<1>1. \A b \in InBook(q, s) : row'[b] = row[b] /\ credit'[b] = credit[b]
  BY DEF InBook, AloneMoney
<1>2. \A b \in Ended(q, s) : credit'[b] = credit[b]
  BY <1>1 DEF Ended
<1>3. pc'[q] = pc[q] /\ job'[q] = job[q] /\ winner' = winner /\ sold'[q] = sold[q]
  BY DEF AloneMoney, LeftAlone
<1>4. Paying(q, s)' <=> Paying(q, s)
  BY <1>3 DEF Paying
<1>5. \A b \in OpenBets(q, s) : Due(q, b)' = Due(q, b)
  BY <1>3 DEF Due, ClosedCredit, SettledCredit
<1>6. Unbanked(q, s)' = Unbanked(q, s)
  BY <1>3 DEF Unbanked
<1>7. SameBook(q, s)
  BY <1>1, <1>2, <1>3, <1>4, <1>5, <1>6 DEF SameBook
<1> QED BY <1>7, CarryAccounts

LEMMA AloneReads ==
    ASSUME NEW q \in Modes, AloneMoney(q), JobReads(q)
    PROVE  JobReads(q)'
<1>1. pc'[q] = pc[q] /\ job'[q] = job[q] /\ winner' = winner
  BY DEF AloneMoney, LeftAlone
<1>2. \A s : OpenBets(q, s)' = OpenBets(q, s)
  BY SameOpen DEF AloneMoney, LeftAlone
<1>3. \A s \in job[q].sides : AggSize(q, s)' = AggSize(q, s)
  BY <1>2 DEF AggSize
<1> QED BY <1>1, <1>3 DEF JobReads

-----------------------------------------------------------------------------
(* The shares of a job add up to what it shares out. *)

LEMMA ClosedShares ==
    ASSUME NEW p \in Modes, NEW s \in Sides, NEW S \in SUBSET InBook(p, s), S # {}, NEW j,
           j.bank[s].proceeds = Total(Size, S) * SellPrice, j.size[s] = Total(Stake, S),
           NEW d, \A b \in S : d[b] = ClosedCredit(b, j)
    PROVE  Total(d, S) = Total(Size, S) * SellPrice
<1> DEFINE m == Total(Size, S) * SellPrice
<1>1. S \in SUBSET Bets /\ \A b \in S : BetSide[b] = s
  BY DEF InBook
<1>2. m \in Nat
  BY <1>1, SizeTotals, ProductNat, SettlementAssumption
<1>3. \A b \in S : Stake[b] \in Nat \ {0}
  BY <1>1, SettlementAssumption
<1>4. \A b \in S : (m * Stake[b]) % Total(Stake, S) = 0
  BY SharesAreWhole
<1>5. \A b \in S : d[b] = (m * Stake[b]) \div Total(Stake, S)
  BY <1>1 DEF ClosedCredit
<1> HIDE DEF m
<1>6. Total(d, S) = m
  BY <1>1, <1>2, <1>3, <1>4, <1>5, BooksFinite, SharesAddUp DEF Total
<1> QED BY <1>6 DEF m

LEMMA SettledShares ==
    ASSUME NEW p \in Modes, NEW s \in Sides, NEW S \in SUBSET InBook(p, s), S # {}, NEW j,
           j.size[s] = Total(Size, S), NEW n \in 0 .. Total(Size, S),
           j.bank[s].closed = n, j.bank[s].proceeds = n * SellPrice,
           NEW d, \A b \in S : d[b] = SettledCredit(b, j)
    PROVE  Total(d, S) = n * SellPrice
                         + (IF s = winner THEN (Total(Size, S) - n) * Payout ELSE 0)
<1> DEFINE T == Total(Size, S)
           m == n * SellPrice
           r == (T - n) * Payout
           x == [b \in S |-> (m * Size[b]) \div T]
           y == [b \in S |-> (r * Size[b]) \div T]
<1>1. S \in SUBSET Bets /\ \A b \in S : BetSide[b] = s
  BY DEF InBook
<1>2. T \in Nat /\ n \in Nat /\ T - n \in Nat
  BY <1>1, SizeTotals
<1>3. m \in Nat /\ r \in Nat
  BY <1>2, ProductNat, SettlementAssumption
<1>4. \A b \in S : Size[b] \in Nat \ {0}
  BY <1>1, SettlementAssumption
<1>5. \A b \in S : (m * Size[b]) % T = 0
  BY SharesAreWhole
<1>6. \A b \in S : Size[b] * (T - n) * Payout = r * Size[b]
  BY <1>2, <1>4, SettlementAssumption
<1>7. \A b \in S : (r * Size[b]) % T = 0
  <2>1. \A b \in S : (Size[b] * (T - n) * Payout) % T = 0
    BY SharesAreWhole
  <2> HIDE DEF r, T
  <2> QED BY <1>6, <2>1
<1>8. Above(T, n) = T - n
  BY <1>2, AboveNat
<1>9. ASSUME NEW b \in S
      PROVE  d[b] = (m * Size[b]) \div T + (IF s = winner THEN (r * Size[b]) \div T ELSE 0)
  <2>1. SettledCredit(b, j) = (m * Size[b]) \div T
          + (IF s = winner THEN (Size[b] * Above(T, n) * Payout) \div T ELSE 0)
    BY <1>1 DEF SettledCredit
  <2>2. Size[b] * Above(T, n) * Payout = r * Size[b]
    BY <1>6, <1>8
  <2> HIDE DEF m, r, T
  <2> QED BY <2>1, <2>2
<1>10. \A b \in S : x[b] = (m * Size[b]) \div T /\ y[b] = (r * Size[b]) \div T
  OBVIOUS
<1> USE DEF Total
<1>11. SumFunctionOnSet(x, S) = m /\ SumFunctionOnSet(y, S) = r
  <2>1. IsFiniteSet(S) /\ T = SumFunctionOnSet(Size, S)
    BY <1>1, BooksFinite
  <2>2. \A b \in S : (m * Size[b]) % SumFunctionOnSet(Size, S) = 0
    <3> HIDE DEF m, Total
    <3> QED BY <1>5, <2>1
  <2>3. \A b \in S : x[b] = (m * Size[b]) \div SumFunctionOnSet(Size, S)
    <3> HIDE DEF m, x, Total
    <3> QED BY <1>10, <2>1
  <2>4. \A b \in S : (r * Size[b]) % SumFunctionOnSet(Size, S) = 0
    <3> HIDE DEF r, Total
    <3> QED BY <1>7, <2>1
  <2>5. \A b \in S : y[b] = (r * Size[b]) \div SumFunctionOnSet(Size, S)
    <3> HIDE DEF r, y, Total
    <3> QED BY <1>10, <2>1
  <2> HIDE DEF m, r, x, y, T, Total
  <2>6. SumFunctionOnSet(x, S) = m
    BY <1>3, <1>4, <2>1, <2>2, <2>3, SharesAddUp
  <2>7. SumFunctionOnSet(y, S) = r
    BY <1>3, <1>4, <2>1, <2>4, <2>5, SharesAddUp
  <2> QED BY <2>6, <2>7
<1>12. T \in Nat \ {0}
  BY <1>1, SizeTerm
<1> HIDE DEF m, r, T, x, y, Total
<1>13. ASSUME NEW b \in S PROVE x[b] \in Int /\ y[b] \in Int
  <2>1. m * Size[b] \in Nat /\ r * Size[b] \in Nat
    BY <1>3, <1>4, ProductNat
  <2> QED BY <1>10, <1>12, <2>1, DivNat
<1>14. CASE s = winner
  <2>1. \A b \in S : d[b] = x[b] + y[b]
    BY <1>9, <1>10, <1>14
  <2>2. SumFunctionOnSet(d, S) = SumFunctionOnSet(x, S) + SumFunctionOnSet(y, S)
    BY <1>1, <1>13, <2>1, BooksFinite, SumPlus
  <2> QED BY <1>11, <1>14, <2>2 DEF Total, m, r, T
<1>15. CASE s # winner
  <2>1. \A b \in S : d[b] = x[b]
    BY <1>9, <1>10, <1>13, <1>15
  <2>2. SumFunctionOnSet(d, S) = SumFunctionOnSet(x, S)
    BY <1>1, <2>1, BooksFinite, SumSame
  <2>3. m + 0 = m
    BY <1>3
  <2> QED BY <1>11, <1>15, <2>2, <2>3 DEF Total, m
<1> QED BY <1>14, <1>15

\* Without a bank a bet gets the payout of its contracts, whole or not.
LEMMA UnbankedShares ==
    ASSUME NEW p \in Modes, NEW s \in Sides, NEW S \in SUBSET InBook(p, s), NEW j,
           j.size[s] \in Nat \ {0}, j.bank[s].closed = 0, j.bank[s].proceeds = 0,
           NEW d, \A b \in S : d[b] = SettledCredit(b, j)
    PROVE  Total(d, S) = IF s = winner THEN Total(Size, S) * Payout ELSE 0
<1> DEFINE T == j.size[s]
<1>1. S \in SUBSET Bets /\ \A b \in S : BetSide[b] = s
  BY DEF InBook
<1>2. \A b \in S : Size[b] \in Nat /\ Payout \in Nat
  BY <1>1, SettlementAssumption
<1>3. ASSUME NEW b \in S
      PROVE  d[b] = IF s = winner THEN Payout * Size[b] ELSE 0
  <2>1. Above(T, 0) = T /\ T \in Nat \ {0}
    BY AboveNat
  <2>2. d[b] = (0 * Size[b]) \div T
               + (IF s = winner THEN (Size[b] * T * Payout) \div T ELSE 0)
    BY <1>1, <2>1 DEF SettledCredit
  <2> HIDE DEF T
  <2>3. (0 * Size[b]) \div T = 0
    BY <1>2, <2>1
  <2>4. Payout * Size[b] \in Nat
    BY <1>2, ProductNat
  <2>5. Size[b] * T * Payout = T * (Payout * Size[b])
    BY <1>2, <2>1
  <2>6. (T * (Payout * Size[b])) \div T = Payout * Size[b]
    BY <2>1, <2>4, DivOfProduct
  <2> QED BY <2>2, <2>3, <2>4, <2>5, <2>6
<1>4. CASE s = winner
  <2>1. Total(d, S) = Payout * Total(Size, S)
    <3>1. Payout \in Int /\ \A b \in S : Size[b] \in Int /\ d[b] = Payout * Size[b]
      BY <1>2, <1>3, <1>4, SettlementAssumption
    <3>2. IsFiniteSet(S)
      BY <1>1, BooksFinite
    <3> QED BY <3>1, <3>2, SumTimes DEF Total
  <2>2. Total(Size, S) \in Nat /\ Payout \in Nat
    BY <1>1, SizeTotals, SettlementAssumption
  <2> QED BY <1>4, <2>1, <2>2
<1>5. CASE s # winner
  BY <1>1, <1>3, <1>5, BooksFinite, SumZero DEF Total
<1> QED BY <1>4, <1>5

-----------------------------------------------------------------------------
(* A step of the mode whose book it is. *)

\* Nothing of the book is being paid and what was sold stays where it was.
LEMMA IdleAccounts ==
    ASSUME NEW p, NEW s, Accounts(p, s), ~ Paying(p, s), ~ Paying(p, s)',
           winner' = winner, Gone(p, s)' = Gone(p, s),
           \A b \in InBook(p, s) : row'[b] \in Final <=> row[b] \in Final,
           \A b \in Ended(p, s) : credit'[b] = credit[b],
           OwnBank(p, s)' + Unbanked(p, s)' <= AggSize(p, s)'
    PROVE  Accounts(p, s)'
<1>1. Ended(p, s)' = Ended(p, s)
  BY DEF Ended, InBook
<1>2. Counted(p, s)' = Counted(p, s)
  BY <1>1 DEF Counted
<1>3. Total(credit', Ended(p, s)) = Total(credit, Ended(p, s))
  <2>1. Ended(p, s) \in SUBSET Bets
    BY BooksFinite
  <2> QED BY <2>1, TotalSame
<1>4. Owed(p, s)' = Owed(p, s) /\ Won(p, s)' = Won(p, s)
  BY <1>2 DEF Owed, Won, Total
<1>5. winner' = "none" => Total(Size, Counted(p, s)') = Gone(p, s)'
  BY <1>2 DEF Accounts
<1>6. Total(credit', Ended(p, s)') + Owed(p, s)' = Gone(p, s)' * SellPrice + Won(p, s)'
  BY <1>1, <1>3, <1>4 DEF Accounts
<1>7. ~ (pc'[p] \in {"settling", "settled"} /\ s \in job'[p].sides)
  BY DEF Paying
<1> QED BY <1>5, <1>6, <1>7 DEF Accounts, Total

\* Outside a sale, too, the position in the file is not looked at.
LEMMA QuietAccounts ==
    ASSUME Typed, NEW p \in Modes, NEW s \in Sides, Accounts(p, s), ~ Paying(p, s), ~ Paying(p, s)',
           UNCHANGED <<row, credit, winner>>, bank'[s] = bank[s], owner'[s] = owner[s],
           sold'[p][s] = sold[p][s], Unbanked(p, s) = 0, Unbanked(p, s)' = 0
    PROVE  Accounts(p, s)'
<1>1. OwnBank(p, s)' = OwnBank(p, s)
  BY DEF OwnBank
<1>2. Gone(p, s)' = Gone(p, s)
  BY <1>1 DEF Gone
<1>3. AggSize(p, s)' = AggSize(p, s)
  BY DEF AggSize, OpenBets, InBook, Total
<1>4. OwnBank(p, s)' + Unbanked(p, s)' <= AggSize(p, s)'
  BY <1>1, <1>3 DEF Accounts
<1> QED BY <1>2, <1>4, IdleAccounts

BetweenJobs == {"reconcile", "settle", "gate", "manage"}

LEMMA BetweenQuiet ==
    ASSUME NEW p, NEW s
    PROVE  /\ pc[p] \in BetweenJobs => ~ Paying(p, s) /\ Unbanked(p, s) = 0
           /\ pc'[p] \in BetweenJobs => ~ Paying(p, s)' /\ Unbanked(p, s)' = 0
BY DEF BetweenJobs, Paying, Unbanked

\* A step that reads and remembers nothing of the money.
LEMMA PhaseAccounts ==
    ASSUME Typed, NEW p \in Modes, NEW s \in Sides, Accounts(p, s),
           Unresolved(p) \/ GateBlocks(p) \/ GatePasses(p) \/ EndCycle(p)
             \/ \E d \in Sides : Hold(p, d) \/ SkipThin(p, d)
    PROVE  Accounts(p, s)'
<1>1. pc[p] \in BetweenJobs /\ pc'[p] \in BetweenJobs
  BY DEF Unresolved, GateBlocks, GatePasses, EndCycle, Hold, SkipThin, Goto, BetweenJobs,
     Typed, TypeOK
<1>2. UNCHANGED <<row, credit, winner, bank, owner, sold>>
  BY DEF Unresolved, GateBlocks, GatePasses, EndCycle, Hold, SkipThin, files, hist
<1> QED BY <1>1, <1>2, BetweenQuiet, QuietAccounts

LEMMA ReconcileAccounts ==
    ASSUME IInv, Typed, NEW p \in Modes, NEW s \in Sides, Accounts(p, s), Reconcile(p)
    PROVE  Accounts(p, s)'
<1>1. pc[p] \in BetweenJobs /\ pc'[p] \in BetweenJobs
  BY DEF Reconcile, Goto, BetweenJobs, Typed, TypeOK
<1>2. /\ row' = [b \in Bets |-> IF BetMode[b] = p /\ row[b] = "unbooked" THEN "open" ELSE row[b]]
      /\ UNCHANGED <<credit, winner, bank, owner, sold>>
  BY DEF Reconcile, hist
<1>3. OwnBank(p, s)' = OwnBank(p, s) /\ Gone(p, s)' = Gone(p, s)
  BY <1>1, <1>2, BetweenQuiet DEF OwnBank, Gone
<1>4. \A b \in InBook(p, s) : row'[b] \in Final <=> row[b] \in Final
  BY <1>2 DEF InBook, Final
<1>5. AggSize(p, s) <= AggSize(p, s)'
  <2>1. OpenBets(p, s) \in SUBSET OpenBets(p, s)'
    BY <1>2 DEF OpenBets, InBook
  <2>2. OpenBets(p, s)' \in SUBSET Bets
    BY DEF OpenBets, InBook
  <2>3. \A b \in OpenBets(p, s)' : Size[b] \in Nat
    BY <2>2, SettlementAssumption
  <2>4. IsFiniteSet(OpenBets(p, s)')
    BY <2>2, BooksFinite
  <2> QED BY <2>1, <2>3, <2>4, SumSubset DEF AggSize, Total
<1>6. AggSize(p, s)' \in Nat
  <2>1. OpenBets(p, s)' \in SUBSET Bets
    BY DEF OpenBets, InBook
  <2> QED BY <2>1, SizeTotals DEF AggSize, Total
<1>7. OwnBank(p, s)' + Unbanked(p, s)' <= AggSize(p, s)'
  <2>1. OwnBank(p, s) <= AggSize(p, s) /\ OwnBank(p, s) \in Nat
    BY <1>1, BetweenQuiet, BankParts DEF Accounts
  <2> QED BY <1>1, <1>3, <1>5, <1>6, <2>1, AggSizes, BetweenQuiet
<1> QED BY <1>1, <1>2, <1>3, <1>4, <1>7, BetweenQuiet, IdleAccounts

\* A sale that is not late leaves room for the bank it will be added to.
LEMMA SellAccounts ==
    ASSUME IInv, Typed, NEW p \in Modes, NEW s \in Sides, Accounts(p, s),
           NEW d \in Sides, NEW f \in 1 .. MaxDepth, Sell(p, d, f), flaw'[p][s] = {}
    PROVE  Accounts(p, s)'
<1>1. pc[p] \in BetweenJobs /\ pc'[p] = "sold" /\ pc[p] = "manage"
  BY DEF Sell, AtVenue, Goto, BetweenJobs, Typed, TypeOK
<1>2. UNCHANGED <<row, credit, winner, bank, owner>>
  BY DEF Sell, AtVenue, files
<1>3. job'[p].side = d /\ job'[p].sale = f
  BY JobParts DEF Sell, Typed, Jobs
<1>4. sold' = [sold EXCEPT ![p][d] = @ + f]
  BY DEF Sell, AtVenue
<1>5. ~ Paying(p, s) /\ ~ Paying(p, s)' /\ Unbanked(p, s) = 0
  BY <1>1, BetweenQuiet DEF Paying
<1>6. OwnBank(p, s)' = OwnBank(p, s) /\ AggSize(p, s)' = AggSize(p, s)
  BY <1>2 DEF OwnBank, AggSize, OpenBets, InBook, Total
<1>7. OwnBank(p, s) \in Nat /\ bank[s].closed \in Nat /\ AggSize(p, s) \in Nat
      /\ sold[p][s] \in Nat /\ f \in Nat \ {0}
  BY BankParts, AggSizes, SettlementAssumption DEF Typed, TypeOK, Counters
<1>8. CASE s = d
  <2>1. Unbanked(p, s)' = f
    BY <1>1, <1>3, <1>8 DEF Unbanked
  <2>2. sold'[p][s] = sold[p][s] + f
    BY <1>4, <1>8 DEF Typed, TypeOK, Counters
  <2>3. Gone(p, s)' = Gone(p, s)
    BY <1>5, <1>6, <1>7, <2>1, <2>2 DEF Gone
  <2>4. ~ LateSale(p, s, f)
    BY <1>8, MarkClean DEF Sell, IInv
  <2>5. f <= AggSize(p, s) - bank[s].closed
    BY <1>7, <2>4 DEF LateSale, Above
  <2>6. OwnBank(p, s) <= bank[s].closed
    BY <1>7 DEF OwnBank
  <2>7. OwnBank(p, s) + f <= AggSize(p, s)
    BY <1>7, <2>5, <2>6
  <2> QED BY <1>2, <1>5, <1>6, <2>1, <2>3, <2>7, IdleAccounts
<1>9. CASE s # d
  <2>1. Unbanked(p, s)' = 0 /\ sold'[p][s] = sold[p][s]
    BY <1>1, <1>3, <1>4, <1>9 DEF Unbanked, Typed, TypeOK, Counters
  <2> QED BY <1>2, <1>5, <2>1, QuietAccounts
<1> QED BY <1>8, <1>9

LEMMA SellUnheardAccounts ==
    ASSUME IInv, Typed, NEW p \in Modes, NEW s \in Sides, Accounts(p, s),
           NEW d \in Sides, NEW f \in 1 .. MaxDepth, SellUnheard(p, d, f), flaw'[p][s] = {}
    PROVE  Accounts(p, s)'
<1>1. pc[p] \in BetweenJobs /\ pc'[p] \in BetweenJobs
  BY DEF SellUnheard, AtVenue, BetweenJobs
<1>2. UNCHANGED <<row, credit, winner, bank, owner>>
  BY DEF SellUnheard, AtVenue, files
<1>3. s # d
  BY MarkClean DEF SellUnheard, IInv
<1>4. sold'[p][s] = sold[p][s]
  BY <1>3 DEF SellUnheard, AtVenue, Typed, TypeOK, Counters
<1> QED BY <1>1, <1>2, <1>4, BetweenQuiet, QuietAccounts

\* A bank that p writes without a flaw was empty or its own.
LEMMA OwnBankWritten ==
    ASSUME IInv, NEW p \in Modes, NEW S, flaw' = Shared(p, S), NEW s \in Sides, s \in S, flaw'[p][s] = {}
    PROVE  OwnBank(p, s) = bank[s].closed
<1>1. bank[s] = EmptyBank \/ owner[s] = p
  BY SharedClean DEF IInv, Foreign
<1> QED BY <1>1 DEF OwnBank, EmptyBank

LEMMA BankPartialAccounts ==
    ASSUME IInv, Typed, NEW p \in Modes, NEW s \in Sides, Accounts(p, s),
           BankPartial(p), flaw'[p][s] = {}
    PROVE  Accounts(p, s)'
<1>1. /\ pc[p] = "sold" /\ pc'[p] \in BetweenJobs /\ job[p].side \in Sides
      /\ UNCHANGED <<row, credit, winner, sold>> /\ flaw' = Shared(p, {job[p].side})
      /\ bank' = [bank EXCEPT ![job[p].side] = AfterSale(p, job[p].side)]
      /\ owner' = [owner EXCEPT ![job[p].side] = p]
  BY DEF BankPartial, Goto, BetweenJobs, Typed, TypeOK, IInv, JobFits
<1>2. bank \in [Sides -> Banks] /\ owner \in [Sides -> Modes]
  BY DEF IInv, Shapes
<1>3. ~ Paying(p, s) /\ ~ Paying(p, s)' /\ Unbanked(p, s)' = 0
  BY <1>1, BetweenQuiet DEF Paying
<1>4. CASE s = job[p].side
  <2>1. OwnBank(p, s) = bank[s].closed /\ Unbanked(p, s) = job[p].sale
    BY <1>1, <1>4, OwnBankWritten DEF Unbanked
  <2>2. OwnBank(p, s)' = bank[s].closed + job[p].sale
    BY <1>1, <1>2, <1>4 DEF OwnBank, AfterSale
  <2>3. bank[s].closed \in Nat /\ job[p].sale \in Nat /\ sold[p][s] \in Nat
    BY BankParts, JobParts, SettlementAssumption DEF Typed, TypeOK, Counters
  <2>4. Gone(p, s)' = Gone(p, s)
    BY <1>1, <1>3, <2>1, <2>2, <2>3 DEF Gone
  <2>5. bank[s].closed + job[p].sale < AggSize(p, s)
    BY <1>4 DEF BankPartial, AfterSale
  <2>6. AggSize(p, s)' = AggSize(p, s)
    BY <1>1 DEF AggSize, OpenBets, InBook, Total
  <2>7. OwnBank(p, s)' + Unbanked(p, s)' <= AggSize(p, s)'
    BY <1>3, <2>2, <2>3, <2>5, <2>6, AggSizes
  <2> QED BY <1>1, <1>3, <2>4, <2>7, IdleAccounts
<1>5. CASE s # job[p].side
  <2>1. bank'[s] = bank[s] /\ owner'[s] = owner[s] /\ Unbanked(p, s) = 0
    BY <1>1, <1>2, <1>5 DEF Unbanked
  <2> QED BY <1>1, <1>3, <2>1, QuietAccounts
<1> QED BY <1>4, <1>5

-----------------------------------------------------------------------------
(* A book that is paid from a job. *)

LEMMA SizeUnion ==
    ASSUME NEW S \in SUBSET Bets, NEW T \in SUBSET Bets, S \intersect T = {}
    PROVE  Total(Size, S \union T) = Total(Size, S) + Total(Size, T)
<1>1. \A b \in S \union T : Size[b] \in Int
  BY SettlementAssumption
<1>2. IsFiniteSet(S) /\ IsFiniteSet(T)
  BY BooksFinite
<1> QED BY <1>1, <1>2, SumUnion DEF Total

LEMMA CreditTotal ==
    ASSUME Typed, NEW S \in SUBSET Bets
    PROVE  Total(credit, S) \in Nat
<1>1. \A b \in S : credit[b] \in Nat
  BY DEF Typed, TypeOK
<1> QED BY <1>1, BooksFinite, SumNat DEF Total

LEMMA OpenApart ==
    ASSUME NEW p, NEW s
    PROVE  Ended(p, s) \intersect OpenBets(p, s) = {}
BY DEF Ended, OpenBets, Final

\* A job that begins takes n sold contracts, and the rest of the open ones,
\* out of the bank and into the bets it will pay.
LEMMA StartPaying ==
    ASSUME Typed, NEW p \in Modes, NEW s \in Sides, Accounts(p, s), ~ Paying(p, s), Paying(p, s)',
           UNCHANGED <<row, credit, winner>>,
           NEW n \in Nat, n <= AggSize(p, s), Gone(p, s) \in Int, Gone(p, s)' = Gone(p, s) + n,
           Owed(p, s)' = n * SellPrice + (IF s = winner THEN (AggSize(p, s) - n) * Payout ELSE 0),
           winner = "none" => n = AggSize(p, s),
           (pc'[p] \in {"settling", "settled"} /\ s \in job'[p].sides) =>
              /\ job'[p].bank[s].closed = OwnBank(p, s)'
              /\ job'[p].bank[s].closed <= job'[p].size[s]
    PROVE  Accounts(p, s)'
<1> DEFINE E == Total(Size, Ended(p, s))
           T == AggSize(p, s)
           C == Total(credit, Ended(p, s))
           G == Gone(p, s)
<1>1. /\ Ended(p, s)' = Ended(p, s) /\ OpenBets(p, s)' = OpenBets(p, s)
      /\ Counted(p, s) = Ended(p, s) /\ Counted(p, s)' = Ended(p, s) \union OpenBets(p, s)
  BY DEF Counted, Ended, OpenBets, InBook
<1>2. Ended(p, s) \in SUBSET Bets /\ OpenBets(p, s) \in SUBSET Bets
  BY BooksFinite
<1>3. Total(Size, Counted(p, s)') = E + T
  BY <1>1, <1>2, OpenApart, SizeUnion DEF AggSize
<1>4. E \in Nat /\ T \in Nat /\ C \in Nat /\ G \in Int /\ SellPrice \in Nat /\ Payout \in Nat
  BY <1>2, SizeTotals, AggSizes, CreditTotal, SettlementAssumption
<1>5. C = G * SellPrice + (IF s = winner THEN (E - G) * Payout ELSE 0)
  <2>1. Owed(p, s) = 0 /\ Won(p, s) = IF s = winner THEN (E - G) * Payout ELSE 0
    BY <1>1 DEF Owed, Won
  <2>2. C + Owed(p, s) = G * SellPrice + Won(p, s)
    BY DEF Accounts
  <2>3. C + 0 = C
    BY <1>4
  <2> QED BY <2>1, <2>2, <2>3
<1>6. winner = "none" => E = G
  BY <1>1 DEF Accounts
<1>7. Won(p, s)' = IF s = winner THEN ((E + T) - (G + n)) * Payout ELSE 0
  BY <1>3 DEF Won, Total
<1> HIDE DEF E, T, C, G
<1>8. (G + n) * SellPrice = G * SellPrice + n * SellPrice
  BY <1>4
<1>9. ((E + T) - (G + n)) * Payout = (E - G) * Payout + (T - n) * Payout
  BY <1>4
<1>10. /\ G * SellPrice \in Int /\ n * SellPrice \in Int
       /\ (E - G) * Payout \in Int /\ (T - n) * Payout \in Int
  BY <1>4
<1>11. Owed(p, s)' = n * SellPrice + (IF s = winner THEN (T - n) * Payout ELSE 0)
  BY DEF T
<1>12. C + Owed(p, s)' = (G + n) * SellPrice + Won(p, s)'
  BY <1>4, <1>5, <1>7, <1>8, <1>9, <1>10, <1>11
<1>13. Total(credit', Ended(p, s)') = C /\ Gone(p, s)' = G + n
  BY <1>1 DEF C, G
<1>14. winner' = "none" => Total(Size, Counted(p, s)') = Gone(p, s)'
  BY <1>3, <1>6, <1>13 DEF T
<1>15. Total(credit', Ended(p, s)') + Owed(p, s)' = Gone(p, s)' * SellPrice + Won(p, s)'
  BY <1>12, <1>13
<1> QED BY <1>14, <1>15 DEF Accounts, Total

\* A job that is over, or forgotten, owed what the n contracts still banked
\* and the rest of the open ones are worth.
LEMMA StopPaying ==
    ASSUME Typed, NEW p \in Modes, NEW s \in Sides, Accounts(p, s), Paying(p, s), ~ Paying(p, s)',
           UNCHANGED <<row, credit, winner>>, sold'[p][s] = sold[p][s],
           NEW n \in Nat, n <= AggSize(p, s), OwnBank(p, s)' = n, Unbanked(p, s)' = 0,
           Owed(p, s) = n * SellPrice + (IF s = winner THEN (AggSize(p, s) - n) * Payout ELSE 0),
           winner = "none" => n = AggSize(p, s)
    PROVE  Accounts(p, s)'
<1> DEFINE E == Total(Size, Ended(p, s))
           T == AggSize(p, s)
           C == Total(credit, Ended(p, s))
           G == sold[p][s]
<1>1. /\ Ended(p, s)' = Ended(p, s) /\ OpenBets(p, s)' = OpenBets(p, s)
      /\ Counted(p, s)' = Ended(p, s) /\ Counted(p, s) = Ended(p, s) \union OpenBets(p, s)
  BY DEF Counted, Ended, OpenBets, InBook
<1>2. Ended(p, s) \in SUBSET Bets /\ OpenBets(p, s) \in SUBSET Bets
  BY BooksFinite
<1>3. Total(Size, Counted(p, s)) = E + T
  BY <1>1, <1>2, OpenApart, SizeUnion DEF AggSize
<1>4. E \in Nat /\ T \in Nat /\ C \in Nat /\ G \in Nat /\ SellPrice \in Nat /\ Payout \in Nat
  BY <1>2, SizeTotals, AggSizes, CreditTotal, SettlementAssumption DEF Typed, TypeOK, Counters
<1>5. Gone(p, s) = G /\ Gone(p, s)' = G - n
  BY <1>4 DEF Gone
<1>6. C + Owed(p, s) = G * SellPrice + (IF s = winner THEN ((E + T) - G) * Payout ELSE 0)
  BY <1>3, <1>5 DEF Accounts, Won
<1>7. winner = "none" => E + T = G
  BY <1>3, <1>5 DEF Accounts
<1>8. Won(p, s)' = IF s = winner THEN (E - (G - n)) * Payout ELSE 0
  BY <1>1, <1>5 DEF Won, Total
<1>9. Owed(p, s) = n * SellPrice + (IF s = winner THEN (T - n) * Payout ELSE 0)
  OBVIOUS
<1>10. AggSize(p, s)' = T
  BY <1>1 DEF AggSize, Total
<1> HIDE DEF E, T, C, G
<1>11. (G - n) * SellPrice = G * SellPrice - n * SellPrice
  BY <1>4
<1>12. (E - (G - n)) * Payout = ((E + T) - G) * Payout - (T - n) * Payout
  BY <1>4
<1>13. /\ G * SellPrice \in Int /\ n * SellPrice \in Int
       /\ ((E + T) - G) * Payout \in Int /\ (T - n) * Payout \in Int
  BY <1>4
<1>14. C + 0 = (G - n) * SellPrice + Won(p, s)'
  BY <1>4, <1>6, <1>8, <1>9, <1>11, <1>12, <1>13
<1>15. Total(credit', Ended(p, s)') = C
  BY <1>1 DEF C
<1>16. winner' = "none" => Total(Size, Counted(p, s)') = Gone(p, s)'
  <2>1. winner = "none" => E = G - n
    BY <1>4, <1>7 DEF T
  <2> QED BY <1>1, <1>5, <2>1 DEF E
<1>17. Total(credit', Ended(p, s)') + Owed(p, s)' = Gone(p, s)' * SellPrice + Won(p, s)'
  <2>1. Owed(p, s)' = 0
    BY DEF Owed
  <2> QED BY <1>5, <1>14, <1>15, <2>1
<1>18. OwnBank(p, s)' + Unbanked(p, s)' <= AggSize(p, s)'
  BY <1>4, <1>10 DEF T
<1>19. ~ (pc'[p] \in {"settling", "settled"} /\ s \in job'[p].sides)
  BY DEF Paying
<1> QED BY <1>16, <1>17, <1>18, <1>19 DEF Accounts, Total

\* One bet of a book that is being paid gets what is due to it.
LEMMA PayOne ==
    ASSUME Typed, NEW p \in Modes, NEW s \in Sides, Accounts(p, s), Paying(p, s), Paying(p, s)',
           NEW b \in OpenBets(p, s), row'[b] \in Final,
           \A a \in Bets \ {b} : row'[a] = row[a] /\ credit'[a] = credit[a],
           credit[b] = 0, credit'[b] = Due(p, b),
           \A a \in OpenBets(p, s) : Due(p, a) \in Nat /\ Due(p, a)' = Due(p, a),
           winner' = winner, sold'[p][s] = sold[p][s], OwnBank(p, s)' = OwnBank(p, s),
           pc'[p] \in {"settling", "settled"} => pc[p] \in {"settling", "settled"},
           job'[p].bank = job[p].bank, job'[p].size = job[p].size, job'[p].sides = job[p].sides
    PROVE  Accounts(p, s)'
<1> DEFINE E == Ended(p, s)
           R == OpenBets(p, s) \ {b}
<1>1. b \in InBook(p, s) /\ b \in Bets /\ row[b] = "open"
  BY DEF OpenBets, InBook
<1>2. Ended(p, s)' = E \union {b} /\ OpenBets(p, s)' = R
  <2>1. \A a \in InBook(p, s) : a # b => row'[a] = row[a]
    BY DEF InBook
  <2>2. row'[b] # "open"
    BY DEF Final
  <2>3. InBook(p, s)' = InBook(p, s)
    BY DEF InBook
  <2>4. Ended(p, s)' = {a \in InBook(p, s) : row'[a] \in Final}
    BY <2>3 DEF Ended
  <2>5. OpenBets(p, s)' = {a \in InBook(p, s) : row'[a] = "open"}
    BY <2>3 DEF OpenBets
  <2> QED BY <1>1, <2>1, <2>2, <2>4, <2>5 DEF Ended, OpenBets, Final
<1>3. Counted(p, s)' = Counted(p, s)
  BY <1>2 DEF Counted
<1>4. Gone(p, s)' = Gone(p, s) /\ Won(p, s)' = Won(p, s)
  BY <1>3 DEF Gone, Won, Total
<1>5. E \in SUBSET Bets /\ OpenBets(p, s) \in SUBSET Bets /\ b \notin E
  BY <1>1, BooksFinite DEF Ended, Final
<1>6. Total(credit', Ended(p, s)') = Due(p, b) + Total(credit, E)
  <2>1. \A a \in E : credit'[a] = credit[a] /\ credit[a] \in Nat
    BY <1>5 DEF Typed, TypeOK
  <2>2. Total(credit', E) = Total(credit, E)
    BY <1>5, <2>1, TotalSame
  <2>3. \A a \in E \union {b} : credit'[a] \in Int
    BY <2>1
  <2>4. IsFiniteSet(E)
    BY <1>5, BooksFinite
  <2>5. SumFunctionOnSet(credit', E \union {b}) = credit'[b] + SumFunctionOnSet(credit', E)
    BY <1>5, <2>3, <2>4, SumAdd
  <2> QED BY <1>2, <2>2, <2>5 DEF Total
<1>7. Owed(p, s) = Due(p, b) + Owed(p, s)'
  <2>1. \A a \in OpenBets(p, s) : Dues(p)[a] = Due(p, a) /\ Dues(p)[a] \in Int
    BY <1>5 DEF Dues
  <2>2. SumFunctionOnSet(Dues(p), OpenBets(p, s)) = Dues(p)[b] + SumFunctionOnSet(Dues(p), R)
    BY <1>5, <2>1, BooksFinite, SumTake
  <2>3. R \in SUBSET Bets /\ \A a \in R : Due(p, a)' = Due(p, a)
    BY <1>5
  <2>4. Total(Dues(p)', R) = Total(Dues(p), R)
    BY <2>3, DuesSame
  <2>5. Owed(p, s)' = Total(Dues(p)', R)
    BY <1>2 DEF Owed, Total
  <2> QED BY <2>1, <2>2, <2>4, <2>5 DEF Owed, Total
<1>8. /\ Due(p, b) \in Nat /\ Total(credit, E) \in Nat
  BY <1>5, CreditTotal
<1>9. Owed(p, s)' \in Nat
  <2>1. R \in SUBSET Bets /\ \A a \in R : Due(p, a)' = Due(p, a) /\ Dues(p)[a] \in Nat
    BY <1>5 DEF Dues
  <2>2. Total(Dues(p)', R) = Total(Dues(p), R)
    BY <2>1, DuesSame
  <2>3. Total(Dues(p), R) \in Nat
    BY <2>1, BooksFinite, SumNat DEF Total
  <2> QED BY <1>2, <2>2, <2>3 DEF Owed, Total
<1>10. Total(credit', Ended(p, s)') + Owed(p, s)' = Gone(p, s)' * SellPrice + Won(p, s)'
  <2>1. Total(credit, E) + Owed(p, s) = Gone(p, s) * SellPrice + Won(p, s)
    BY DEF Accounts
  <2>2. Total(credit', Ended(p, s)') + Owed(p, s)' = Total(credit, E) + Owed(p, s)
    BY <1>6, <1>7, <1>8, <1>9
  <2> QED BY <1>4, <2>1, <2>2
<1>11. winner' = "none" => Total(Size, Counted(p, s)') = Gone(p, s)'
  BY <1>3, <1>4 DEF Accounts
<1>12. (pc'[p] \in {"settling", "settled"} /\ s \in job'[p].sides) =>
         /\ job'[p].bank[s].closed = OwnBank(p, s)'
         /\ job'[p].bank[s].closed <= job'[p].size[s]
  BY DEF Accounts
<1> QED BY <1>10, <1>11, <1>12 DEF Accounts, Total

LEMMA AtPriceSum ==
    ASSUME NEW k \in Banks, AtPrice(k), NEW n \in Nat
    PROVE  k.proceeds + n * SellPrice = (k.closed + n) * SellPrice
<1>1. k.closed \in Nat /\ SellPrice \in Nat
  BY SettlementAssumption DEF Banks
<1> QED BY <1>1 DEF AtPrice

\* The whole aggregate is out: every open bet is about to be closed.
LEMMA CloseStartAccounts ==
    ASSUME IInv, Typed, Prices, NEW p \in Modes, NEW s \in Sides, Accounts(p, s),
           CloseStart(p), flaw'[p][s] = {}
    PROVE  Accounts(p, s)'
<1>1. /\ pc[p] = "sold" /\ pc'[p] = "closing" /\ job[p].side \in Sides
      /\ UNCHANGED <<row, credit, winner, sold, bank, owner>>
      /\ flaw' = Shared(p, {job[p].side})
  BY DEF CloseStart, Goto, Typed, TypeOK, IInv, JobFits, files
<1>2. PICK d \in Sides : d = job[p].side
  BY <1>1
<1> DEFINE a == AfterSale(p, d)
           n == Total(Stake, OpenBets(p, d))
           c == job[p].sides \ {d}
<1>3. /\ job'[p].bank = [job[p].bank EXCEPT ![d] = a] /\ job'[p].side = d
      /\ job'[p].size = [job[p].size EXCEPT ![d] = n]
  <2>1. job' = [job EXCEPT ![p] = [job[p] EXCEPT !.bank[d] = a, !.size[d] = n, !.sides = c]]
    BY <1>2 DEF CloseStart
  <2> HIDE DEF a, n, c
  <2> QED BY <1>2, <2>1, JobParts DEF Typed, Jobs
<1>4. ~ Paying(p, s) /\ OwnBank(p, s)' = OwnBank(p, s)
  BY <1>1 DEF Paying, OwnBank
<1>5. CASE s # d
  <2>1. ~ Paying(p, s)' /\ Unbanked(p, s) = 0 /\ Unbanked(p, s)' = 0
    BY <1>1, <1>2, <1>3, <1>5 DEF Paying, Unbanked
  <2> QED BY <1>1, <1>4, <2>1, QuietAccounts
<1>6. CASE s = d
  <2> DEFINE T == AggSize(p, s)
             S == OpenBets(p, s)
  <2>1. job[p].sale \in Nat \ {0} /\ bank[s] \in Banks /\ bank[s].closed \in Nat
        /\ sold[p][s] \in Nat /\ T \in Nat
    BY <1>1, BankParts, AggSizes DEF IInv, JobFits, Typed, TypeOK, Counters
  <2>2. OwnBank(p, s) = bank[s].closed /\ Unbanked(p, s) = job[p].sale
    BY <1>1, <1>2, <1>6, OwnBankWritten DEF Unbanked
  <2>3. a.closed = bank[s].closed + job[p].sale /\ a.closed = T
    <3>1. a.closed = bank[s].closed + job[p].sale /\ a.closed >= T
      BY <1>2, <1>6 DEF CloseStart, AfterSale
    <3>2. OwnBank(p, s) + Unbanked(p, s) <= T
      BY <1>4 DEF Accounts
    <3> HIDE DEF a, T
    <3> QED BY <2>1, <2>2, <3>1, <3>2
  <2>4. a.proceeds = T * SellPrice
    <3>1. a.proceeds = bank[s].proceeds + job[p].sale * SellPrice
      BY <1>6 DEF AfterSale
    <3>2. bank[s].proceeds + job[p].sale * SellPrice = (bank[s].closed + job[p].sale) * SellPrice
      BY <2>1, AtPriceSum DEF Prices
    <3> HIDE DEF a, T
    <3> QED BY <2>3, <3>1, <3>2
  <2>5. S \in SUBSET InBook(p, s) /\ S # {} /\ Total(Size, S) = T
    <3>1. S = {} => T = 0
      BY SumEmpty DEF AggSize, Total
    <3>2. T # 0
      <4> HIDE DEF T, a
      <4> QED BY <2>1, <2>3
    <3> QED BY <3>1, <3>2, BooksFinite DEF AggSize
  <2>6. job'[p].bank[s] = a /\ job'[p].size[s] = Total(Stake, S)
    BY <1>3, <1>6, JobParts
  <2>7. Paying(p, s)' /\ OpenBets(p, s)' = S
    BY <1>1, <1>3, <1>6 DEF Paying, OpenBets, InBook
  <2>8. Owed(p, s)' = Total(Dues(p)', S)
    BY <2>7 DEF Owed, Total
  <2>9. \A b \in S : Dues(p)'[b] = ClosedCredit(b, job'[p])
    BY <1>1, <2>5 DEF Dues, Due, ClosedCredit, InBook
  <2>10. Total(Dues(p)', S) = T * SellPrice
    <3> HIDE DEF S, T, a
    <3> QED BY <2>4, <2>5, <2>6, <2>9, ClosedShares
  <2>11. T \in Nat /\ T <= AggSize(p, s) /\ (T - T) * Payout = 0
    <3>1. (T - T) * Payout = 0
      <4>1. Payout \in Nat
        BY SettlementAssumption
      <4> HIDE DEF T
      <4> QED BY <2>1, <4>1
    <3> QED BY <2>1, <3>1
  <2>12. Owed(p, s)' = T * SellPrice + (IF s = winner THEN (AggSize(p, s) - T) * Payout ELSE 0)
    <3>1. T * SellPrice \in Nat
      BY <2>1, ProductNat, SettlementAssumption
    <3> QED BY <2>8, <2>10, <2>11, <3>1
  <2>13. Gone(p, s) \in Int /\ Gone(p, s)' = Gone(p, s) + T
    <3>1. Gone(p, s) = sold[p][s] - bank[s].closed - job[p].sale
      BY <1>4, <2>2 DEF Gone
    <3>2. Gone(p, s)' = sold[p][s]
      BY <1>1, <2>7 DEF Gone
    <3> HIDE DEF T, a
    <3> QED BY <2>1, <2>3, <3>1, <3>2
  <2>14. pc'[p] \notin {"settling", "settled"}
    BY <1>1
  <2>15. UNCHANGED <<row, credit, winner>> /\ AggSize(p, s) = T
    BY <1>1
  <2> HIDE DEF T
  <2> QED BY <1>4, <2>7, <2>11, <2>12, <2>13, <2>14, <2>15, StartPaying
<1> QED BY <1>5, <1>6

\* What a job that is at work owes its bets.
LEMMA DuesNat ==
    ASSUME IInv, Typed, NEW p \in Modes, JobReads(p), NEW s \in Sides,
           \/ pc[p] = "settling"
           \/ pc[p] = "closing" /\ s = job[p].side
    PROVE  \A a \in OpenBets(p, s) : Due(p, a) \in Nat
<1>1. ASSUME NEW a \in OpenBets(p, s) PROVE Due(p, a) \in Nat
  <2>1. a \in job[p].todo
    BY DEF IInv, JobFits, AllOpen
  <2>2. a \in Bets /\ job[p].size[BetSide[a]] # 0
    BY <2>1, InHandCounts
  <2>3. Due(p, a) = SettledCredit(a, job[p]) \/ Due(p, a) = ClosedCredit(a, job[p])
    BY DEF Due
  <2> QED BY <2>2, <2>3, SettledNat, ClosedNat
<1> QED BY <1>1

LEMMA CloseOneAccounts ==
    ASSUME IInv, Typed, Unpaid, NEW p \in Modes, JobReads(p), NEW s \in Sides, Accounts(p, s),
           CloseOne(p)
    PROVE  Accounts(p, s)'
<1>1. /\ pc[p] = "closing" /\ pc' = pc
      /\ UNCHANGED <<bank, winner, sold, owner>>
  BY DEF CloseOne, hist
<1>2. PICK b \in job[p].todo :
        /\ row' = [row EXCEPT ![b] = "closed"]
        /\ credit' = [credit EXCEPT ![b] = @ + ClosedCredit(b, job[p])]
        /\ job' = [job EXCEPT ![p].todo = @ \ {b}]
  BY DEF CloseOne
<1>3. b \in Bets /\ b \in OpenBets(p, job[p].side) /\ row[b] = "open" /\ BetSide[b] = job[p].side
  BY <1>1 DEF IInv, JobFits, OpenBets, InBook
<1>4. job'[p] = [job[p] EXCEPT !.todo = @ \ {b}]
  BY <1>2 DEF Typed
<1>5. /\ job'[p].bank = job[p].bank /\ job'[p].size = job[p].size
      /\ job'[p].sides = job[p].sides /\ job'[p].side = job[p].side
  BY <1>4, JobParts DEF Jobs
<1>6. row'[b] = "closed" /\ credit[b] = 0 /\ credit'[b] = credit[b] + ClosedCredit(b, job[p])
      /\ \A a \in Bets \ {b} : row'[a] = row[a] /\ credit'[a] = credit[a]
  BY <1>2, <1>3 DEF Typed, TypeOK, Unpaid, Final
<1>7. OwnBank(p, s)' = OwnBank(p, s)
  BY <1>1 DEF OwnBank
<1>8. \A a : Due(p, a)' = Due(p, a)
  BY <1>1, <1>5 DEF Due, ClosedCredit
<1>9. CASE s = job[p].side
  <2>1. Paying(p, s) /\ Paying(p, s)'
    BY <1>1, <1>5, <1>9 DEF Paying
  <2>2. \A a \in OpenBets(p, s) : Due(p, a) \in Nat /\ Due(p, a)' = Due(p, a)
    BY <1>1, <1>8, <1>9, DuesNat
  <2>3. b \in OpenBets(p, s) /\ row'[b] \in Final
    BY <1>3, <1>6, <1>9 DEF Final
  <2>4. credit'[b] = Due(p, b)
    BY <1>1, <1>6, <2>2, <2>3 DEF Due
  <2> QED BY <1>1, <1>5, <1>6, <1>7, <2>1, <2>2, <2>3, <2>4, PayOne
<1>10. CASE s # job[p].side
  <2>1. ~ Paying(p, s) /\ ~ Paying(p, s)' /\ Unbanked(p, s) = 0 /\ Unbanked(p, s)' = 0
    BY <1>1, <1>5, <1>10 DEF Paying, Unbanked
  <2>2. \A a \in InBook(p, s) : row'[a] = row[a] /\ credit'[a] = credit[a]
    BY <1>3, <1>6, <1>10 DEF InBook
  <2>3. AggSize(p, s)' = AggSize(p, s)
    <3>1. OpenBets(p, s)' = OpenBets(p, s)
      BY <2>2 DEF OpenBets, InBook
    <3> QED BY <3>1 DEF AggSize, Total
  <2>4. Gone(p, s)' = Gone(p, s)
    BY <1>1, <1>7, <2>1 DEF Gone
  <2>5. OwnBank(p, s)' + Unbanked(p, s)' <= AggSize(p, s)'
    BY <1>7, <2>1, <2>3 DEF Accounts
  <2>6. \A a \in Ended(p, s) : credit'[a] = credit[a]
    BY <2>2 DEF Ended
  <2> QED BY <1>1, <2>1, <2>2, <2>4, <2>5, <2>6, IdleAccounts
<1> QED BY <1>9, <1>10

\* A job with nothing left to pay and nothing left of its bank.
LEMMA StopPaid ==
    ASSUME Typed, NEW p \in Modes, NEW s \in Sides, Accounts(p, s), Paying(p, s), ~ Paying(p, s)',
           UNCHANGED <<row, credit, winner>>, sold'[p][s] = sold[p][s],
           OwnBank(p, s)' = 0, Unbanked(p, s)' = 0, OpenBets(p, s) = {}
    PROVE  Accounts(p, s)'
<1>1. AggSize(p, s) = 0 /\ Owed(p, s) = 0
  BY SumEmpty DEF AggSize, Owed, Total
<1>2. SellPrice \in Nat /\ Payout \in Nat
  BY SettlementAssumption
<1>3. 0 * SellPrice = 0 /\ (0 - 0) * Payout = 0
  BY <1>2
<1>4. Owed(p, s) = 0 * SellPrice + (IF s = winner THEN (AggSize(p, s) - 0) * Payout ELSE 0)
  BY <1>1, <1>3
<1> QED BY <1>1, <1>4, StopPaying

LEMMA CloseEndAccounts ==
    ASSUME IInv, Typed, NEW p \in Modes, NEW s \in Sides, Accounts(p, s), CloseEnd(p)
    PROVE  Accounts(p, s)'
<1>1. /\ pc[p] = "closing" /\ pc'[p] \in BetweenJobs /\ job[p].side \in Sides
      /\ UNCHANGED <<row, credit, winner, sold, owner>>
      /\ bank' = [bank EXCEPT ![job[p].side] = EmptyBank]
      /\ OpenBets(p, job[p].side) = {}
  BY DEF CloseEnd, Goto, BetweenJobs, Typed, TypeOK, IInv, JobFits
<1>2. bank \in [Sides -> Banks]
  BY DEF IInv, Shapes
<1>3. ~ Paying(p, s)' /\ Unbanked(p, s)' = 0
  BY <1>1, BetweenQuiet
<1>4. CASE s = job[p].side
  <2>1. bank'[s].closed = 0
    BY <1>1, <1>2, <1>4 DEF EmptyBank
  <2>2. OwnBank(p, s)' = 0 /\ Paying(p, s) /\ OpenBets(p, s) = {}
    BY <1>1, <1>4, <2>1 DEF OwnBank, Paying
  <2> QED BY <1>1, <1>3, <2>2, StopPaid
<1>5. CASE s # job[p].side
  <2>1. bank'[s] = bank[s] /\ owner'[s] = owner[s] /\ ~ Paying(p, s) /\ Unbanked(p, s) = 0
    BY <1>1, <1>2, <1>5 DEF Paying, Unbanked
  <2> QED BY <1>1, <1>3, <2>1, QuietAccounts
<1> QED BY <1>4, <1>5

\* A market with a banked sale settles for what is left of it.
LEMMA SettleStartAccounts ==
    ASSUME IInv, Typed, Prices, NEW p \in Modes, NEW s \in Sides, Accounts(p, s),
           SettleStart(p), flaw'[p][s] = {}
    PROVE  Accounts(p, s)'
<1> DEFINE D == {BetSide[b] : b \in AllOpen(p)}
           j == [NoJob EXCEPT !.todo = AllOpen(p), !.sides = D,
                    !.size = [d \in Sides |-> AggSize(p, d)], !.bank = bank]
<1>1. /\ pc[p] = "settle" /\ pc'[p] = "settling" /\ winner # "none"
      /\ UNCHANGED <<row, credit, winner, sold, bank, owner>>
      /\ flaw' = Shared(p, D) /\ job' = [job EXCEPT ![p] = j]
  BY DEF SettleStart, Goto, Typed, TypeOK, files
<1>2. /\ job'[p] = j /\ j.sides = D /\ j.bank = bank
      /\ j.size = [d \in Sides |-> AggSize(p, d)]
  BY <1>1 DEF Typed, NoJob
<1> HIDE DEF j
<1>3. ~ Paying(p, s) /\ Unbanked(p, s) = 0 /\ OwnBank(p, s)' = OwnBank(p, s)
      /\ Unbanked(p, s)' = 0
  BY <1>1 DEF Paying, Unbanked, OwnBank
<1>4. CASE s \notin D
  <2>1. ~ Paying(p, s)'
    BY <1>1, <1>2, <1>4 DEF Paying
  <2> QED BY <1>1, <1>3, <2>1, QuietAccounts
<1>5. CASE s \in D
  <2> DEFINE T == AggSize(p, s)
             S == OpenBets(p, s)
             n == bank[s].closed
  <2>1. n \in Nat /\ T \in Nat /\ sold[p][s] \in Nat
    BY BankParts, AggSizes DEF Typed, TypeOK, Counters
  <2>2. OwnBank(p, s) = n
    BY <1>1, <1>5, OwnBankWritten
  <2>3. n <= T
    <3>1. OwnBank(p, s) + 0 <= T
      BY <1>3 DEF Accounts
    <3> HIDE DEF T, n
    <3> QED BY <2>1, <2>2, <3>1
  <2>4. S \in SUBSET InBook(p, s) /\ S # {} /\ Total(Size, S) = T
    <3>1. PICK b \in AllOpen(p) : s = BetSide[b]
      BY <1>5
    <3>2. b \in S
      BY <3>1 DEF AllOpen, OpenBets, InBook
    <3> QED BY <3>2, BooksFinite DEF AggSize
  <2>5. /\ job'[p].size[s] = Total(Size, S) /\ job'[p].bank[s].closed = n
        /\ job'[p].bank[s].proceeds = n * SellPrice
    BY <1>2, <2>4 DEF Prices, AtPrice
  <2>6. Paying(p, s)' /\ OpenBets(p, s)' = S
    BY <1>1, <1>2, <1>5 DEF Paying, OpenBets, InBook
  <2>7. Owed(p, s)' = Total(Dues(p)', S)
    BY <2>6 DEF Owed, Total
  <2>8. \A b \in S : Dues(p)'[b] = SettledCredit(b, job'[p])
    BY <1>1, <2>4 DEF Dues, Due, SettledCredit, InBook
  <2>9. n \in 0 .. Total(Size, S)
    <3> HIDE DEF S, T, n
    <3> QED BY <2>1, <2>3, <2>4
  <2>10. Total(Dues(p)', S) = n * SellPrice
                              + (IF s = winner THEN (Total(Size, S) - n) * Payout ELSE 0)
    <3> HIDE DEF S, T, n
    <3> QED BY <2>4, <2>5, <2>8, <2>9, SettledShares
  <2>11. Owed(p, s)' = n * SellPrice + (IF s = winner THEN (AggSize(p, s) - n) * Payout ELSE 0)
    BY <2>4, <2>7, <2>10
  <2>12. Gone(p, s) \in Int /\ Gone(p, s)' = Gone(p, s) + n
    <3>1. Gone(p, s) = sold[p][s] - n - 0
      BY <1>3, <2>2 DEF Gone
    <3>2. Gone(p, s)' = sold[p][s]
      BY <1>1, <2>6 DEF Gone
    <3> HIDE DEF n
    <3> QED BY <2>1, <3>1, <3>2
  <2>13. job'[p].bank[s].closed = OwnBank(p, s)' /\ job'[p].bank[s].closed <= job'[p].size[s]
    BY <1>3, <2>2, <2>3, <2>4, <2>5
  <2>14. UNCHANGED <<row, credit, winner>> /\ n <= AggSize(p, s)
    BY <1>1, <2>3
  <2> HIDE DEF n
  <2> QED BY <1>1, <1>3, <2>1, <2>6, <2>11, <2>12, <2>13, <2>14, StartPaying
<1> QED BY <1>4, <1>5

LEMMA SettleOneAccounts ==
    ASSUME IInv, Typed, Unpaid, NEW p \in Modes, JobReads(p), NEW s \in Sides, Accounts(p, s),
           SettleOne(p)
    PROVE  Accounts(p, s)'
<1>1. /\ pc[p] = "settling" /\ pc'[p] \in {"settling", "settled"}
      /\ UNCHANGED <<bank, winner, sold, owner>>
  BY DEF SettleOne, Goto, hist, Typed, TypeOK
<1>2. PICK b \in job[p].todo :
        /\ row' = [row EXCEPT ![b] = "settled"]
        /\ credit' = [credit EXCEPT ![b] = @ + SettledCredit(b, job[p])]
        /\ job' = [job EXCEPT ![p].todo = @ \ {b}]
  BY DEF SettleOne
<1>3. b \in Bets /\ b \in OpenBets(p, BetSide[b]) /\ row[b] = "open"
  BY <1>1 DEF IInv, JobFits, AllOpen, OpenBets, InBook
<1>4. job'[p] = [job[p] EXCEPT !.todo = @ \ {b}]
  BY <1>2 DEF Typed
<1>5. /\ job'[p].bank = job[p].bank /\ job'[p].size = job[p].size
      /\ job'[p].sides = job[p].sides
  BY <1>4, JobParts DEF Jobs
<1>6. row'[b] = "settled" /\ credit[b] = 0 /\ credit'[b] = credit[b] + SettledCredit(b, job[p])
      /\ \A a \in Bets \ {b} : row'[a] = row[a] /\ credit'[a] = credit[a]
  BY <1>2, <1>3 DEF Typed, TypeOK, Unpaid, Final
<1>7. OwnBank(p, s)' = OwnBank(p, s) /\ Unbanked(p, s)' = Unbanked(p, s)
  BY <1>1 DEF OwnBank, Unbanked
<1>8. \A a : Due(p, a)' = Due(p, a)
  BY <1>1, <1>5 DEF Due, SettledCredit
<1>9. Paying(p, s)' <=> Paying(p, s)
  BY <1>1, <1>5 DEF Paying
<1>10. CASE s = BetSide[b]
  <2>1. Paying(p, s)
    BY <1>1, <1>2, <1>10 DEF JobReads, Paying
  <2>2. \A a \in OpenBets(p, s) : Due(p, a) \in Nat /\ Due(p, a)' = Due(p, a)
    BY <1>1, <1>8, DuesNat
  <2>3. b \in OpenBets(p, s) /\ row'[b] \in Final
    BY <1>3, <1>6, <1>10 DEF Final
  <2>4. credit'[b] = Due(p, b)
    BY <1>1, <1>6, <2>2, <2>3 DEF Due
  <2> QED BY <1>1, <1>5, <1>6, <1>7, <1>9, <2>1, <2>2, <2>3, <2>4, PayOne
<1>11. CASE s # BetSide[b]
  <2>1. \A a \in InBook(p, s) : row'[a] = row[a] /\ credit'[a] = credit[a]
    BY <1>3, <1>6, <1>11 DEF InBook
  <2>2. \A a \in Ended(p, s) : credit'[a] = credit[a]
    BY <2>1 DEF Ended
  <2>3. SameBook(p, s)
    BY <1>1, <1>5, <1>7, <1>8, <1>9, <2>1, <2>2 DEF SameBook
  <2> QED BY <2>3, CarryAccounts
<1> QED BY <1>10, <1>11

LEMMA NoneOpen ==
    ASSUME NEW p, NEW s \in Sides, AllOpen(p) = {}
    PROVE  OpenBets(p, s) = {}
BY DEF AllOpen

LEMMA SettleEndAccounts ==
    ASSUME IInv, Typed, NEW p \in Modes, NEW s \in Sides, Accounts(p, s), SettleEnd(p)
    PROVE  Accounts(p, s)'
<1>1. /\ pc[p] = "settled" /\ pc'[p] \in BetweenJobs
      /\ UNCHANGED <<row, credit, winner, sold, owner>>
      /\ bank' = [d \in Sides |-> IF d \in BanksToClear(p) THEN EmptyBank ELSE bank[d]]
  BY DEF SettleEnd, Goto, BetweenJobs, Typed, TypeOK
<1>2. OpenBets(p, s) = {}
  BY <1>1, NoneOpen DEF IInv, JobFits
<1>3. ~ Paying(p, s)' /\ Unbanked(p, s)' = 0 /\ Unbanked(p, s) = 0
  BY <1>1, BetweenQuiet DEF Unbanked
<1>4. CASE s \in job[p].sides
  <2>1. Paying(p, s) /\ job[p].bank[s].closed = OwnBank(p, s)
    BY <1>1, <1>4 DEF Paying, Accounts
  <2>2. job[p].bank[s].closed \in Nat
    BY BankParts
  <2>3. OwnBank(p, s)' = 0
    <3>1. CASE s \in BanksToClear(p)
      BY <1>1, <3>1 DEF OwnBank, EmptyBank
    <3>2. CASE s \notin BanksToClear(p)
      <4>1. OwnBank(p, s) = 0
        BY <1>4, <2>1, <2>2, <3>2 DEF BanksToClear
      <4> QED BY <1>1, <3>2, <4>1 DEF OwnBank
    <3> QED BY <3>1, <3>2
  <2> QED BY <1>1, <1>2, <1>3, <2>1, <2>3, StopPaid
<1>5. CASE s \notin job[p].sides
  <2>1. ~ Paying(p, s) /\ bank'[s] = bank[s]
    BY <1>1, <1>5 DEF Paying, BanksToClear
  <2> QED BY <1>1, <1>3, <2>1, QuietAccounts
<1> QED BY <1>4, <1>5

\* A crash before the first bet is settled leaves the bank to the next try; one
\* between two bets does so only if nothing was banked.
LEMMA CrashSettling ==
    ASSUME IInv, Typed, Prices, NEW p \in Modes, JobReads(p), NEW s \in Sides, Accounts(p, s),
           Crash(p), pc[p] = "settling", s \in job[p].sides, flaw'[p][s] = {}
    PROVE  Accounts(p, s)'
<1> DEFINE T == AggSize(p, s)
           S == OpenBets(p, s)
           n == job[p].bank[s].closed
<1>1. /\ pc'[p] \in BetweenJobs /\ UNCHANGED <<row, credit, winner, sold, bank, owner>>
  BY DEF Crash, Goto, files, BetweenJobs, Typed, TypeOK
<1>2. ~ Paying(p, s)' /\ Unbanked(p, s)' = 0 /\ Paying(p, s) /\ winner # "none"
  BY <1>1, BetweenQuiet DEF Paying, JobReads
<1>3. s \notin Torn(p)
  BY MarkClean DEF Crash, IInv
<1>4. job[p].bank[s] = EmptyBank \/ ~ (T < job[p].size[s])
  BY <1>3 DEF Torn
<1>5. /\ n \in Nat /\ T \in Nat /\ job[p].size[s] \in Nat
      /\ T <= job[p].size[s] /\ n <= job[p].size[s] /\ OwnBank(p, s)' = n
      /\ job[p].bank[s].proceeds = n * SellPrice
  BY <1>1, BankParts, AggSizes DEF JobReads, Accounts, Prices, AtPrice, OwnBank
<1>6. Owed(p, s) = Total(Dues(p), S) /\ \A b \in S : Dues(p)[b] = SettledCredit(b, job[p])
  BY <1>2 DEF Owed, Dues, Due, OpenBets, InBook
<1>7. S \in SUBSET InBook(p, s) /\ Total(Size, S) = T
  BY BooksFinite DEF AggSize
<1>8. S = {} => T = 0
  BY SumEmpty DEF AggSize, Total
<1>9. SellPrice \in Nat /\ Payout \in Nat
  BY SettlementAssumption
<1>10. CASE S # {} /\ ~ (T < job[p].size[s])
  <2>1. job[p].size[s] = Total(Size, S) /\ n \in 0 .. Total(Size, S) /\ n <= T
    <3> HIDE DEF S, T, n
    <3> QED BY <1>5, <1>7, <1>10
  <2>2. Owed(p, s) = n * SellPrice + (IF s = winner THEN (Total(Size, S) - n) * Payout ELSE 0)
    <3>1. job[p].bank[s].closed = n
      OBVIOUS
    <3> HIDE DEF S, T, n
    <3> QED BY <1>5, <1>6, <1>7, <1>10, <2>1, <3>1, SettledShares
  <2>3. Owed(p, s) = n * SellPrice + (IF s = winner THEN (AggSize(p, s) - n) * Payout ELSE 0)
    BY <1>7, <2>2
  <2> HIDE DEF n
  <2> QED BY <1>1, <1>2, <1>5, <2>1, <2>3, StopPaying
<1>11. CASE S = {}
  <2>1. Owed(p, s) = 0 /\ AggSize(p, s) = 0
    BY <1>6, <1>8, <1>11, SumEmpty DEF Total
  <2>2. n = 0
    <3>1. CASE job[p].bank[s] = EmptyBank
      BY <3>1 DEF EmptyBank
    <3>2. CASE ~ (T < job[p].size[s])
      <4>1. job[p].size[s] = 0
        <5> HIDE DEF n
        <5> QED BY <1>5, <2>1, <3>2
      <4> HIDE DEF n, T
      <4> QED BY <1>5, <4>1
    <3> QED BY <1>4, <3>1, <3>2
  <2> QED BY <1>1, <1>2, <1>5, <1>11, <2>2, StopPaid
<1>12. CASE S # {} /\ job[p].bank[s] = EmptyBank
  <2>1. n = 0 /\ job[p].bank[s].proceeds = 0
    BY <1>12 DEF EmptyBank
  <2>2. job[p].size[s] \in Nat \ {0}
    <3>1. PICK b \in S : TRUE
      BY <1>12
    <3>2. T \in Nat \ {0}
      BY <3>1, BooksFinite, SizeTerm DEF AggSize
    <3> HIDE DEF T, S, n
    <3> QED BY <1>5, <3>2
  <2>3. Owed(p, s) = IF s = winner THEN Total(Size, S) * Payout ELSE 0
    <3> HIDE DEF S
    <3> QED BY <1>6, <1>7, <2>1, <2>2, UnbankedShares
  <2>4. 0 * SellPrice = 0 /\ (T - 0) * Payout = T * Payout /\ T * Payout \in Nat
    <3> HIDE DEF T
    <3> QED BY <1>5, <1>9, ProductNat
  <2>5. Owed(p, s) = 0 * SellPrice + (IF s = winner THEN (AggSize(p, s) - 0) * Payout ELSE 0)
    BY <1>7, <2>3, <2>4
  <2>6. OwnBank(p, s)' = 0 /\ 0 <= AggSize(p, s)
    BY <1>5, <2>1
  <2> QED BY <1>1, <1>2, <2>5, <2>6, StopPaying
<1> QED BY <1>4, <1>10, <1>11, <1>12

LEMMA CrashAccounts ==
    ASSUME IInv, Typed, Prices, NEW p \in Modes, JobReads(p), NEW s \in Sides, Accounts(p, s),
           Crash(p), flaw'[p][s] = {}
    PROVE  Accounts(p, s)'
<1>1. /\ pc'[p] \in BetweenJobs /\ UNCHANGED <<row, credit, winner, sold, bank, owner>>
  BY DEF Crash, Goto, files, BetweenJobs, Typed, TypeOK
<1>2. ~ Paying(p, s)' /\ Unbanked(p, s)' = 0 /\ OwnBank(p, s)' = OwnBank(p, s)
  BY <1>1, BetweenQuiet DEF OwnBank
<1>3. s \notin Torn(p)
  BY MarkClean DEF Crash, IInv
<1>4. CASE ~ Paying(p, s)
  <2>1. Unbanked(p, s) = 0
    BY <1>3 DEF Torn, Unbanked
  <2> QED BY <1>1, <1>2, <1>4, <2>1, QuietAccounts
<1>5. CASE pc[p] = "closing" /\ job[p].side = s
  <2>1. job[p].todo = {} /\ bank[s] = EmptyBank
    BY <1>3, <1>5 DEF Torn
  <2>2. OpenBets(p, s) = {} /\ OwnBank(p, s)' = 0 /\ Paying(p, s)
    BY <1>2, <1>5, <2>1 DEF IInv, JobFits, OwnBank, EmptyBank, Paying
  <2> QED BY <1>1, <1>2, <2>2, StopPaid
<1>6. CASE pc[p] = "settled" /\ s \in job[p].sides
  <2>1. s \notin BanksToClear(p)
    BY <1>3, <1>6 DEF Torn
  <2>2. job[p].bank[s].closed = 0
    BY <1>6, <2>1, BankParts DEF BanksToClear
  <2>3. OwnBank(p, s)' = 0 /\ Paying(p, s)
    BY <1>2, <1>6, <2>2 DEF Accounts, Paying
  <2>4. OpenBets(p, s) = {}
    BY <1>6, NoneOpen DEF IInv, JobFits
  <2> QED BY <1>1, <1>2, <2>3, <2>4, StopPaid
<1>7. CASE pc[p] = "settling" /\ s \in job[p].sides
  BY <1>7, CrashSettling
<1> QED BY <1>4, <1>5, <1>6, <1>7 DEF Paying

-----------------------------------------------------------------------------
(* A step of the venue. *)

LEMMA FillAccounts ==
    ASSUME IInv, Typed, NEW p \in Modes, NEW s \in Sides, Accounts(p, s), NEW b \in Bets, Fill(b)
    PROVE  Accounts(p, s)'
<1>1. /\ row' = [row EXCEPT ![b] = "unbooked"] /\ row[b] = "unfilled"
      /\ UNCHANGED <<credit, bank, winner, pc, job, sold, owner>>
  BY DEF Fill, hist
<1>2. \A a \in InBook(p, s) : /\ row'[a] \in Final <=> row[a] \in Final
                              /\ row'[a] = "open" <=> row[a] = "open"
  BY <1>1 DEF InBook, Final, Typed, TypeOK
<1>3. /\ OwnBank(p, s)' = OwnBank(p, s) /\ Unbanked(p, s)' = Unbanked(p, s)
      /\ Paying(p, s)' <=> Paying(p, s)
      /\ \A a : Due(p, a)' = Due(p, a)
  BY <1>1 DEF OwnBank, Unbanked, Paying, Due, ClosedCredit, SettledCredit
<1>4. SameBook(p, s)
  BY <1>1, <1>2, <1>3 DEF SameBook
<1> QED BY <1>4, CarryAccounts

\* When the market resolves every contract counted so far has been sold.
LEMMA ResolveAccounts ==
    ASSUME IInv, Typed, NEW p \in Modes, JobReads(p), NEW s \in Sides, Accounts(p, s), Resolve
    PROVE  Accounts(p, s)'
<1>1. /\ winner = "none" /\ UNCHANGED <<row, credit, bank, pc, job, sold, owner>>
  BY DEF Resolve, files, hist
<1>2. pc[p] \notin {"settling", "settled"}
  BY <1>1 DEF JobReads
<1>3. /\ OwnBank(p, s)' = OwnBank(p, s) /\ Unbanked(p, s)' = Unbanked(p, s)
      /\ Paying(p, s)' = Paying(p, s) /\ OpenBets(p, s)' = OpenBets(p, s)
      /\ Ended(p, s)' = Ended(p, s)
  BY <1>1 DEF OwnBank, Unbanked, Paying, OpenBets, InBook, Ended
<1>4. Counted(p, s)' = Counted(p, s) /\ Gone(p, s)' = Gone(p, s) /\ AggSize(p, s)' = AggSize(p, s)
  BY <1>1, <1>3 DEF Counted, Gone, AggSize, Total
<1>5. Owed(p, s)' = Owed(p, s)
  <2>1. CASE Paying(p, s)
    <3>1. \A b \in OpenBets(p, s) : Due(p, b)' = Due(p, b)
      BY <1>1, <1>2, <2>1 DEF Paying, Due, ClosedCredit
    <3>2. Total(Dues(p)', OpenBets(p, s)) = Total(Dues(p), OpenBets(p, s))
      BY <3>1, BooksFinite, DuesSame
    <3> QED BY <1>3, <2>1, <3>2 DEF Owed, Total
  <2>2. CASE ~ Paying(p, s)
    BY <1>3, <2>2 DEF Owed
  <2> QED BY <2>1, <2>2
<1>6. Total(Size, Counted(p, s)) = Gone(p, s)
  BY <1>1 DEF Accounts
<1>7. Won(p, s) = 0
  BY <1>1, SettlementAssumption DEF Won
<1>8. Won(p, s)' = 0
  <2>1. Counted(p, s) \in SUBSET Bets
    BY BooksFinite DEF Counted
  <2>2. Total(Size, Counted(p, s)) \in Nat /\ Payout \in Nat
    BY <2>1, SizeTotals, SettlementAssumption
  <2>3. (Total(Size, Counted(p, s)) - Gone(p, s)) * Payout = 0
    BY <1>6, <2>2
  <2>4. Total(Size, Counted(p, s)') - Gone(p, s)' = Total(Size, Counted(p, s)) - Gone(p, s)
    BY <1>4
  <2> QED BY <2>3, <2>4 DEF Won, Total
<1>9. Total(credit', Ended(p, s)') + Owed(p, s)' = Gone(p, s)' * SellPrice + Won(p, s)'
  BY <1>1, <1>3, <1>4, <1>5, <1>7, <1>8 DEF Accounts
<1>10. /\ ~ Paying(p, s)' => OwnBank(p, s)' + Unbanked(p, s)' <= AggSize(p, s)'
       /\ winner' = "none" => Total(Size, Counted(p, s)') = Gone(p, s)'
       /\ pc'[p] \notin {"settling", "settled"}
  BY <1>1, <1>2, <1>3, <1>4, <1>6 DEF Accounts
<1> QED BY <1>9, <1>10 DEF Accounts, Total

-----------------------------------------------------------------------------
(* What a job has read stays true while it works. *)

LEMMA ReadsIdle ==
    ASSUME NEW p, pc'[p] \notin {"settling", "settled", "closing"}
    PROVE  JobReads(p)'
BY DEF JobReads

LEMMA StakeLess ==
    ASSUME NEW S \in SUBSET Bets, NEW T \in SUBSET S
    PROVE  Total(Stake, T) <= Total(Stake, S) /\ Total(Size, T) <= Total(Size, S)
<1>1. \A b \in S : Stake[b] \in Nat /\ Size[b] \in Nat
  BY SettlementAssumption
<1> QED BY <1>1, BooksFinite, SumSubset DEF Total

LEMMA SettleReads ==
    ASSUME IInv, Typed, NEW p \in Modes, JobReads(p), Settle(p)
    PROVE  JobReads(p)'
<1>1. CASE Unresolved(p) \/ SettleEnd(p)
  <2>1. pc'[p] = "gate"
    BY <1>1 DEF Unresolved, SettleEnd, Goto, Typed, TypeOK
  <2> QED BY <2>1, ReadsIdle
<1>2. CASE SettleStart(p)
  <2> DEFINE D == {BetSide[b] : b \in AllOpen(p)}
             j == [NoJob EXCEPT !.todo = AllOpen(p), !.sides = D,
                      !.size = [d \in Sides |-> AggSize(p, d)], !.bank = bank]
  <2>1. /\ pc'[p] = "settling" /\ winner' # "none" /\ row' = row /\ job' = [job EXCEPT ![p] = j]
    BY <1>2 DEF SettleStart, Goto, Typed, TypeOK, files
  <2>2. /\ job'[p] = j /\ j.sides = D /\ j.todo = AllOpen(p)
        /\ j.size = [d \in Sides |-> AggSize(p, d)]
    BY <2>1 DEF Typed, NoJob
  <2>3. D \subseteq Sides /\ \A b \in AllOpen(p) : BetSide[b] \in D
    BY SettlementAssumption DEF AllOpen, OpenBets, InBook
  <2> HIDE DEF j, D
  <2>4. ASSUME NEW s \in job'[p].sides PROVE AggSize(p, s)' <= job'[p].size[s]
    <3>1. s \in Sides /\ AggSize(p, s)' = AggSize(p, s)
      BY <2>1, <2>2, <2>3 DEF AggSize, OpenBets, InBook, Total
    <3>2. AggSize(p, s) \in Nat
      BY AggSizes
    <3> QED BY <2>2, <3>1, <3>2
  <2> QED BY <2>1, <2>2, <2>3, <2>4 DEF JobReads
<1>3. CASE SettleOne(p)
  <2>1. pc[p] = "settling" /\ pc'[p] \in {"settling", "settled"} /\ winner' = winner
    BY <1>3 DEF SettleOne, Goto, Typed, TypeOK
  <2>2. PICK b \in job[p].todo : row' = [row EXCEPT ![b] = "settled"]
                                 /\ job' = [job EXCEPT ![p].todo = @ \ {b}]
    BY <1>3 DEF SettleOne
  <2>3. /\ job'[p].todo = job[p].todo \ {b} /\ job'[p].sides = job[p].sides
        /\ job'[p].size = job[p].size /\ job[p].sides \subseteq Sides
    BY <2>2, JobParts DEF Typed, Jobs
  <2>4. ASSUME NEW s \in job'[p].sides PROVE AggSize(p, s)' <= job'[p].size[s]
    <3>1. OpenBets(p, s)' \in SUBSET OpenBets(p, s) /\ OpenBets(p, s) \in SUBSET Bets
      BY <2>2 DEF OpenBets, InBook, Typed, TypeOK
    <3>2. AggSize(p, s)' <= AggSize(p, s)
      BY <3>1, StakeLess DEF AggSize, Total
    <3>3. AggSize(p, s) <= job[p].size[s] /\ s \in Sides
      BY <2>1, <2>3 DEF JobReads
    <3>4. OpenBets(p, s)' \in SUBSET Bets
      BY <3>1
    <3>5. AggSize(p, s)' \in Nat /\ AggSize(p, s) \in Nat /\ job[p].size[s] \in Nat
      BY <3>3, <3>4, AggSizes, SizeTotals, BankParts DEF AggSize, Total
    <3> QED BY <2>3, <3>2, <3>3, <3>5
  <2> QED BY <2>1, <2>3, <2>4 DEF JobReads
<1> QED BY <1>1, <1>2, <1>3 DEF Settle

LEMMA ClosingReads ==
    ASSUME IInv, Typed, NEW p \in Modes, JobReads(p), Closing(p)
    PROVE  JobReads(p)'
<1>1. CASE BankPartial(p) \/ CloseEnd(p)
  <2>1. pc'[p] = "manage"
    BY <1>1 DEF BankPartial, CloseEnd, Goto, Typed, TypeOK
  <2> QED BY <2>1, ReadsIdle
<1>2. CASE CloseStart(p)
  <2>1. pc[p] = "sold" /\ pc'[p] = "closing" /\ job[p].side \in Sides
        /\ job[p].todo = OpenBets(p, job[p].side)
    BY <1>2 DEF CloseStart, Goto, Typed, TypeOK, IInv, JobFits
  <2>2. PICK d \in Sides : d = job[p].side
    BY <2>1
  <2> DEFINE a == AfterSale(p, d)
             n == Total(Stake, OpenBets(p, d))
             c == job[p].sides \ {d}
  <2>3. /\ job'[p].todo = job[p].todo /\ job'[p].side = d
        /\ job'[p].size = [job[p].size EXCEPT ![d] = n]
    <3>1. job' = [job EXCEPT ![p] = [job[p] EXCEPT !.bank[d] = a, !.size[d] = n, !.sides = c]]
      BY <1>2, <2>2 DEF CloseStart
    <3> HIDE DEF a, n, c
    <3> QED BY <2>2, <3>1, JobParts DEF Typed, Jobs
  <2>4. job'[p].size[d] = n /\ n \in Nat
    BY <2>3, JobParts, BooksFinite, SizeTotals
  <2>5. Total(Stake, job'[p].todo) <= job'[p].size[job'[p].side]
    BY <2>1, <2>2, <2>3, <2>4
  <2> QED BY <2>1, <2>5 DEF JobReads, Total
<1>3. CASE CloseOne(p)
  <2>1. pc[p] = "closing" /\ pc'[p] = "closing"
    BY <1>3 DEF CloseOne
  <2>2. PICK b \in job[p].todo : job' = [job EXCEPT ![p].todo = @ \ {b}]
    BY <1>3 DEF CloseOne
  <2>3. /\ job'[p].todo = job[p].todo \ {b} /\ job'[p].side = job[p].side
        /\ job'[p].size = job[p].size /\ job[p].todo \in SUBSET Bets
    BY <2>2, JobParts DEF Typed, Jobs
  <2>4. Total(Stake, job'[p].todo) <= Total(Stake, job[p].todo)
    BY <2>3, StakeLess
  <2>5. Total(Stake, job'[p].todo) \in Nat /\ Total(Stake, job[p].todo) \in Nat
        /\ job[p].side \in Sides /\ job[p].size[job[p].side] \in Nat
    BY <2>1, <2>3, SizeTotals, JobParts DEF IInv, JobFits
  <2>6. Total(Stake, job[p].todo) <= job[p].size[job[p].side]
    BY <2>1 DEF JobReads
  <2>7. Total(Stake, job'[p].todo) <= job'[p].size[job'[p].side]
    BY <2>3, <2>4, <2>5, <2>6
  <2> QED BY <2>1, <2>7 DEF JobReads, Total
<1> QED BY <1>1, <1>2, <1>3 DEF Closing

LEMMA ActorReads ==
    ASSUME IInv, Typed, NEW p \in Modes, JobReads(p), Cycle(p) \/ Crash(p)
    PROVE  JobReads(p)'
<1>1. CASE Settle(p)
  BY <1>1, SettleReads
<1>2. CASE Closing(p)
  BY <1>2, ClosingReads
<1>3. CASE Reconcile(p) \/ GateBlocks(p) \/ GatePasses(p) \/ EndCycle(p) \/ Crash(p)
  <2>1. pc'[p] \in BetweenJobs
    BY <1>3 DEF Reconcile, GateBlocks, GatePasses, EndCycle, Crash, Goto, BetweenJobs, Typed, TypeOK
  <2> QED BY <2>1, ReadsIdle DEF BetweenJobs
<1>4. CASE Manage(p)
  <2>1. pc'[p] = "manage" \/ pc'[p] = "sold"
    BY <1>4 DEF Manage, Hold, SkipThin, Sell, SellUnheard, AtVenue, Goto, Typed, TypeOK
  <2> QED BY <2>1, ReadsIdle
<1> QED BY <1>1, <1>2, <1>3, <1>4 DEF Cycle

-----------------------------------------------------------------------------
(* Prices, unpaid bets and the position at the venue. *)

LEMMA EmptyAtPrice == AtPrice(EmptyBank) /\ \A s \in Sides : AtPrice(NoJob.bank[s])
<1>1. SellPrice \in Nat
  BY SettlementAssumption
<1> QED BY <1>1 DEF AtPrice, EmptyBank, NoJob

LEMMA AfterSaleAtPrice ==
    ASSUME IInv, Typed, Prices, NEW p \in Modes, pc[p] = "sold"
    PROVE  AtPrice(AfterSale(p, job[p].side))
<1>1. job[p].side \in Sides /\ job[p].sale \in Nat
  BY DEF IInv, JobFits
<1>2. bank[job[p].side] \in Banks /\ AtPrice(bank[job[p].side])
  BY <1>1, BankParts DEF Prices
<1> QED BY <1>1, <1>2, AtPriceSum DEF AfterSale, AtPrice

\* The banks of a job that p is given, when those of the file stay.
LEMMA PricesJob ==
    ASSUME Typed, Prices, NEW p \in Modes, \A s \in Sides : AtPrice(bank'[s]),
           \A q \in Modes \ {p} : job'[q] = job[q],
           \A s \in Sides : AtPrice(job'[p].bank[s])
    PROVE  Prices'
<1>1. ASSUME NEW q \in Modes, NEW s \in Sides PROVE AtPrice(job'[q].bank[s])
  BY DEF Prices
<1> QED BY <1>1 DEF Prices, AtPrice

LEMMA ActorPrices ==
    ASSUME IInv, Typed, Prices, NEW p \in Modes, Cycle(p) \/ Crash(p)
    PROVE  Prices'
<1>0. \A q \in Modes \ {p} : job'[q] = job[q]
  BY OthersAlone DEF AloneMoney, LeftAlone
<1>1. \A s \in Sides : AtPrice(bank[s]) /\ AtPrice(job[p].bank[s])
  BY DEF Prices
<1>2. bank \in [Sides -> Banks] /\ job \in [Modes -> Jobs] /\ IsJob(job[p])
  BY DEF IInv, Shapes, Typed
<1>3. CASE job' = job /\ bank' = bank
  BY <1>0, <1>1, <1>3, PricesJob
<1>4. CASE Unresolved(p) \/ Reconcile(p) \/ GateBlocks(p) \/ EndCycle(p)
  BY <1>3, <1>4 DEF Unresolved, Reconcile, GateBlocks, EndCycle, files
<1>5. CASE GatePasses(p) \/ Crash(p)
  <2>1. bank' = bank /\ job'[p].bank = NoJob.bank
    BY <1>2, <1>5 DEF GatePasses, Crash, files, NoJob
  <2> QED BY <1>0, <1>1, <2>1, EmptyAtPrice, PricesJob
<1>6. CASE SettleStart(p)
  <2> DEFINE D == {BetSide[b] : b \in AllOpen(p)}
             z == [s \in Sides |-> AggSize(p, s)]
             j == [NoJob EXCEPT !.todo = AllOpen(p), !.sides = D, !.size = z, !.bank = bank]
  <2>1. bank' = bank /\ job' = [job EXCEPT ![p] = j]
    BY <1>6 DEF SettleStart, files
  <2>2. j.bank = bank
    BY DEF NoJob
  <2> HIDE DEF j
  <2>3. job'[p].bank = bank
    BY <1>2, <2>1, <2>2
  <2> QED BY <1>0, <1>1, <2>1, <2>3, PricesJob
<1>7. CASE SettleOne(p) \/ CloseOne(p)
  <2>1. PICK b : job' = [job EXCEPT ![p].todo = @ \ {b}]
    BY <1>7 DEF SettleOne, CloseOne
  <2>2. job'[p].bank = job[p].bank /\ bank' = bank
    BY <1>2, <1>7, <2>1 DEF Jobs, SettleOne, CloseOne
  <2> QED BY <1>0, <1>1, <2>2, PricesJob
<1>8. CASE SettleEnd(p)
  <2>1. \A s \in Sides : bank'[s] = EmptyBank \/ bank'[s] = bank[s]
    BY <1>8 DEF SettleEnd
  <2>2. job'[p].bank = NoJob.bank
    BY <1>2, <1>8 DEF SettleEnd
  <2>3. \A s \in Sides : AtPrice(bank'[s])
    BY <1>1, <2>1, EmptyAtPrice
  <2> QED BY <1>0, <2>2, <2>3, EmptyAtPrice, PricesJob
<1>9. CASE CloseEnd(p) \/ BankPartial(p)
  <2>1. \A s \in Sides : bank'[s] = EmptyBank \/ bank'[s] = bank[s]
                         \/ (pc[p] = "sold" /\ bank'[s] = AfterSale(p, job[p].side))
    BY <1>2, <1>9 DEF CloseEnd, BankPartial
  <2>2. job'[p].bank = NoJob.bank
    BY <1>2, <1>9 DEF CloseEnd, BankPartial, NoJob
  <2>3. \A s \in Sides : AtPrice(bank'[s])
    BY <1>1, <2>1, EmptyAtPrice, AfterSaleAtPrice
  <2> QED BY <1>0, <2>2, <2>3, EmptyAtPrice, PricesJob
<1>10. CASE CloseStart(p)
  <2>1. PICK d \in Sides : d = job[p].side /\ pc[p] = "sold"
    BY <1>10 DEF CloseStart, IInv, JobFits
  <2> DEFINE a == AfterSale(p, d)
             n == Total(Stake, OpenBets(p, d))
             c == job[p].sides \ {d}
  <2>2. job'[p].bank = [job[p].bank EXCEPT ![d] = a] /\ bank' = bank
    <3>1. job' = [job EXCEPT ![p] = [job[p] EXCEPT !.bank[d] = a, !.size[d] = n, !.sides = c]]
      BY <1>10, <2>1 DEF CloseStart
    <3>2. bank' = bank
      BY <1>10 DEF CloseStart, files
    <3> HIDE DEF a, n, c
    <3> QED BY <3>1, <3>2, JobParts DEF Typed, Jobs
  <2>3. AtPrice(a)
    BY <2>1, AfterSaleAtPrice
  <2> HIDE DEF a
  <2>4. \A s \in Sides : AtPrice(job'[p].bank[s])
    BY <1>1, <2>2, <2>3, JobParts
  <2> QED BY <1>0, <1>1, <2>2, <2>4, PricesJob
<1>11. CASE Manage(p)
  <2>1. bank' = bank
    BY <1>11 DEF Manage, Hold, SkipThin, Sell, SellUnheard, AtVenue, files
  <2>2. job'[p].bank = job[p].bank
    <3>1. PICK s \in Sides : Looked(p, s) \/ \E f \in 1 .. MaxDepth : Sell(p, s, f)
      BY <1>11 DEF Manage, Hold, SkipThin, SellUnheard
    <3> QED BY <1>2, <3>1 DEF Looked, Sell, Jobs
  <2> QED BY <1>0, <1>1, <2>1, <2>2, PricesJob
<1> QED BY <1>4, <1>5, <1>6, <1>7, <1>8, <1>9, <1>10, <1>11 DEF Cycle, Settle, Closing

LEMMA UnpaidKeeps ==
    ASSUME IInv, Typed, Unpaid, [Next]_vars
    PROVE  Unpaid'
<1>0. row \in [Bets -> RowStates] /\ credit \in [Bets -> Nat]
  BY DEF IInv, Shapes, Typed, TypeOK
<1>1. ASSUME credit' = credit, \A b \in Bets : row'[b] = row[b] \/ row[b] \notin Final
      PROVE  Unpaid'
  BY <1>1 DEF Unpaid
<1>2. ASSUME NEW b, NEW final \in Final, row' = [row EXCEPT ![b] = final],
             \A a \in Bets : a # b => credit'[a] = credit[a]
      PROVE  Unpaid'
  BY <1>0, <1>2 DEF Unpaid
<1>3. ASSUME NEW p \in Modes, SettleOne(p) PROVE Unpaid'
  <2>1. PICK b : row' = [row EXCEPT ![b] = "settled"]
                 /\ credit' = [credit EXCEPT ![b] = @ + SettledCredit(b, job[p])]
    BY <1>3 DEF SettleOne
  <2>2. \A a \in Bets : a # b => credit'[a] = credit[a]
    BY <1>0, <2>1
  <2> QED BY <1>2, <2>1, <2>2 DEF Final
<1>4. ASSUME NEW p \in Modes, CloseOne(p) PROVE Unpaid'
  <2>1. PICK b : row' = [row EXCEPT ![b] = "closed"]
                 /\ credit' = [credit EXCEPT ![b] = @ + ClosedCredit(b, job[p])]
    BY <1>4 DEF CloseOne
  <2>2. \A a \in Bets : a # b => credit'[a] = credit[a]
    BY <1>0, <2>1
  <2> QED BY <1>2, <2>1, <2>2 DEF Final
<1>5. ASSUME NEW p \in Modes, Reconcile(p) PROVE Unpaid'
  <2>1. credit' = credit /\ \A b \in Bets : row'[b] = row[b] \/ row[b] \notin Final
    BY <1>5 DEF Reconcile, Final
  <2> QED BY <1>1, <2>1
<1>6. ASSUME NEW b \in Bets, Fill(b) PROVE Unpaid'
  <2>1. credit' = credit /\ \A a \in Bets : row'[a] = row[a] \/ row[a] \notin Final
    BY <1>0, <1>6 DEF Fill, Final
  <2> QED BY <1>1, <2>1
<1>7. ASSUME UNCHANGED <<row, credit>> PROVE Unpaid'
  BY <1>7 DEF Unpaid
<1>8. ASSUME NEW p \in Modes, Settle(p) \/ Closing(p) PROVE Unpaid'
  BY <1>3, <1>4, <1>7, <1>8 DEF Settle, Closing, Unresolved, SettleStart, SettleEnd,
     BankPartial, CloseStart, CloseEnd, files
<1>9. ASSUME NEW p \in Modes, Manage(p) PROVE Unpaid'
  BY <1>7, <1>9 DEF Manage, Hold, SkipThin, Sell, SellUnheard, AtVenue, files
<1>10. ASSUME NEW p \in Modes, GateBlocks(p) \/ GatePasses(p) \/ EndCycle(p) \/ Crash(p)
       PROVE  Unpaid'
  BY <1>7, <1>10 DEF GateBlocks, GatePasses, EndCycle, Crash, files
<1>11. CASE Resolve
  BY <1>7, <1>11 DEF Resolve, files
<1>12. CASE UNCHANGED vars
  BY <1>7, <1>12 DEF vars, files
<1> QED BY <1>5, <1>6, <1>8, <1>9, <1>10, <1>11, <1>12 DEF Next, Cycle

\* A bet fills once.
LEMMA FilledStays ==
    ASSUME IInv, NEW p \in Modes, Cycle(p) \/ Crash(p)
    PROVE  \A b \in Bets : row'[b] = "unfilled" <=> row[b] = "unfilled"
<1>0. row \in [Bets -> RowStates]
  BY DEF IInv, Shapes
<1>1. ASSUME NEW b \in job[p].todo, NEW final \in Final, pc[p] \in {"settling", "closing"},
             row' = [row EXCEPT ![b] = final]
      PROVE  \A a \in Bets : row'[a] = "unfilled" <=> row[a] = "unfilled"
  <2>1. b \in Bets /\ row[b] = "open"
    BY <1>1 DEF IInv, JobFits, AllOpen, OpenBets, InBook
  <2> QED BY <1>0, <1>1, <2>1 DEF Final
<1>2. CASE SettleOne(p)
  BY <1>1, <1>2 DEF SettleOne, Final
<1>3. CASE CloseOne(p)
  BY <1>1, <1>3 DEF CloseOne, Final
<1>4. CASE Reconcile(p)
  BY <1>4 DEF Reconcile
<1>5. CASE UNCHANGED row
  BY <1>5
<1>6. CASE Settle(p) \/ Closing(p)
  BY <1>2, <1>3, <1>5, <1>6 DEF Settle, Closing, Unresolved, SettleStart, SettleEnd,
     BankPartial, CloseStart, CloseEnd, files
<1>7. CASE Manage(p)
  BY <1>5, <1>7 DEF Manage, Hold, SkipThin, Sell, SellUnheard, AtVenue, files
<1>8. CASE GateBlocks(p) \/ GatePasses(p) \/ EndCycle(p) \/ Crash(p)
  BY <1>5, <1>8 DEF GateBlocks, GatePasses, EndCycle, Crash, files
<1> QED BY <1>4, <1>6, <1>7, <1>8 DEF Cycle

\* Until the market resolves, what the live process held and sold is what filled.
LEMMA ActorHeld ==
    ASSUME IInv, Typed, LiveHeld, NEW p \in Modes, JobReads(p), Cycle(p) \/ Crash(p)
    PROVE  LiveHeld'
<1> SUFFICES ASSUME winner' = "none", NEW s \in Sides
             PROVE  held'[Live][s] + sold'[Live][s] = Total(Size, Filled(Live, s)')
  BY DEF LiveHeld, Total
<1>0. held \in Counters /\ sold \in Counters /\ Live \in Modes
  BY SettlementAssumption DEF Typed, TypeOK
<1>1. winner = "none"
  BY WinnerMoves DEF Next, Resolve
<1>2. held[Live][s] + sold[Live][s] = Total(Size, Filled(Live, s))
  BY <1>1 DEF LiveHeld
<1>3. Filled(Live, s)' = Filled(Live, s)
  BY FilledStays DEF Filled, InBook
<1>4. ASSUME held'[Live] = held[Live], sold'[Live] = sold[Live]
      PROVE  held'[Live][s] + sold'[Live][s] = Total(Size, Filled(Live, s)')
  BY <1>2, <1>3, <1>4
<1>5. ASSUME NEW d \in Sides, NEW f \in 1 .. MaxDepth, AtVenue(p, d, f)
      PROVE  held'[Live][s] + sold'[Live][s] = Total(Size, Filled(Live, s)')
  <2>1. /\ held' = [held EXCEPT ![p][d] = @ - f] /\ sold' = [sold EXCEPT ![p][d] = @ + f]
        /\ f \in Nat
    BY <1>5, SaleWithin DEF AtVenue
  <2>2. CASE p = Live /\ d = s
    <3>1. held'[Live][s] = held[Live][s] - f /\ sold'[Live][s] = sold[Live][s] + f
          /\ held[Live][s] \in Nat /\ sold[Live][s] \in Nat
      BY <1>0, <2>1, <2>2 DEF Counters
    <3>2. held'[Live][s] + sold'[Live][s] = held[Live][s] + sold[Live][s]
      BY <2>1, <3>1
    <3> QED BY <1>2, <1>3, <3>2
  <2>3. CASE ~ (p = Live /\ d = s)
    <3>1. held'[Live][s] = held[Live][s] /\ sold'[Live][s] = sold[Live][s]
      BY <1>0, <2>1, <2>3 DEF Counters
    <3> QED BY <1>2, <1>3, <3>1
  <2> QED BY <2>2, <2>3
<1>6. CASE SettleEnd(p)
  <2>1. p # Live
    BY <1>1, <1>6 DEF SettleEnd, JobReads
  <2> QED BY <1>0, <1>4, <1>6, <2>1 DEF SettleEnd
<1>7. CASE Crash(p)
  BY <1>0, <1>4, <1>7 DEF Crash
<1>8. CASE UNCHANGED <<held, sold>>
  BY <1>4, <1>8
<1>9. CASE Settle(p) \/ Closing(p)
  BY <1>6, <1>8, <1>9 DEF Settle, Closing, Unresolved, SettleStart, SettleOne,
     BankPartial, CloseStart, CloseOne, CloseEnd, hist
<1>10. CASE Manage(p)
  BY <1>5, <1>8, <1>10 DEF Manage, Hold, SkipThin, Sell, SellUnheard, hist
<1>11. CASE Reconcile(p) \/ GateBlocks(p) \/ GatePasses(p) \/ EndCycle(p)
  BY <1>8, <1>11 DEF Reconcile, GateBlocks, GatePasses, EndCycle, hist
<1> QED BY <1>7, <1>9, <1>10, <1>11 DEF Cycle

LEMMA FillHeld ==
    ASSUME IInv, Typed, LiveHeld, NEW b \in Bets, Fill(b)
    PROVE  LiveHeld'
<1> SUFFICES ASSUME winner' = "none", NEW s \in Sides
             PROVE  held'[Live][s] + sold'[Live][s] = Total(Size, Filled(Live, s)')
  BY DEF LiveHeld, Total
<1>0. /\ held \in Counters /\ sold \in Counters /\ Live \in Modes
      /\ BetMode[b] \in Modes /\ BetSide[b] \in Sides /\ Size[b] \in Nat
  BY SettlementAssumption DEF Typed, TypeOK
<1>1. held[Live][s] + sold[Live][s] = Total(Size, Filled(Live, s))
  BY DEF Fill, LiveHeld
<1>2. /\ held' = [held EXCEPT ![BetMode[b]][BetSide[b]] = @ + Size[b]] /\ sold' = sold
      /\ row' = [row EXCEPT ![b] = "unbooked"] /\ row[b] = "unfilled" /\ row \in [Bets -> RowStates]
  BY DEF Fill, hist, IInv, Shapes
<1>3. CASE BetMode[b] = Live /\ BetSide[b] = s
  <2>1. Filled(Live, s)' = Filled(Live, s) \union {b} /\ b \notin Filled(Live, s)
    BY <1>2, <1>3 DEF Filled, InBook
  <2>2. \A a \in Filled(Live, s) \union {b} : Size[a] \in Int
    BY SettlementAssumption DEF Filled, InBook
  <2>3. Total(Size, Filled(Live, s)') = Size[b] + Total(Size, Filled(Live, s))
    <3>1. IsFiniteSet(Filled(Live, s))
      BY BooksFinite
    <3> QED BY <2>1, <2>2, <3>1, SumAdd DEF Total
  <2>4. /\ held'[Live][s] = held[Live][s] + Size[b] /\ sold'[Live][s] = sold[Live][s]
        /\ held[Live][s] \in Nat /\ sold[Live][s] \in Nat
    BY <1>0, <1>2, <1>3 DEF Counters
  <2>5. Total(Size, Filled(Live, s)) \in Nat
    BY BooksFinite, SizeTotals
  <2> QED BY <1>0, <1>1, <2>3, <2>4, <2>5
<1>4. CASE ~ (BetMode[b] = Live /\ BetSide[b] = s)
  <2>1. Filled(Live, s)' = Filled(Live, s)
    BY <1>2, <1>4 DEF Filled, InBook
  <2>2. held'[Live][s] = held[Live][s] /\ sold'[Live][s] = sold[Live][s]
    BY <1>0, <1>2, <1>4 DEF Counters
  <2> QED BY <1>1, <2>1, <2>2
<1> QED BY <1>3, <1>4

-----------------------------------------------------------------------------
(* The money invariant is inductive. *)

LEMMA InitMoney == Init => MoneyInv
<1> SUFFICES ASSUME Init PROVE MoneyInv
  OBVIOUS
<1>1. Typed
  <2>1. job \in [Modes -> Jobs]
    BY NoJobTyped DEF Init
  <2>2. \A p \in Modes : /\ job[p].todo \subseteq Bets /\ job[p].sides \subseteq Sides
                         /\ job[p].side \in Sides \union {"none"} /\ job[p].sale \in 0 .. MaxDepth
    BY <2>1 DEF Jobs
  <2>3. bank \in [Sides -> [closed : Nat, proceeds : Nat]]
    BY DEF Init, EmptyBank
  <2> QED BY <2>1, <2>2, <2>3, SettlementAssumption DEF Init, Typed, TypeOK, Counters
<1>2. Prices
  BY EmptyAtPrice DEF Init, Prices
<1>3. \A p, s : Filled(p, s) = {} /\ Ended(p, s) = {} /\ OpenBets(p, s) = {}
  BY DEF Init, Filled, Ended, OpenBets, InBook, Final
<1>4. \A f : Total(f, {}) = 0
  BY SumEmpty DEF Total
<1>5. LiveHeld
  <2>1. ASSUME NEW s \in Sides PROVE held[Live][s] = 0 /\ sold[Live][s] = 0
    BY SettlementAssumption DEF Init
  <2>2. ASSUME NEW s \in Sides PROVE Total(Size, Filled(Live, s)) = 0
    BY <1>3, <1>4
  <2> QED BY <2>1, <2>2 DEF LiveHeld
<1>6. Unpaid /\ \A p \in Modes : JobReads(p)
  BY DEF Init, Unpaid, JobReads
<1>7. ASSUME NEW p \in Modes, NEW s \in Sides PROVE Accounts(p, s)
  <2>1. /\ ~ Paying(p, s) /\ Unbanked(p, s) = 0 /\ OwnBank(p, s) = 0 /\ sold[p][s] = 0
        /\ pc[p] = "reconcile" /\ s # winner
    BY SettlementAssumption DEF Init, Paying, Unbanked, OwnBank, EmptyBank
  <2>2. AggSize(p, s) = 0 /\ Counted(p, s) = {} /\ Gone(p, s) = 0 /\ Owed(p, s) = 0
        /\ Won(p, s) = 0 /\ Total(credit, Ended(p, s)) = 0
    BY <1>3, <1>4, <2>1 DEF AggSize, Counted, Gone, Owed, Won
  <2>3. 0 * SellPrice = 0
    BY SettlementAssumption
  <2> QED BY <1>4, <2>1, <2>2, <2>3 DEF Accounts
<1> QED BY <1>1, <1>2, <1>5, <1>6, <1>7 DEF MoneyInv

\* A step of p keeps the accounts of its own books.
LEMMA OwnAccounts ==
    ASSUME IInv, MoneyInv, NEW p \in Modes, Cycle(p) \/ Crash(p), NEW s \in Sides,
           Accounts(p, s), flaw'[p][s] = {}
    PROVE  Accounts(p, s)'
<1>1. Typed /\ Prices /\ Unpaid /\ JobReads(p)
  BY DEF MoneyInv
<1>2. CASE Reconcile(p) \/ Crash(p)
  BY <1>1, <1>2, ReconcileAccounts, CrashAccounts
<1>3. CASE Settle(p)
  BY <1>1, <1>3, PhaseAccounts, SettleStartAccounts, SettleOneAccounts, SettleEndAccounts
  DEF Settle
<1>4. CASE GateBlocks(p) \/ GatePasses(p) \/ EndCycle(p)
  BY <1>1, <1>4, PhaseAccounts
<1>5. CASE Closing(p)
  BY <1>1, <1>5, BankPartialAccounts, CloseStartAccounts, CloseOneAccounts, CloseEndAccounts
  DEF Closing
<1>6. CASE Manage(p)
  <2>1. PICK d \in Sides : Hold(p, d) \/ SkipThin(p, d)
          \/ \E f \in 1 .. MaxDepth : Sell(p, d, f) \/ SellUnheard(p, d, f)
    BY <1>6 DEF Manage
  <2>2. CASE Hold(p, d) \/ SkipThin(p, d)
    BY <1>1, <2>2, PhaseAccounts
  <2>3. ASSUME NEW f \in 1 .. MaxDepth, Sell(p, d, f) \/ SellUnheard(p, d, f)
        PROVE  Accounts(p, s)'
    BY <1>1, <2>3, SellAccounts, SellUnheardAccounts
  <2> QED BY <2>1, <2>2, <2>3
<1> QED BY <1>2, <1>3, <1>4, <1>5, <1>6 DEF Cycle

\* A step of one mode keeps the accounts of all.
LEMMA ModeMoney ==
    ASSUME IInv, MoneyInv, NEW p \in Modes, Cycle(p) \/ Crash(p)
    PROVE  MoneyInv'
<1>1. [Next]_vars /\ Typed /\ Prices /\ LiveHeld /\ Unpaid /\ Shapes
      /\ \A q \in Modes : JobReads(q)
  BY DEF Next, MoneyInv, IInv
<1>2. Typed' /\ Unpaid'
  BY <1>1, TypedKeeps, UnpaidKeeps
<1>3. Prices' /\ LiveHeld'
  BY <1>1, ActorPrices, ActorHeld
<1>4. ASSUME NEW q \in Modes PROVE JobReads(q)'
  <2>1. CASE q = p
    BY <1>1, <2>1, ActorReads
  <2>2. CASE q # p
    BY <1>1, <2>2, OthersAlone, AloneReads
  <2> QED BY <2>1, <2>2
<1>5. ASSUME NEW q \in Modes, NEW s \in Sides, flaw'[q][s] = {} PROVE Accounts(q, s)'
  <2>1. Accounts(q, s)
    BY <1>1, <1>5, FlawStays DEF MoneyInv
  <2>2. CASE q = p
    BY <1>5, <2>1, <2>2, OwnAccounts
  <2>3. CASE q # p
    <3>1. AloneMoney(q) /\ OwnBank(q, s)' = OwnBank(q, s)
      BY <1>1, <1>5, <2>3, OthersAlone, OthersBank
    <3> QED BY <2>1, <3>1, AloneAccounts
  <2> QED BY <2>2, <2>3
<1> QED BY <1>2, <1>3, <1>4, <1>5 DEF MoneyInv

LEMMA VenueMoney ==
    ASSUME IInv, MoneyInv, Resolve \/ \E b \in Bets : Fill(b)
    PROVE  MoneyInv'
<1>1. [Next]_vars /\ Typed /\ Prices /\ LiveHeld /\ Unpaid /\ Shapes
      /\ \A q \in Modes : JobReads(q)
  BY DEF Next, MoneyInv, IInv
<1>2. Typed' /\ Unpaid'
  BY <1>1, TypedKeeps, UnpaidKeeps
<1>3. /\ UNCHANGED <<bank, job, pc>>
      /\ \A b \in Bets : row'[b] = "open" <=> row[b] = "open"
  BY <1>1 DEF Resolve, Fill, files, Shapes
<1>4. Prices'
  BY <1>1, <1>3 DEF Prices, AtPrice
<1>5. LiveHeld'
  <2>1. CASE Resolve
    BY <2>1, SettlementAssumption DEF Resolve, LiveHeld
  <2> QED BY <1>1, <2>1, FillHeld
<1>6. ASSUME NEW q \in Modes PROVE JobReads(q)'
  <2>1. \A s : OpenBets(q, s)' = OpenBets(q, s)
    BY <1>3, SameOpen
  <2>2. \A s \in job[q].sides : AggSize(q, s)' = AggSize(q, s)
    BY <2>1 DEF AggSize, Total
  <2>3. winner # "none" => winner' # "none"
    BY DEF Resolve, Fill
  <2> QED BY <1>1, <1>3, <2>2, <2>3 DEF JobReads, Total
<1>7. ASSUME NEW q \in Modes, NEW s \in Sides, flaw'[q][s] = {} PROVE Accounts(q, s)'
  <2>1. Accounts(q, s)
    BY <1>1, <1>7, FlawStays DEF MoneyInv
  <2> QED BY <1>1, <2>1, FillAccounts, ResolveAccounts
<1> QED BY <1>2, <1>4, <1>5, <1>6, <1>7 DEF MoneyInv

LEMMA StutterMoney ==
    ASSUME MoneyInv, UNCHANGED vars
    PROVE  MoneyInv'
<1>1. UNCHANGED <<row, credit, bank, held, winner, pc, job, depth, crashes, sold, owner, flaw>>
  BY DEF vars, files, hist
<1>2. \A p, s : /\ OpenBets(p, s)' = OpenBets(p, s) /\ Ended(p, s)' = Ended(p, s)
                /\ Filled(p, s)' = Filled(p, s) /\ OwnBank(p, s)' = OwnBank(p, s)
                /\ Unbanked(p, s)' = Unbanked(p, s) /\ Paying(p, s)' = Paying(p, s)
  BY <1>1 DEF OpenBets, Ended, Filled, InBook, OwnBank, Unbanked, Paying
<1>3. \A p : Dues(p)' = Dues(p)
  BY <1>1 DEF Dues, Due, ClosedCredit, SettledCredit
<1>4. \A p, s : /\ AggSize(p, s)' = AggSize(p, s) /\ Counted(p, s)' = Counted(p, s)
                /\ Gone(p, s)' = Gone(p, s)
  BY <1>1, <1>2 DEF AggSize, Counted, Gone, Total
<1>5. \A p, s : Owed(p, s)' = Owed(p, s) /\ Won(p, s)' = Won(p, s)
  BY <1>1, <1>2, <1>3, <1>4 DEF Owed, Won, Total
<1>6. ASSUME NEW p, NEW s, Accounts(p, s) PROVE Accounts(p, s)'
  BY <1>1, <1>2, <1>4, <1>5, <1>6 DEF Accounts, Total
<1>7. Typed' /\ Prices' /\ Unpaid'
  BY <1>1 DEF MoneyInv, Typed, TypeOK, Prices, AtPrice, Unpaid
<1>8. LiveHeld'
  BY <1>1, <1>2 DEF MoneyInv, LiveHeld, Total
<1>9. \A p \in Modes : JobReads(p)'
  BY <1>1, <1>4 DEF MoneyInv, JobReads, Total
<1> QED BY <1>1, <1>6, <1>7, <1>8, <1>9 DEF MoneyInv

LEMMA NextMoney ==
    ASSUME IInv, MoneyInv, [Next]_vars
    PROVE  MoneyInv'
BY ModeMoney, VenueMoney, StutterMoney DEF Next

-----------------------------------------------------------------------------
(* Theorems on the money. *)

\* Once the bets of a book are final, its accounts say they were paid in full.
LEMMA FinalPaid ==
    ASSUME IInv, MoneyInv
    PROVE  PaidOnce
<1> SUFFICES ASSUME NEW p \in Modes, NEW s \in Sides, AllFinal(p, s), flaw[p][s] = {}
             PROVE  Total(credit, Filled(p, s)) = Worth(p, s)
  BY DEF PaidOnce
<1>1. Typed /\ Accounts(p, s)
  BY DEF MoneyInv
<1>2. OpenBets(p, s) = {} /\ Ended(p, s) = Filled(p, s)
  BY DEF AllFinal, Filled, OpenBets, Ended, Final
<1>3. AggSize(p, s) = 0
  BY <1>2, SumEmpty DEF AggSize, Total
<1>4. Owed(p, s) = 0 /\ Counted(p, s) = Filled(p, s)
  BY <1>2, SumEmpty DEF Owed, Counted, Total
<1>5. OwnBank(p, s) \in Nat /\ Unbanked(p, s) \in Nat /\ sold[p][s] \in Nat
  BY <1>1, BankParts DEF Typed, TypeOK, Counters
<1>6. Gone(p, s) = sold[p][s]
  BY <1>1, <1>3, <1>5 DEF Gone, Accounts
<1>7. Total(credit, Filled(p, s)) \in Nat
  BY <1>1, BooksFinite, CreditTotal
<1>8. Total(credit, Filled(p, s)) + 0 = sold[p][s] * SellPrice + Won(p, s)
  BY <1>1, <1>2, <1>4, <1>6 DEF Accounts
<1>9. Won(p, s) = IF s = winner THEN (Total(Size, Filled(p, s)) - sold[p][s]) * Payout ELSE 0
  BY <1>4, <1>6 DEF Won
<1> QED BY <1>7, <1>8, <1>9 DEF Worth

\* Between two jobs the contracts that are gone are those of the final bets
\* and those in the bank; what is left of the fills is the position.
LEMMA PositionFits ==
    ASSUME IInv, MoneyInv
    PROVE  PositionMatchesBook
<1> SUFFICES ASSUME NEW s \in Sides, winner = "none", Between(Live), flaw[Live][s] = {}
             PROVE  held[Live][s] + OwnBank(Live, s)
                      = Total(Size, {b \in Filled(Live, s) : row[b] \notin Final})
  BY DEF PositionMatchesBook
<1> DEFINE R == {b \in Filled(Live, s) : row[b] \notin Final}
           E == Ended(Live, s)
<1>1. Typed /\ Accounts(Live, s) /\ Live \in Modes
  BY SettlementAssumption DEF MoneyInv
<1>2. ~ Paying(Live, s) /\ Unbanked(Live, s) = 0
  BY DEF Between, Paying, Unbanked
<1>3. Counted(Live, s) = E
  BY <1>2 DEF Counted
<1>4. Total(Size, E) = sold[Live][s] - OwnBank(Live, s) - 0
  BY <1>1, <1>2, <1>3 DEF Accounts, Gone
<1>5. held[Live][s] + sold[Live][s] = Total(Size, Filled(Live, s))
  BY DEF MoneyInv, LiveHeld
<1>6. Filled(Live, s) = E \union R /\ E \intersect R = {} /\ R \in SUBSET Bets /\ E \in SUBSET Bets
  BY BooksFinite DEF Filled, Ended, InBook, Final
<1>7. Total(Size, Filled(Live, s)) = Total(Size, E) + Total(Size, R)
  BY <1>6, SizeUnion
<1>8. /\ OwnBank(Live, s) \in Nat /\ sold[Live][s] \in Nat /\ held[Live][s] \in Nat
      /\ Total(Size, R) \in Nat
  BY <1>1, <1>6, BankParts, SizeTotals DEF Typed, TypeOK, Counters
<1> HIDE DEF E, R
<1>9. held[Live][s] + OwnBank(Live, s) = Total(Size, R)
  BY <1>4, <1>5, <1>7, <1>8
<1> QED BY <1>9 DEF R

\* The books balance at every commit, of a settlement or an exit that is cut
\* short as well: what was credited with what the job in hand still owes is
\* what the contracts counted so far brought.
THEOREM BooksBalance == Spec => []MoneyInv
<1>1. Init => MoneyInv
  BY InitMoney
<1>2. IInv /\ MoneyInv /\ [Next]_vars => MoneyInv'
  BY NextMoney
<1> QED BY <1>1, <1>2, InvariantHolds, PTL DEF Spec

\* The tables, the banks and what a job has read keep their types: no credit
\* and no position is negative.
THEOREM TypeCorrect == Spec => []TypeOK
<1>1. MoneyInv => TypeOK
  BY DEF MoneyInv, Typed
<1> QED BY <1>1, BooksBalance, PTL

\* A position closed in parts, banked and settled for the remainder is paid
\* once, contract by contract, if every share is whole (runner.py:596-626 and
\* 764-780).
THEOREM EveryContractPaidOnce == Spec => []PaidOnce
<1>1. IInv /\ MoneyInv => PaidOnce
  BY FinalPaid
<1> QED BY <1>1, InvariantHolds, BooksBalance, PTL

\* Between two jobs the live position is what the open bets hold less what
\* the bank says was sold (runner.py:764-770).
THEOREM PositionKept == Spec => []PositionMatchesBook
<1>1. IInv /\ MoneyInv => PositionMatchesBook
  BY PositionFits
<1> QED BY <1>1, InvariantHolds, BooksBalance, PTL

=============================================================================
