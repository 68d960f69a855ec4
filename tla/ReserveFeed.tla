---------------------------- MODULE ReserveFeed -----------------------------
(***************************************************************************)
(* The proof-of-reserve half of the custom data feed: cron executions that *)
(* fetch the reserve, add up the token's supply over all chains and write  *)
(* both to the ReserveManager of the first chain.                          *)
(*                                                                         *)
(* The supplies are read at the finalized blocks of their chains, in       *)
(* parallel, while tokens are burned on one chain and minted on another.   *)
(* ReserveManager keeps whatever report comes last, whoever calls it: it   *)
(* compares neither time stamps nor senders.  The workflow waits for the   *)
(* answer to its write and does not look at the status in it.              *)
(***************************************************************************)
EXTENDS Naturals, FiniteSets, Functions

CONSTANTS
  TokenChains,   \* config.EVMs
  NotRead,       \* a supply that has not been read
  Issued,        \* tokens in existence, on the chains or on their way
  MaxReserve,    \* the reserve's values are 0 .. MaxReserve, published in this order
  ReserveRuns,   \* executions that may overlap
  MaxFaults      \* bound on lost transactions, failed calls and reports of others

ASSUME ReserveAssumption ==
  /\ IsFiniteSet(TokenChains)
  /\ Issued \in Nat /\ MaxReserve \in Nat /\ MaxFaults \in Nat
  /\ NotRead \notin Nat

VARIABLES
  supply,      \* totalSupply() of the token at the head of each chain
  finalSupply, \* the same at the finalized block
  reserve,     \* what the reserve's API answers
  faults,      \* faults and reports of others so far (bounds the model)
  porPc,       \* per execution: where it is
  fetched,     \* the reserve it has fetched
  supplies,    \* the supplies it has read
  write,       \* its report, and what has become of it
  still,       \* no token moved or became final since it started
  late,        \* executions have overlapped or a write was given up
  manager,     \* lastTotalMinted and lastTotalReserve of ReserveManager
  ownReserve   \* the reserve in the workflow's last report that landed

reserveVars == <<supply, finalSupply, reserve, faults, porPc, fetched, supplies,
                 write, still, late, manager, ownReserve>>
tokenVars == <<supply, finalSupply, still>>
runOnlyVars == <<porPc, fetched, supplies, write>>
managerVars == <<manager, ownReserve>>

Supplies == 0 .. Issued
Totals == [minted : Nat, reserve : 0 .. MaxReserve]
NoWrite == [status |-> "none", minted |-> 0, reserve |-> 0]

ReserveTypeOK ==
  /\ supply \in [TokenChains -> Supplies]
  /\ finalSupply \in [TokenChains -> Supplies]
  /\ reserve \in 0 .. MaxReserve
  /\ faults \in 0 .. MaxFaults
  /\ porPc \in [ReserveRuns -> {"idle", "supply", "await", "abandoned"}]
  /\ fetched \in [ReserveRuns -> 0 .. MaxReserve]
  /\ supplies \in [ReserveRuns -> [TokenChains -> Supplies \union {NotRead}]]
  /\ write \in [ReserveRuns ->
       [status : {"none", "pending", "landed", "failed"}, minted : Nat, reserve : 0 .. MaxReserve]]
  /\ still \in [ReserveRuns -> BOOLEAN]
  /\ late \in BOOLEAN
  /\ manager \in Totals
  /\ ownReserve \in 0 .. MaxReserve

OnTheirWay == Issued - SumFunction(supply)

ReserveInit ==
  /\ \E c \in TokenChains : supply = [d \in TokenChains |-> IF d = c THEN Issued ELSE 0]
  /\ finalSupply = supply
  /\ reserve = 0
  /\ faults = 0
  /\ porPc = [r \in ReserveRuns |-> "idle"]
  /\ fetched = [r \in ReserveRuns |-> 0]
  /\ supplies = [r \in ReserveRuns |-> [c \in TokenChains |-> NotRead]]
  /\ write = [r \in ReserveRuns |-> NoWrite]
  /\ still = [r \in ReserveRuns |-> TRUE]
  /\ late = FALSE
  /\ manager = [minted |-> 0, reserve |-> 0]
  /\ ownReserve = 0

-----------------------------------------------------------------------------
(* The environment.                                                        *)

\* The API publishes the next value.
PublishReserve ==
  /\ reserve < MaxReserve
  /\ reserve' = reserve + 1
  /\ UNCHANGED <<tokenVars, faults, runOnlyVars, late, managerVars>>

\* A token leaves chain c, or one on its way arrives there.
MoveToken(c, newSupply) ==
  /\ \/ newSupply + 1 = supply[c]
     \/ newSupply = supply[c] + 1 /\ OnTheirWay > 0
  /\ supply' = [supply EXCEPT ![c] = newSupply]
  /\ still' = [r \in ReserveRuns |-> FALSE]
  /\ UNCHANGED <<finalSupply, reserve, faults, runOnlyVars, late, managerVars>>

\* The finalized block of chain c catches up.
FinalizeSupply(c) ==
  /\ finalSupply[c] # supply[c]
  /\ finalSupply' = [finalSupply EXCEPT ![c] = supply[c]]
  /\ still' = [r \in ReserveRuns |-> FALSE]
  /\ UNCHANGED <<supply, reserve, faults, runOnlyVars, late, managerVars>>

Fault ==
  /\ faults < MaxFaults
  /\ faults' = faults + 1

\* Somebody else calls ReserveManager.onReport, which asks nobody who he is.
ReportByOther(totals) ==
  /\ Fault
  /\ manager' = totals
  /\ UNCHANGED <<tokenVars, reserve, runOnlyVars, late, ownReserve>>

-----------------------------------------------------------------------------
(* One execution of doPOR.                                                 *)

\* fetchPOR: a ripcord or an error ends the execution before it has read
\* anything, which is no step here.
FetchReserve(r) ==
  /\ porPc[r] = "idle"
  /\ porPc' = [porPc EXCEPT ![r] = "supply"]
  /\ fetched' = [fetched EXCEPT ![r] = reserve]
  /\ write' = [write EXCEPT ![r] = NoWrite]
  /\ still' = [still EXCEPT ![r] = finalSupply = supply /\ OnTheirWay = 0]
  /\ late' = (late \/ \E s \in ReserveRuns \ {r} : porPc[s] # "idle")
  /\ UNCHANGED <<supply, finalSupply, reserve, faults, supplies, managerVars>>

\* One of the parallel reads of totalSupply() at the finalized block.
ReadSupply(r, c) ==
  /\ porPc[r] = "supply"
  /\ supplies[r][c] = NotRead
  /\ supplies' = [supplies EXCEPT ![r][c] = finalSupply[c]]
  /\ UNCHANGED <<tokenVars, reserve, faults, porPc, fetched, write, late, managerVars>>

\* The supply of one chain only, as for the native balance.
TotalSupply_OneChain(r) == supplies[r][CHOOSE c \in TokenChains : TRUE]

TotalSupply(r) == SumFunction(supplies[r])

\* What an execution has read is not needed any more.
Forget(r) ==
  /\ fetched' = [fetched EXCEPT ![r] = 0]
  /\ supplies' = [supplies EXCEPT ![r] = [c \in TokenChains |-> NotRead]]

\* updateReserves writes to the first chain, once every supply (and the native
\* balance, which is only logged) has been read.
UpdateReserves(r) ==
  /\ porPc[r] = "supply"
  /\ \A c \in TokenChains : supplies[r][c] # NotRead
  /\ porPc' = [porPc EXCEPT ![r] = "await"]
  /\ write' = [write EXCEPT ![r] =
       [status |-> "pending", minted |-> TotalSupply(r), reserve |-> fetched[r]]]
  /\ Forget(r)
  /\ UNCHANGED <<tokenVars, reserve, faults, late, managerVars>>

\* An execution that is over is at rest; one that was given up rests when its
\* transaction has been settled.
Settled(r) == [porPc EXCEPT ![r] = IF @ = "abandoned" THEN "idle" ELSE @]

\* ReserveManager.onReport: the last report is kept.
ExecuteReserveReport(r) ==
  /\ write[r].status = "pending"
  /\ manager' = [minted |-> write[r].minted, reserve |-> write[r].reserve]
  /\ ownReserve' = write[r].reserve
  /\ write' = [write EXCEPT ![r].status = "landed"]
  /\ porPc' = Settled(r)
  /\ UNCHANGED <<tokenVars, reserve, faults, fetched, supplies, late>>

\* The transaction fails or is dropped.
LoseReserveReport(r) ==
  /\ Fault
  /\ write[r].status = "pending"
  /\ write' = [write EXCEPT ![r].status = "failed"]
  /\ porPc' = Settled(r)
  /\ UNCHANGED <<tokenVars, reserve, fetched, supplies, late, managerVars>>

\* An execution that does not wait for the answer.
Answered_AtOnce(r) == TRUE

\* The answer comes when the transaction is settled.
Answered(r) == write[r].status # "pending"

\* The execution is over.  Its status is not looked at: a failed write ends it
\* in the same way.
ReserveResponse(r) ==
  /\ porPc[r] = "await"
  /\ Answered(r)
  /\ porPc' = [porPc EXCEPT ![r] = "idle"]
  /\ UNCHANGED <<tokenVars, reserve, faults, fetched, supplies, write, late, managerVars>>

\* A read or the write returns an error; a write given up may land later.
ReserveCallFails(r) ==
  /\ Fault
  /\ porPc[r] \in {"supply", "await"}
  /\ porPc' = [porPc EXCEPT ![r] =
       IF write[r].status = "pending" THEN "abandoned" ELSE "idle"]
  /\ late' = (late \/ write[r].status = "pending")
  /\ Forget(r)
  /\ UNCHANGED <<tokenVars, reserve, write, managerVars>>

DoPor(r) ==
  \/ FetchReserve(r)
  \/ \E c \in TokenChains : ReadSupply(r, c)
  \/ UpdateReserves(r)
  \/ ExecuteReserveReport(r)
  \/ LoseReserveReport(r)
  \/ ReserveResponse(r)
  \/ ReserveCallFails(r)

ReserveNext ==
  \/ PublishReserve
  \/ \E c \in TokenChains, s \in Supplies : MoveToken(c, s)
  \/ \E c \in TokenChains : FinalizeSupply(c)
  \/ \E minted \in Supplies, total \in 0 .. MaxReserve :
       ReportByOther([minted |-> minted, reserve |-> total])
  \/ \E r \in ReserveRuns : DoPor(r)

ReserveSpec == ReserveInit /\ [][ReserveNext]_reserveVars

-----------------------------------------------------------------------------
(* Properties.                                                             *)

\* ReserveManager keeps any report, and anybody may write one.  What the
\* workflow's own reports bring there never goes back from one of them to a
\* later one, whatever others write in between: because an execution waits for
\* its write, only overlap or a write that was given up takes it back.
OwnReportsGoBackOnlyLate ==
  [][\A r \in ReserveRuns :
       write[r].status = "pending" /\ write'[r].status = "landed" /\ ~late' =>
         manager'.reserve >= ownReserve]_reserveVars

\* A report whose supplies were read while no token moved gives all tokens in
\* existence, although they were read at different moments.
StillSupplyIsExact ==
  \A r \in ReserveRuns :
    write[r].status = "pending" /\ still[r] => write[r].minted = Issued

=============================================================================
