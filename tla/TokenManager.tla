---------------------------- MODULE TokenManager ----------------------------
(***************************************************************************)
(* The rebalancing workflow over the wallets of ProtocolSmartWallet.       *)
(*                                                                         *)
(* A cron execution reads the liquidity rate of every configured pool, one *)
(* chain after the other, keeps the best, and then visits the chains again *)
(* in the same order: it reads the balance and, when the difference of the *)
(* rates it has read is large enough, writes a report that moves exactly   *)
(* that balance to the best chain.  It waits for each write.  Rates and    *)
(* balances change between any two of its steps, executions overlap, a     *)
(* write may fail, and a write that is given up may still be executed.     *)
(***************************************************************************)
EXTENDS ProtocolSmartWallet, Sequences

CONSTANTS
  Order,          \* config.EVMs: the chains in the configured order
  MaxRate,        \* liquidity rates are 0 .. MaxRate
  UnitsPerBps,    \* rate units in a basis point (1e23 in the code)
  MinBps,         \* config.minBPSDeltaForRebalance
  ChecksReceiver, \* TRUE: workflow-go, FALSE: workflow-ts
  Runs,           \* executions that may overlap
  MaxEnvOps       \* bound on rate changes, treasury moves and faults

ASSUME ManagerAssumption ==
  /\ Order \in Seq(Chains) /\ Len(Order) >= 2
  /\ \A c \in Chains : \E i \in 1 .. Len(Order) : Order[i] = c
  /\ \A i, j \in 1 .. Len(Order) : Order[i] = Order[j] => i = j
  /\ UnitsPerBps \in Nat \ {0}
  /\ MaxRate \in Nat /\ MinBps \in Nat /\ MaxEnvOps \in Nat
  /\ ChecksReceiver \in BOOLEAN

VARIABLES
  rate,     \* MockPool.currentLiquidityRate of the configured pool
  envOps,   \* environment operations so far (bounds the model)
  pc,       \* per execution: where it is
  position, \* the chain it works on, as an index of Order
  snapshot, \* the rates it has read
  best,     \* maxAPYPool: the index of the best chain so far, 0 if none
  tx,       \* its last write
  reported, \* amount_rebalanced, as the final log line gives it
  moved     \* what its writes really moved

runVars == <<pc, position, snapshot, best, tx, reported, moved>>
managerVars == <<walletVars, rate, envOps, runVars>>

Rates == 0 .. MaxRate

NoTx == [status |-> "none"]
Txs == [src : Chains, dst : Chains, request : Nat,
        status : {"pending", "succeeded", "reverted", "failed"}]

ManagerTypeOK ==
  /\ WalletTypeOK
  /\ rate \in [Chains -> Rates]
  /\ envOps \in 0 .. MaxEnvOps
  /\ pc \in [Runs -> {"idle", "scan", "move", "await", "abandoned"}]
  /\ position \in [Runs -> 1 .. Len(Order) + 1]
  /\ snapshot \in [Runs -> [Chains -> Rates]]
  /\ best \in [Runs -> 0 .. Len(Order)]
  /\ tx \in [Runs -> Txs \union {NoTx}]
  /\ reported \in [Runs -> Nat]
  /\ moved \in [Runs -> Nat]

\* The deployed system, whose pools have been funded in any way.
ManagerInit ==
  /\ \E rest \in Amounts, held \in [Chains -> Amounts] :
       rest + SumFunction(held) = Supply /\ Deployed(rest, held)
  /\ rate \in [Chains -> Rates]
  /\ envOps = 0
  /\ pc = [r \in Runs |-> "idle"]
  /\ position = [r \in Runs |-> 1]
  /\ snapshot = [r \in Runs |-> [c \in Chains |-> 0]]
  /\ best = [r \in Runs |-> 0]
  /\ tx = [r \in Runs |-> NoTx]
  /\ reported = [r \in Runs |-> 0]
  /\ moved = [r \in Runs |-> 0]

Here(r) == Order[position[r]]
BestChain(r) == Order[best[r]]

-----------------------------------------------------------------------------
(* The environment.                                                        *)

EnvOp ==
  /\ envOps < MaxEnvOps
  /\ envOps' = envOps + 1

\* MockPool.setCurrentLiquidityRate
SetCurrentLiquidityRate(c, newRate) ==
  /\ EnvOp
  /\ rate' = [rate EXCEPT ![c] = newRate]
  /\ UNCHANGED <<walletVars, runVars>>

Owner(c) ==
  /\ EnvOp
  /\ Treasury(c) \/ Configure(c)
  /\ UNCHANGED <<rate, runVars>>

\* Anybody makes a wallet send what its pool holds.
Outsider(c) ==
  /\ EnvOp
  /\ CallRebalance(c)
  /\ UNCHANGED <<rate, runVars>>

Deliver ==
  /\ Ccip
  /\ UNCHANGED <<rate, envOps, runVars>>

-----------------------------------------------------------------------------
(* One execution of doHighestSupplyAPY.                                    *)

Start(r) ==
  /\ pc[r] = "idle"
  /\ pc' = [pc EXCEPT ![r] = "scan"]
  /\ position' = [position EXCEPT ![r] = 1]
  /\ best' = [best EXCEPT ![r] = 0]
  /\ reported' = [reported EXCEPT ![r] = 0]
  /\ moved' = [moved EXCEPT ![r] = 0]
  /\ tx' = [tx EXCEPT ![r] = NoTx]
  /\ UNCHANGED <<walletVars, rate, envOps, snapshot>>

\* The first of the chains read so far with the highest rate; a tie keeps the
\* earlier one.
Better(r, newRate) == best[r] = 0 \/ newRate > snapshot[r][BestChain(r)]

\* GetReserveData of the next chain; after the last one the execution either
\* gives up (no positive rate) or starts moving funds.
ReadRate(r) ==
  LET c == Here(r)
      best1 == IF Better(r, rate[c]) THEN position[r] ELSE best[r]
      snapshot1 == [snapshot[r] EXCEPT ![c] = rate[c]]
      last == position[r] = Len(Order)
  IN
  /\ pc[r] = "scan"
  /\ snapshot' = [snapshot EXCEPT ![r] = snapshot1]
  /\ best' = [best EXCEPT ![r] = best1]
  /\ position' = [position EXCEPT ![r] = IF last THEN 1 ELSE @ + 1]
  /\ pc' = [pc EXCEPT ![r] =
       IF ~last THEN "scan" ELSE IF snapshot1[Order[best1]] > 0 THEN "move" ELSE "idle"]
  /\ UNCHANGED <<walletVars, rate, envOps, tx, reported, moved>>

\* The difference rounded up, and the difference in a unit that is too large.
DiffBps_RoundedUp(r, c) ==
  (snapshot[r][BestChain(r)] - snapshot[r][c] + UnitsPerBps - 1) \div UnitsPerBps

DiffBps_WrongUnit(r, c) ==
  (snapshot[r][BestChain(r)] - snapshot[r][c]) \div (10 * UnitsPerBps)

DiffBps(r, c) == (snapshot[r][BestChain(r)] - snapshot[r][c]) \div UnitsPerBps

\* Visit the next chain: skip it, or write a report for the balance just read.
Visit(r) ==
  LET c == Here(r)
      balance == poolBalance[c][FirstPool]
  IN
  /\ pc[r] = "move" /\ position[r] <= Len(Order)
  /\ IF c = BestChain(r) \/ balance = 0 \/ DiffBps(r, c) < MinBps
       THEN /\ position' = [position EXCEPT ![r] = @ + 1]
            /\ UNCHANGED <<pc, tx>>
       ELSE /\ pc' = [pc EXCEPT ![r] = "await"]
            /\ tx' = [tx EXCEPT ![r] = [src |-> c, dst |-> BestChain(r),
                                        request |-> balance, status |-> "pending"]]
            /\ UNCHANGED position
  /\ UNCHANGED <<walletVars, rate, envOps, snapshot, best, reported, moved>>

\* The forwarder delivers the report, whose receiver is the wallet that is
\* configured for the best chain.  Its own transaction succeeds even when
\* the wallet reverts.
ExecuteReport(r) ==
  LET t == tx[r] IN
  /\ t.status = "pending"
  /\ IF ReportAccepted(t.src, t.request, t.dst, "wallet")
       THEN /\ OnReport(t.src, t.request, t.dst, "wallet")
            /\ tx' = [tx EXCEPT ![r].status = "succeeded"]
            /\ moved' = [moved EXCEPT ![r] = @ + t.request]
       ELSE /\ tx' = [tx EXCEPT ![r].status = "reverted"]
            /\ UNCHANGED <<walletVars, moved>>
  /\ pc' = [pc EXCEPT ![r] = IF @ = "abandoned" THEN "idle" ELSE @]
  /\ UNCHANGED <<rate, envOps, position, snapshot, best, reported>>

\* The transaction is dropped or fails before it reaches the wallet.
LoseReport(r) ==
  /\ EnvOp
  /\ tx[r].status = "pending"
  /\ tx' = [tx EXCEPT ![r].status = "failed"]
  /\ pc' = [pc EXCEPT ![r] = IF @ = "abandoned" THEN "idle" ELSE @]
  /\ UNCHANGED <<walletVars, rate, position, snapshot, best, reported, moved>>

\* An execution that looks only at the status of the forwarder's transaction.
Counted_TxStatusOnly(t) == t.status \in {"succeeded", "reverted"}

\* The write is counted unless the transaction failed or, in workflow-go, the
\* receiver's execution status is not success; otherwise the execution ends.
Counted(t) == t.status = "succeeded" \/ (t.status = "reverted" /\ ~ChecksReceiver)

Response(r) ==
  /\ pc[r] = "await"
  /\ tx[r].status # "pending"
  /\ IF Counted(tx[r])
       THEN /\ pc' = [pc EXCEPT ![r] = "move"]
            /\ position' = [position EXCEPT ![r] = @ + 1]
            /\ reported' = [reported EXCEPT ![r] = @ + tx[r].request]
       ELSE /\ pc' = [pc EXCEPT ![r] = "idle"]
            /\ UNCHANGED <<position, reported>>
  /\ UNCHANGED <<walletVars, rate, envOps, snapshot, best, tx, moved>>

\* A read or a write returns an error: the execution ends.  A write given up
\* while its transaction is pending may still be executed.
CallFails(r) ==
  /\ EnvOp
  /\ pc[r] \in {"scan", "move", "await"}
  /\ pc' = [pc EXCEPT ![r] = IF @ = "await" /\ tx[r].status = "pending"
                               THEN "abandoned" ELSE "idle"]
  /\ UNCHANGED <<walletVars, rate, position, snapshot, best, tx, reported, moved>>

\* Every chain is visited: the execution logs what it moved.
Complete(r) ==
  /\ pc[r] = "move" /\ position[r] > Len(Order)
  /\ pc' = [pc EXCEPT ![r] = "idle"]
  /\ UNCHANGED <<walletVars, rate, envOps, position, snapshot, best, tx, reported, moved>>

-----------------------------------------------------------------------------

Execution(r) ==
  \/ Start(r)
  \/ ReadRate(r)
  \/ Visit(r)
  \/ ExecuteReport(r)
  \/ LoseReport(r)
  \/ Response(r)
  \/ CallFails(r)
  \/ Complete(r)

ManagerNext ==
  \/ \E c \in Chains, newRate \in Rates : SetCurrentLiquidityRate(c, newRate)
  \/ \E c \in Chains : Owner(c) \/ Outsider(c)
  \/ Deliver
  \/ \E r \in Runs : Execution(r)

\* CCIP executes a message once by itself; after a failure it takes somebody
\* to execute it by hand, who may never come.
FirstReceive(s) ==
  /\ s \in InFlight /\ ~messages[s].failed
  /\ Receive(s)
  /\ UNCHANGED <<rate, envOps, runVars>>

\* Cron keeps firing, an execution keeps going, a submitted transaction is
\* eventually executed unless it is lost, and CCIP executes its messages.
Fairness ==
  /\ \A r \in Runs :
       WF_managerVars(Start(r) \/ ReadRate(r) \/ Visit(r) \/ ExecuteReport(r)
                        \/ Response(r) \/ Complete(r))
  /\ \A s \in Slots : WF_managerVars(FirstReceive(s))

ManagerSpec == ManagerInit /\ [][ManagerNext]_managerVars /\ Fairness

-----------------------------------------------------------------------------
(* Properties.                                                             *)

\* Whatever overlaps, fails or arrives late: a pending write asks for the
\* move of a positive amount from a chain to another whose rate, as this
\* execution read it, is better by at least MinBps.
WritesRespectThreshold ==
  \A r \in Runs : tx[r].status = "pending" =>
    /\ tx[r].request > 0 /\ tx[r].src # tx[r].dst
    /\ snapshot[r][tx[r].dst] >= snapshot[r][tx[r].src] + MinBps * UnitsPerBps
    /\ \A c \in Chains : snapshot[r][c] <= snapshot[r][tx[r].dst]

\* The amount an execution reports was really moved: it never counts a write
\* whose wallet reverted, and it ends at once when it cannot count one.
ReportedWasMoved == \A r \in Runs : reported[r] <= moved[r]

\* When an execution has gone through all chains, nothing it moved is
\* missing from its report.
CompletedReportIsExact ==
  \A r \in Runs :
    pc[r] = "move" /\ position[r] > Len(Order) => reported[r] = moved[r]

\* The first of the chains with the highest current rate.
CurrentBest ==
  CHOOSE i \in 1 .. Len(Order) :
    /\ \A j \in 1 .. Len(Order) : rate[Order[j]] <= rate[Order[i]]
    /\ \A j \in 1 .. i - 1 : rate[Order[j]] < rate[Order[i]]

\* The owners have everything as deployed and no wallet is out of LINK.
InService ==
  \A c \in Chains :
    /\ pool[c] = FirstPool /\ link[c] >= Fee
    /\ allowedForwarders[c] /\ allowedOwners[c]
    /\ \A s \in Chains \ {c} : allowedCcipSenders[c][s] = "wallet"

\* No pool whose rate is behind the best one by the threshold holds tokens,
\* and none are on their way.
Balanced ==
  /\ \A s \in InFlight : messages[s].failed
  /\ rate[Order[CurrentBest]] > 0 =>
       \A c \in Chains \ {Order[CurrentBest]} :
         (rate[Order[CurrentBest]] - rate[c]) \div UnitsPerBps >= MinBps =>
           poolBalance[c][FirstPool] = 0

\* Once rates, owners and faults rest with the wallets in service, executions
\* bring the funds to the best pool and leave them there: also when they
\* overlap, read different rates, or their abandoned writes land late.
FundsReachBestPool == <>[](InService => Balanced)

=============================================================================
