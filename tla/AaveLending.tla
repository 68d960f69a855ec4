----------------------------- MODULE AaveLending -----------------------------
(***************************************************************************)
(* The Aave lending workflow and its AaveReceiver, for one asset and one   *)
(* wallet, which is also the account the pool books.                       *)
(*                                                                         *)
(* An execution sends one report with an operation and an amount, both     *)
(* from the configuration, and waits for the transaction.  The receiver    *)
(* acts for the wallet: it pulls what the wallet has approved, calls the   *)
(* pool, and keeps no books of its own.  Executions overlap, so reports    *)
(* land in any order, and a report that was given up may still land.       *)
(* Aave's pool is external: one aToken per token, a borrower must hold as  *)
(* many aTokens as it owes, and interest makes debts grow.  The wallet     *)
(* itself does not trade with the pool.                                    *)
(***************************************************************************)
EXTENDS Naturals

CONSTANTS
  Holdings1,    \* tokens the wallet starts with
  Reserve1,     \* tokens others have supplied to the pool
  LendingSlots, \* executions that may overlap
  MaxLending,   \* amounts and approvals are at most this
  MaxLendingOps \* bound on reports, approvals and interest

ASSUME LendingAssumption ==
  /\ Holdings1 \in Nat /\ Reserve1 \in Nat
  /\ MaxLending \in Nat /\ MaxLendingOps \in Nat

VARIABLES
  tokens,    \* the wallet's tokens
  aTokens,   \* the wallet's aTokens
  debt,      \* what it owes to the pool
  liquidity, \* tokens in the pool
  stuck,     \* tokens in AaveReceiver
  approved,  \* what the receiver may pull, or borrow in the wallet's name
  lending,   \* per execution: its report and what has become of it
  careless,  \* a repayment was asked for that need not fit the debt
  lendingOps \* operations so far (bounds the model)

lendingVars == <<tokens, aTokens, debt, liquidity, stuck, approved, lending,
                 careless, lendingOps>>
books == <<tokens, aTokens, debt, liquidity, stuck>>

Operations == {"SUPPLY", "WITHDRAW", "BORROW", "REPAY"}
NoReport == [status |-> "none"]
LendingReports ==
  [status : {"pending", "executed", "reverted", "failed"},
   operation : Operations, amount : 0 .. MaxLending]

LendingTypeOK ==
  /\ tokens \in Nat /\ aTokens \in Nat /\ debt \in Nat
  /\ liquidity \in Nat /\ stuck \in Nat
  /\ approved \in [{"token", "aToken", "credit"} -> 0 .. MaxLending]
  /\ lending \in [LendingSlots -> LendingReports \union {NoReport}]
  /\ careless \in BOOLEAN
  /\ lendingOps \in 0 .. MaxLendingOps

LendingInit ==
  /\ tokens = Holdings1
  /\ aTokens = 0 /\ debt = 0
  /\ liquidity = Reserve1
  /\ stuck = 0
  /\ approved = [kind \in {"token", "aToken", "credit"} |-> MaxLending]
  /\ lending = [s \in LendingSlots |-> NoReport]
  /\ careless = FALSE
  /\ lendingOps = 0

LendingOp ==
  /\ lendingOps < MaxLendingOps
  /\ lendingOps' = lendingOps + 1

-----------------------------------------------------------------------------
(* The wallet and the pool.                                                *)

\* The wallet renews an approval.
ApproveReceiver(kind, amount) ==
  /\ LendingOp
  /\ approved' = [approved EXCEPT ![kind] = amount]
  /\ UNCHANGED <<books, lending, careless>>

Accrue ==
  /\ LendingOp
  /\ debt > 0
  /\ debt' = debt + 1
  /\ UNCHANGED <<tokens, aTokens, liquidity, stuck, approved, lending, careless>>

-----------------------------------------------------------------------------
(* AaveReceiver.onReport: all of it happens, or nothing.                   *)

\* When an operation goes through: the approvals and balances suffice, the pool
\* has the tokens, and the wallet keeps enough aTokens.
LendingAccepted(operation, amount) ==
  /\ amount > 0
  /\ CASE operation = "SUPPLY" -> tokens >= amount /\ approved["token"] >= amount
       [] operation = "WITHDRAW" -> /\ aTokens >= amount + debt /\ liquidity >= amount
                                    /\ approved["aToken"] >= amount
       [] operation = "BORROW" -> /\ aTokens >= amount + debt /\ liquidity >= amount
                                  /\ approved["credit"] >= amount
       [] operation = "REPAY" -> /\ debt > 0 /\ tokens >= amount
                                 /\ approved["token"] >= amount

Pull(kind, amount) == approved' = [approved EXCEPT ![kind] = @ - amount]

LendingSupply(amount) ==
  /\ Pull("token", amount)
  /\ tokens' = tokens - amount
  /\ aTokens' = aTokens + amount
  /\ liquidity' = liquidity + amount
  /\ UNCHANGED <<debt, stuck>>

\* The pool burns the aTokens that the receiver has pulled and pays the wallet.
LendingWithdraw(amount) ==
  /\ Pull("aToken", amount)
  /\ aTokens' = aTokens - amount
  /\ tokens' = tokens + amount
  /\ liquidity' = liquidity - amount
  /\ UNCHANGED <<debt, stuck>>

\* Forgetting that the pool pays the caller.
Forwarded_Nothing(amount) == 0

\* The pool pays the receiver, which passes this on to the wallet.
Forwarded(amount) == amount

LendingBorrow(amount) ==
  /\ Pull("credit", amount)
  /\ debt' = debt + amount
  /\ liquidity' = liquidity - amount
  /\ tokens' = tokens + Forwarded(amount)
  /\ stuck' = stuck + (amount - Forwarded(amount))
  /\ UNCHANGED aTokens

\* The pool takes no more than the debt; what was pulled beyond it stays.
LendingRepay(amount) ==
  LET paid == IF amount <= debt THEN amount ELSE debt IN
  /\ Pull("token", amount)
  /\ tokens' = tokens - amount
  /\ debt' = debt - paid
  /\ liquidity' = liquidity + paid
  /\ stuck' = stuck + (amount - paid)
  /\ UNCHANGED aTokens

LendingOnReport(operation, amount) ==
  \/ operation = "SUPPLY" /\ LendingSupply(amount)
  \/ operation = "WITHDRAW" /\ LendingWithdraw(amount)
  \/ operation = "BORROW" /\ LendingBorrow(amount)
  \/ operation = "REPAY" /\ LendingRepay(amount)

-----------------------------------------------------------------------------
(* One execution of doLending.                                             *)

InFlightRepayments ==
  {s \in LendingSlots : lending[s].status = "pending" /\ lending[s].operation = "REPAY"}

\* A repayment that need not fit: more than the debt, or next to another one.
DoLending(s, operation, amount) ==
  /\ LendingOp
  /\ lending[s] = NoReport
  /\ lending' = [lending EXCEPT ![s] =
       [status |-> "pending", operation |-> operation, amount |-> amount]]
  /\ careless' = (careless \/ (operation = "REPAY" /\
                               (amount > debt \/ InFlightRepayments # {})))
  /\ UNCHANGED <<books, approved>>

\* The forwarder's transaction; it succeeds also when the receiver reverts.
ExecuteLending(s) ==
  LET report == lending[s] IN
  /\ report.status = "pending"
  /\ IF LendingAccepted(report.operation, report.amount)
       THEN /\ LendingOnReport(report.operation, report.amount)
            /\ lending' = [lending EXCEPT ![s].status = "executed"]
       ELSE /\ lending' = [lending EXCEPT ![s].status = "reverted"]
            /\ UNCHANGED <<books, approved>>
  /\ UNCHANGED <<careless, lendingOps>>

LoseLending(s) ==
  /\ lending[s].status = "pending"
  /\ lending' = [lending EXCEPT ![s].status = "failed"]
  /\ UNCHANGED <<books, approved, careless, lendingOps>>

\* The execution returns: a success unless the transaction failed.  Nothing it
\* returns is used again.
LendingResponse(s) ==
  /\ lending[s].status \in {"executed", "reverted", "failed"}
  /\ lending' = [lending EXCEPT ![s] = NoReport]
  /\ UNCHANGED <<books, approved, careless, lendingOps>>

LendingNext ==
  \/ \E kind \in {"token", "aToken", "credit"}, amount \in 0 .. MaxLending :
       ApproveReceiver(kind, amount)
  \/ Accrue
  \/ \E s \in LendingSlots :
       \/ \E operation \in Operations, amount \in 0 .. MaxLending :
            DoLending(s, operation, amount)
       \/ ExecuteLending(s)
       \/ LoseLending(s)
       \/ LendingResponse(s)

LendingSpec == LendingInit /\ [][LendingNext]_lendingVars

-----------------------------------------------------------------------------
(* Properties.                                                             *)

\* The receiver, which has no way to give tokens back, keeps none as long as
\* each repayment was within the debt when it was asked for and no two
\* repayments were under way together: a withdrawal or a loan between asking
\* and paying, interest, and reports landing late leave nothing behind.
NothingStaysBehind == ~careless => stuck = 0

=============================================================================
