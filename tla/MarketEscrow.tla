---------------------------- MODULE MarketEscrow ----------------------------
(***************************************************************************)
(* The marketplace implements Escrow.  A pot is what the ledger's own      *)
(* entries say is set aside for a task, not the task_funds row that the    *)
(* handlers read, so the step from one to the other is part of the claim.  *)
(***************************************************************************)
EXTENDS Marketplace

\* The task that holds a collectible.
Holder(c) == IF \E t \in Tasks : <<t, c>> \in held
             THEN CHOOSE t \in Tasks : <<t, c>> \in held
             ELSE None

Promise == INSTANCE Escrow WITH
    Pots <- Tasks,
    Items <- Collectibles,
    Start <- InitialCredits,
    purse <- balance,
    pot <- books,
    payer <- funder,
    owner <- cowner,
    pledge <- [c \in Collectibles |-> Holder(c)]

\* Every transaction of every handler moves credits and collectibles the way
\* Escrow allows: one payer per pot, everything out of it to a worker or back
\* to that payer, an award or a return that leaves nothing behind, and no
\* purse spent below zero.
ImplementsEscrow == Promise!Spec
=============================================================================
