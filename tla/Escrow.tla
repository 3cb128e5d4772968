------------------------------- MODULE Escrow -------------------------------
(***************************************************************************)
(* What the marketplace promises about money and goods, with no word of    *)
(* tasks' states, reviews, reservations, keys or requests in flight.       *)
(*                                                                         *)
(* Accounts have purses.  A pot is filled by one payer at a time and can   *)
(* have items pledged to it.  What is in a pot leaves it in three ways     *)
(* only: an award takes everything out at once, a part to a worker and the *)
(* rest back to the payer; a compensation pays a worker a part and leaves  *)
(* the rest; a return gives everything back.  Nobody spends more than they *)
(* have, and credits come from nowhere but an issue.                       *)
(***************************************************************************)
EXTENDS Integers

CONSTANTS
    Accounts,  \* holders of purses
    Pots,
    Items,
    Start,     \* credits in a purse at first
    None       \* no payer, or no pot

VARIABLES
    purse,   \* [Accounts -> Nat]
    pot,     \* [Pots -> Nat]
    payer,   \* [Pots -> Accounts or None]
    owner,   \* [Items -> Accounts]
    pledge,  \* [Items -> Pots or None]
    issued   \* credits added to purses from outside

vars == <<purse, pot, payer, owner, pledge, issued>>

Init ==
    /\ purse = [a \in Accounts |-> Start]
    /\ pot = [p \in Pots |-> 0]
    /\ payer = [p \in Pots |-> None]
    /\ owner \in [Items -> Accounts]
    /\ pledge = [c \in Items |-> None]
    /\ issued = 0

\* The purses m once n credits were put in a's.
Credited(m, a, n) == IF a \in Accounts THEN [m EXCEPT ![a] = @ + n] ELSE m

\* v adds n credits of its own for w.
Tipped(m, v, w, n) == Credited(Credited(m, v, -n), w, n)
CanTip(m, v, n) == n > 0 => m[v] >= n

\* Everything in pot p leaves it.
Emptied(p) ==
    /\ pot' = [pot EXCEPT ![p] = 0]
    /\ payer' = [payer EXCEPT ![p] = None]
    /\ pledge' = [c \in Items |-> IF pledge[c] = p THEN None ELSE pledge[c]]

Deposit(p, a, n) ==
    /\ pot[p] = 0
    /\ 0 < n /\ n <= purse[a]
    /\ pot' = [pot EXCEPT ![p] = n]
    /\ payer' = [payer EXCEPT ![p] = a]
    /\ purse' = Credited(purse, a, -n)
    /\ UNCHANGED <<owner, pledge, issued>>

\* Items of one owner that no pot holds.
Pledge(p, a, chosen) ==
    /\ \A c \in chosen : owner[c] = a /\ pledge[c] = None
    /\ pledge' = [c \in Items |-> IF c \in chosen THEN p ELSE pledge[c]]
    /\ UNCHANGED <<purse, pot, payer, owner, issued>>

\* n credits and all items go to w, the rest back to the payer; the awarder v
\* may add credits and an item of its own.
Award(p, w, n, v, tip, gift) ==
    LET settled == Credited(Credited(purse, w, n), payer[p], pot[p] - n)
        awarded == [c \in Items |-> IF pledge[c] = p THEN w ELSE owner[c]]
    IN  /\ n <= pot[p]
        /\ CanTip(settled, v, tip)
        /\ purse' = Tipped(settled, v, w, tip)
        /\ \A c \in gift : awarded[c] \in {v, w} /\ pledge[c] \in {None, p}
        /\ owner' = [c \in Items |-> IF c \in gift THEN w ELSE awarded[c]]
        /\ Emptied(p)
        /\ UNCHANGED issued

Compensate(p, w, n, v, tip) ==
    LET paid == Credited(purse, w, n)
    IN  /\ n <= pot[p]
        /\ pot' = [pot EXCEPT ![p] = @ - n]
        /\ payer' = [payer EXCEPT ![p] = IF pot[p] = n THEN None ELSE @]
        /\ CanTip(paid, v, tip)
        /\ purse' = Tipped(paid, v, w, tip)
        /\ UNCHANGED <<owner, pledge, issued>>

Return(p) ==
    /\ purse' = Credited(purse, payer[p], pot[p])
    /\ Emptied(p)
    /\ UNCHANGED <<owner, issued>>

Send(a, b, n) ==
    /\ n <= purse[a]
    /\ purse' = Tipped(purse, a, b, n)
    /\ UNCHANGED <<pot, payer, owner, pledge, issued>>

\* Somebody in charge adds credits to a purse.
Issue(a) ==
    /\ issued' > issued
    /\ purse' = Credited(purse, a, issued' - issued)
    /\ UNCHANGED <<pot, payer, owner, pledge>>

Give(c, a) ==
    /\ pledge[c] = None
    /\ owner' = [owner EXCEPT ![c] = a]
    /\ UNCHANGED <<purse, pot, payer, pledge, issued>>

PotStep(p) ==
    \/ \E a \in Accounts : \E n \in 1..purse[a] : Deposit(p, a, n)
    \/ \E a \in Accounts, chosen \in SUBSET Items : Pledge(p, a, chosen)
    \/ \E w, v \in Accounts :
         \E n \in 0..pot[p], tip \in 0..purse[v] + pot[p] :
           \/ \E gift \in SUBSET Items : Award(p, w, n, v, tip, gift)
           \/ Compensate(p, w, n, v, tip)
    \/ Return(p)

Next ==
    \/ \E p \in Pots : PotStep(p)
    \/ \E a, b \in Accounts : \E n \in 1..purse[a] : Send(a, b, n)
    \/ \E a \in Accounts : Issue(a)
    \/ \E c \in Items, a \in Accounts : Give(c, a)

Spec == Init /\ [][Next]_vars
=============================================================================
