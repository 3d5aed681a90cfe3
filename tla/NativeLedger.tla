---------------------------- MODULE NativeLedger ----------------------------
(***************************************************************************)
(* What a native-token ledger promises the owners of a set of accounts,    *)
(* independent of how a harness observes it: money moves only by a         *)
(* transfer from one account to another that the sender can afford and     *)
(* the recipient can hold, and each transfer consumes one nonce of the     *)
(* sender.  Once a deviation is reported nothing more is promised.         *)
(***************************************************************************)
EXTENDS Integers

CONSTANTS AccountIds, MaxU

VARIABLES
    balance,    \* balance of each account
    nonce,      \* nonces consumed by each account
    reported    \* a deviation has been reported

ledgerVars == <<balance, nonce, reported>>

Init ==
    /\ \E ids \in SUBSET AccountIds :
           /\ balance \in [ids -> 0..MaxU]
           /\ nonce = [id \in ids |-> 0]
    /\ reported = FALSE

Transfer(from, to, amount) ==
    /\ from # to
    /\ amount <= balance[from]
    /\ balance[to] + amount <= MaxU
    /\ balance' = [balance EXCEPT ![from] = @ - amount, ![to] = @ + amount]
    /\ nonce' = [nonce EXCEPT ![from] = @ + 1]
    /\ reported' = FALSE

Next ==
    /\ ~reported
    /\ \/ \E from, to \in DOMAIN balance, amount \in 0..MaxU : Transfer(from, to, amount)
       \/ reported' = TRUE

Spec == Init /\ [][Next]_ledgerVars
=============================================================================
