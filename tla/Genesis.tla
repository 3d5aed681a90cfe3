------------------------------ MODULE Genesis ------------------------------
(***************************************************************************)
(* genesis_state (fuzz_props/src/genesis.rs): how generated accounts are   *)
(* stored in the ledger, and FuzzStates, what the generator                *)
(* arbitrary_fuzz_state (fuzz_props/src/generators.rs) promises its        *)
(* callers.  The harness modules start from any member of FuzzStates;      *)
(* module FuzzState shows that the generator returns nothing else.         *)
(***************************************************************************)
EXTENDS V03State, Sequences, FiniteSetsExt

CONSTANTS
    MaxAccounts,     \* u8 % 8 + 1: at most 8 accounts
    CapDivisor       \* u128 / 8: the divisor of the balance cap

ASSUME GeneratorAssumption ==
    /\ MaxAccounts \in Nat \ {0}
    /\ CapDivisor \in Nat \ {0}
    /\ MaxAccounts <= CapDivisor

FuzzAccount == [account_id : AccountIds, balance : U128]

\* The ids of a generated sequence of accounts.
Ids(accs) == {accs[i].account_id : i \in DOMAIN accs}

\* The largest balance the generator can draw.
BalanceCap == MaxU \div CapDivisor

-----------------------------------------------------------------------------
\* genesis_state: with_public_accounts collects (id, account) pairs into a map,
\* the supplied balances first and the system accounts last, so that a later
\* pair overwrites an earlier one with the same id.
SystemAccount(id) == IF id = Bridge THEN Funded(MaxU) ELSE DefaultAccount

LastIndex(accs, id) ==
    CHOOSE i \in DOMAIN accs :
        /\ accs[i].account_id = id
        /\ \A j \in DOMAIN accs : accs[j].account_id = id => j <= i

Genesis(accs) ==
    [id \in AccountIds |->
        IF id \in Reserved THEN SystemAccount(id)
        ELSE IF id \in Ids(accs) THEN Funded(accs[LastIndex(accs, id)].balance)
        ELSE DefaultAccount]

-----------------------------------------------------------------------------
\* What arbitrary_fuzz_state promises: at most MaxAccounts accounts with
\* distinct ids, none of them reserved, every balance under the cap.
Distinct(accs) ==
    \A i, j \in DOMAIN accs : accs[i].account_id = accs[j].account_id => i = j

FuzzStates ==
    {accs \in UNION {[1..k -> [account_id : AccountIds \ Reserved, balance : 0..BalanceCap]]
                        : k \in 0..MaxAccounts} :
        Distinct(accs)}
=============================================================================
