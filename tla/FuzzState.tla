----------------------------- MODULE FuzzState -----------------------------
(***************************************************************************)
(* arbitrary_fuzz_state (fuzz_props/src/generators.rs): the loop that      *)
(* draws the public accounts of a fuzz iteration.                          *)
(***************************************************************************)
EXTENDS Genesis

VARIABLES
    n,          \* number of draws, 0 before it is drawn
    drawn,      \* iterations of the loop done
    seen,       \* ids drawn so far that are not reserved
    accounts,   \* accounts kept so far
    gpc         \* "start", "draw", "ok" (accounts returned) or "err" (input ran out)

gvars == <<n, drawn, seen, accounts, gpc>>

GenTypeOK ==
    /\ n \in 0..MaxAccounts
    /\ drawn \in 0..n
    /\ seen \subseteq AccountIds
    /\ accounts \in Seq(FuzzAccount)
    /\ gpc \in {"start", "draw", "ok", "err"}

GenInit ==
    /\ n = 0
    /\ drawn = 0
    /\ seen = {}
    /\ accounts = <<>>
    /\ gpc = "start"

\* let n = u8::arbitrary(u)? % 8 + 1
DrawCount ==
    /\ gpc = "start"
    /\ n' \in 1..MaxAccounts
    /\ gpc' = "draw"
    /\ UNCHANGED <<drawn, seen, accounts>>

\* MUTANT of Kept: the reserved ids are not excluded.
Kept_ReservedAllowed(id) == id \notin seen

\* MUTANT of Kept: duplicates are not excluded.
Kept_DuplicatesAllowed(id) == id \notin Reserved

\* MUTANT of Balance: no cap on the drawn balance.
Balance_Uncapped(raw) == raw

\* MUTANT of Balance: the raw balance is multiplied.
Balance_Scaled(raw) == raw * CapDivisor

\* A drawn id is skipped when genesis would overwrite it or merge it.
Kept(id) == id \notin Reserved /\ id \notin seen

\* u128::arbitrary(u)? / 8
Balance(raw) == raw \div CapDivisor

\* One loop iteration.  The || short-circuits: a reserved id never enters seen.
DrawAccount(id, raw) ==
    /\ gpc = "draw"
    /\ drawn < n
    /\ drawn' = drawn + 1
    /\ seen' = IF id \in Reserved THEN seen ELSE seen \cup {id}
    /\ accounts' = IF Kept(id)
                   THEN Append(accounts, [account_id |-> id, balance |-> Balance(raw)])
                   ELSE accounts
    /\ UNCHANGED <<n, gpc>>

\* Ok(accounts)
ReturnAccounts ==
    /\ gpc = "draw"
    /\ drawn = n
    /\ gpc' = "ok"
    /\ UNCHANGED <<n, drawn, seen, accounts>>

\* Any of the ? operators: Unstructured has no bytes left for the draw.
InputTooShort ==
    /\ gpc \in {"start", "draw"}
    /\ drawn < n \/ gpc = "start"
    /\ gpc' = "err"
    /\ UNCHANGED <<n, drawn, seen, accounts>>

GenNext ==
    \/ DrawCount
    \/ \E id \in AccountIds, raw \in U128 : DrawAccount(id, raw)
    \/ ReturnAccounts
    \/ InputTooShort

GenSpec == GenInit /\ [][GenNext]_gvars

-----------------------------------------------------------------------------
\* Callers start from a member of FuzzStates: the accounts returned have
\* distinct, unreserved ids and capped balances (generators.rs, the
\* "Reserved-ID and duplicate exclusion" section).
GeneratorPromise == gpc = "ok" => accounts \in FuzzStates

\* Every generated balance survives genesis construction unchanged: reading the
\* account back from the genesis state yields the balance that was drawn, even
\* though genesis_state inserts system accounts afterwards.
BalancesSurviveGenesis ==
    gpc = "ok" => \A i \in DOMAIN accounts :
        Genesis(accounts)[accounts[i].account_id] = Funded(accounts[i].balance)

\* The checked sums of the callers cannot overflow on the genesis state, whether
\* they add per generated account (starting_total) or per distinct id
\* (BalanceSnapshot): both give the same value and it fits in a u128.
GenesisTotalFits ==
    gpc = "ok" =>
        LET Read(id)   == Genesis(accounts)[id].balance
            perAccount == SumFunction([i \in DOMAIN accounts |-> Read(accounts[i].account_id)])
            perId      == SumFunction([id \in Ids(accounts) |-> Read(id)])
        IN perAccount = perId /\ perAccount <= MaxU
=============================================================================
