------------------------------- MODULE Market -------------------------------
(***************************************************************************)
(* The market program (programs/market/src/lib.rs): protocol configuration *)
(* and fee, market accounts that are their own vaults, positions, claims,  *)
(* the creator's bond, void and close.  One action is one instruction: the *)
(* Solana runtime executes it atomically and reverts it when a require!, a *)
(* checked subtraction or the rent rule fails, so every failing path is a  *)
(* step that does not happen.                                              *)
(*                                                                         *)
(* A program-derived address stands for the tuple it is derived from: a    *)
(* market is an element of Markets (match, kind, team, parameter), and a   *)
(* position is a pair of a market and its owner.  An address without an    *)
(* account is NoAccount; closing the account leaves the address free to be *)
(* created again, which create_market's `init` allows.                     *)
(***************************************************************************)
EXTENDS Integers, FiniteSets

CONSTANTS
    Users,        \* wallets; any of them can create, bet, void and close
    SessionKeys,  \* session keypairs a wallet can delegate to
    Markets,      \* market addresses
    Validators,   \* validator programs (oracles)
    NoAccount,    \* what an address without an account holds
    Amounts,      \* stakes and session funds an instruction may name
    FeeRates,     \* fee_bps arguments of initialize_protocol
    CloseTimes,   \* closes_at arguments of create_market
    InitialLamports, \* what a wallet owns before it uses the protocol
    MinBond,      \* MIN_BOND_LAMPORTS
    Rent,         \* rent-exempt minimum of a market account
    GracePeriod,  \* GRACE_PERIOD_SECONDS
    CloseGrace,   \* MARKET_CLOSE_GRACE_SECONDS
    MaxClock,     \* bound on the modelled time
    MaxVerifications \* bound on the verification counter

VARIABLES
    clock,     \* Clock::get()?.unix_timestamp
    config,    \* the ProtocolConfig account
    market,    \* the Market account at each market address
    vault,     \* lamports of the market account, which is the vault
    position,  \* the Position account of each market and owner
    lamports,  \* lamports of wallets and session keys
    treasury   \* fees received by the treasury address

marketVars == <<clock, config, market, vault, position, lamports, treasury>>

SIDE_YES == "yes"
SIDE_NO == "no"
OUTCOME_VOID == "void"
Sides == {SIDE_YES, SIDE_NO}
OtherSide(side) == IF side = SIDE_YES THEN SIDE_NO ELSE SIDE_YES

STATUS_OPEN == "open"
STATUS_AWAITING == "awaiting"
STATUS_SETTLED == "settled"
STATUS_VOID == "void"
Unsettled == {STATUS_OPEN, STATUS_AWAITING}
Resolved == {STATUS_SETTLED, STATUS_VOID}

MaxFeeBps == 500
BpsDenominator == 10000

ASSUME MarketAssumption ==
    /\ IsFiniteSet(Users) /\ IsFiniteSet(SessionKeys) /\ IsFiniteSet(Markets)
    /\ Users \cap SessionKeys = {}
    /\ Amounts \subseteq Nat
    /\ FeeRates \subseteq Nat
    /\ CloseTimes \subseteq Nat
    /\ {InitialLamports, MinBond, Rent, GracePeriod, CloseGrace,
        MaxClock, MaxVerifications} \subseteq Nat

Protocol == [authority: Users, feeBps: 0..MaxFeeBps]

MarketAccount ==
    [creator: Users, oracle: Validators, bondClaimed: BOOLEAN,
     pool: [Sides -> Nat], closesAt: Nat, settlesAt: Nat,
     status: Unsettled \cup Resolved, outcome: Sides \cup {OUTCOME_VOID},
     feeBps: 0..MaxFeeBps, verifications: Nat]

Position == [side: Sides, amount: Nat]

(* NoAccount is no account: it differs from everything an address holds.   *)
ASSUME NoAccountAssumption ==
    /\ NoAccount \notin Protocol
    /\ NoAccount \notin MarketAccount

-----------------------------------------------------------------------------
MarketInit ==
    /\ clock = 0
    /\ config = NoAccount
    /\ market = [m \in Markets |-> NoAccount]
    /\ vault = [m \in Markets |-> 0]
    /\ position = [m \in Markets |-> [u \in Users |->
                      [side |-> SIDE_YES, amount |-> 0]]]
    /\ lamports = [k \in Users \cup SessionKeys |->
                      IF k \in Users THEN InitialLamports ELSE 0]
    /\ treasury = 0

Exists(m) == market[m] # NoAccount

(* The cluster's clock advances between transactions.                      *)
Tick ==
    /\ clock < MaxClock
    /\ clock' = clock + 1
    /\ UNCHANGED <<config, market, vault, position, lamports, treasury>>

FeeAllowed_Unbounded(feeBps) == feeBps <= BpsDenominator   \* mutant
FeeAllowed(feeBps) == feeBps <= MaxFeeBps

InitializeProtocol(u, feeBps) ==
    /\ config = NoAccount
    /\ FeeAllowed(feeBps)
    /\ config' = [authority |-> u, feeBps |-> feeBps]
    /\ UNCHANGED <<clock, market, vault, position, lamports, treasury>>

(* create_market: `init` needs a free address; rent and bond move from the *)
(* creator into the account, and the fee is a snapshot of the config.      *)
CreateMarket(u, m, oracle, closesAt) ==
    /\ config # NoAccount
    /\ ~Exists(m)
    /\ closesAt > clock
    /\ lamports[u] >= Rent + MinBond
    /\ market' = [market EXCEPT ![m] =
          [creator |-> u, oracle |-> oracle, bondClaimed |-> FALSE,
           pool |-> [s \in Sides |-> 0], closesAt |-> closesAt,
           settlesAt |-> 0, status |-> STATUS_OPEN, outcome |-> OUTCOME_VOID,
           feeBps |-> config.feeBps, verifications |-> 0]]
    /\ vault' = [vault EXCEPT ![m] = @ + Rent + MinBond]
    /\ lamports' = [lamports EXCEPT ![u] = @ - (Rent + MinBond)]
    /\ UNCHANGED <<clock, config, position, treasury>>

-----------------------------------------------------------------------------
(* apply_join, with the transfer both join instructions make before it:    *)
(* `payer` stakes into the vault, the position belongs to `owner`, and an  *)
(* existing position only accepts its own side.                            *)
AcceptsBets_LateBets(m) ==   \* mutant: closes_at is not read
    /\ Exists(m)
    /\ market[m].status = STATUS_OPEN
AcceptsBets(m) ==
    /\ Exists(m)
    /\ market[m].status = STATUS_OPEN
    /\ clock < market[m].closesAt

KeepsSide_Merges(m, owner, side) == TRUE   \* mutant: no AlreadyJoinedOtherSide
KeepsSide(m, owner, side) ==
    position[m][owner].amount = 0 \/ position[m][owner].side = side

ApplyJoin(payer, owner, m, side, amount) ==
    /\ lamports[payer] >= amount
    /\ KeepsSide(m, owner, side)
    /\ market' = [market EXCEPT ![m].pool[side] = @ + amount]
    /\ position' = [position EXCEPT ![m][owner] =
                       [side |-> side, amount |-> @.amount + amount]]
    /\ vault' = [vault EXCEPT ![m] = @ + amount]
    /\ lamports' = [lamports EXCEPT ![payer] = @ - amount]

JoinViaWallet(u, m, side, amount) ==
    /\ amount > 0
    /\ AcceptsBets(m)
    /\ ApplyJoin(u, u, m, side, amount)
    /\ UNCHANGED <<clock, config, treasury>>

-----------------------------------------------------------------------------
Settleable_Again(m) == Exists(m)   \* mutant: no AlreadySettled
Settleable(m) == Exists(m) /\ market[m].status \in Unsettled

Settle(m, outcome) ==
    /\ Settleable(m)
    /\ market' = [market EXCEPT ![m].status = STATUS_SETTLED,
                                ![m].outcome = outcome,
                                ![m].settlesAt = clock]
    /\ UNCHANGED <<clock, config, vault, position, lamports, treasury>>

(* force_settle: the protocol authority names the outcome.                 *)
ForceSettle(u, m, outcome) ==
    /\ config # NoAccount
    /\ config.authority = u
    /\ Settle(m, outcome)

(* verify_resolution_receipt: `receipt` is what the canonical resolution   *)
(* address of the market holds.                                            *)
ReceiptSettles_AnyOracle(receipt, m, outcome) ==   \* mutant: no oracle binding
    /\ receipt # NoAccount
    /\ receipt.outcome = outcome
ReceiptSettles(receipt, m, outcome) ==
    /\ receipt # NoAccount
    /\ receipt.outcome = outcome
    /\ receipt.validator = market[m].oracle

SettleFromProof(m, outcome, receipt) ==
    /\ Exists(m)
    /\ ReceiptSettles(receipt, m, outcome)
    /\ Settle(m, outcome)

Voidable_Early(m) ==   \* mutant: does not wait for the grace period
    /\ Exists(m)
    /\ market[m].status \notin Resolved
    /\ clock > market[m].closesAt
Voidable_Awaiting(m) ==   \* mutant: waits for a status nothing ever sets
    /\ Exists(m)
    /\ market[m].status = STATUS_AWAITING
    /\ clock > market[m].closesAt + GracePeriod
Voidable(m) ==
    /\ Exists(m)
    /\ market[m].status \notin Resolved
    /\ clock > market[m].closesAt + GracePeriod

VoidMarket(m) ==
    /\ Voidable(m)
    /\ market' = [market EXCEPT ![m].status = STATUS_VOID,
                                ![m].outcome = OUTCOME_VOID,
                                ![m].settlesAt = clock]
    /\ UNCHANGED <<clock, config, vault, position, lamports, treasury>>

AttestVerification(m) ==
    /\ Exists(m)
    /\ market[m].status = STATUS_SETTLED
    /\ market[m].verifications < MaxVerifications
    /\ market' = [market EXCEPT ![m].verifications = @ + 1]
    /\ UNCHANGED <<clock, config, vault, position, lamports, treasury>>

-----------------------------------------------------------------------------
(* What a claim takes out of the vault: the stake and, for a winner, the   *)
(* floor of its share of the losing pool; the fee is the floor of a        *)
(* fraction of both.                                                       *)
LosingShare_RoundsUp(acct, stake) ==   \* mutant
    LET winning == acct.pool[acct.outcome]
        losing == acct.pool[OtherSide(acct.outcome)]
    IN  IF winning > 0 THEN (stake * losing + winning - 1) \div winning ELSE 0
LosingShare_OfBoth(acct, stake) ==   \* mutant: a share of both pools
    LET winning == acct.pool[acct.outcome]
        losing == acct.pool[OtherSide(acct.outcome)]
    IN  IF winning > 0 THEN (stake * losing) \div (winning + losing) ELSE 0
LosingShare(acct, stake) ==
    LET winning == acct.pool[acct.outcome]
        losing == acct.pool[OtherSide(acct.outcome)]
    IN  IF winning > 0 THEN (stake * losing) \div winning ELSE 0

Gross(acct, pos) ==
    IF acct.status = STATUS_VOID
    THEN pos.amount
    ELSE IF pos.side = acct.outcome
         THEN pos.amount + LosingShare(acct, pos.amount)
         ELSE 0

Fee(acct, gross) ==
    IF acct.status = STATUS_VOID
    THEN 0
    ELSE (gross * acct.feeBps) \div BpsDenominator

(* Lamports leave the market account by a checked subtraction, and the     *)
(* runtime rejects a transaction that leaves an account below rent         *)
(* exemption.  (It would accept an account drained to exactly zero, which  *)
(* only a claim against a later account could ask for; left out.)          *)
CanDebit(m, amount) == vault[m] - amount >= Rent

ClaimDebit_WithoutFee(payout, fee) == payout   \* mutant
ClaimDebit(payout, fee) == payout + fee

(* claim, for a refund, a loser and a winner: each zeroes the position.    *)
Claim(u, m) ==
    /\ Exists(m)
    /\ market[m].status \in Resolved
    /\ position[m][u].amount > 0
    /\ LET gross == Gross(market[m], position[m][u])
           fee == Fee(market[m], gross)
           payout == gross - fee
       IN  /\ CanDebit(m, ClaimDebit(payout, fee)) \/ gross = 0
           /\ vault' = [vault EXCEPT ![m] = @ - ClaimDebit(payout, fee)]
           /\ lamports' = [lamports EXCEPT ![u] = @ + payout]
           /\ treasury' = treasury + fee
    /\ position' = [position EXCEPT ![m][u].amount = 0]
    /\ UNCHANGED <<clock, config, market>>

ClaimBond(u, m) ==
    /\ Exists(m)
    /\ market[m].creator = u
    /\ market[m].status \in Resolved
    /\ ~market[m].bondClaimed
    /\ CanDebit(m, MinBond)
    /\ market' = [market EXCEPT ![m].bondClaimed = TRUE]
    /\ vault' = [vault EXCEPT ![m] = @ - MinBond]
    /\ lamports' = [lamports EXCEPT ![u] = @ + MinBond]
    /\ UNCHANGED <<clock, config, position, treasury>>

(* close_market: `close = creator` sweeps the whole balance and frees the  *)
(* address; the positions keep whatever they still hold.                   *)
ClaimsWindowOver_FromClose(m) == clock > market[m].closesAt + CloseGrace   \* mutant
ClaimsWindowOver(m) == clock > market[m].settlesAt + CloseGrace

CloseMarket(u, m) ==
    /\ Exists(m)
    /\ market[m].status \in Resolved
    /\ market[m].creator = u
    /\ ClaimsWindowOver(m)
    /\ market' = [market EXCEPT ![m] = NoAccount]
    /\ vault' = [vault EXCEPT ![m] = 0]
    /\ lamports' = [lamports EXCEPT ![u] = @ + vault[m]]
    /\ UNCHANGED <<clock, config, position, treasury>>

=============================================================================
