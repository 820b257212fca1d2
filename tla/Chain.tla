------------------------------- MODULE Chain -------------------------------
(***************************************************************************)
(* The programs on one chain: the market program with its session keys and *)
(* the settlement program whose receipts it reads.  Every instruction is   *)
(* open to every signer the program accepts, in every order.               *)
(*                                                                         *)
(* Four history variables record what the accounts forget.  No guard reads *)
(* them.  settledBy is the `mock` flag of the MarketSettled event.         *)
(***************************************************************************)
EXTENDS Settlement, Session, Totals

VARIABLES
    settledBy,    \* which instruction settled the present account
    inherited,    \* who already held a position when the account was created
    keyStake      \* what each grant has put into each market address

historyVars == <<settledBy, inherited, keyStake>>
vars == <<marketVars, resolution, grant, historyVars>>

SettledByKinds == {"none", "proof", "force"}

-----------------------------------------------------------------------------
Init ==
    /\ MarketInit
    /\ SettlementInit
    /\ SessionInit
    /\ settledBy = [m \in Markets |-> "none"]
    /\ inherited = [m \in Markets |-> {}]
    /\ keyStake = [u \in Users |-> [k \in SessionKeys |->
                      [m \in Markets |-> 0]]]

Quiet == UNCHANGED <<resolution, grant, historyVars>>

TickStep == Tick /\ Quiet

InitializeStep ==
    \E u \in Users, f \in FeeRates : InitializeProtocol(u, f) /\ Quiet

CreateStep ==
    \E u \in Users, m \in Markets, v \in Validators, c \in CloseTimes :
        /\ CreateMarket(u, m, v, c)
        /\ settledBy' = [settledBy EXCEPT ![m] = "none"]
        /\ inherited' = [inherited EXCEPT ![m] =
                            {w \in Users : position[m][w].amount > 0}]
        /\ UNCHANGED <<resolution, grant, keyStake>>

JoinStep ==
    \E u \in Users, m \in Markets, s \in Sides, a \in Amounts :
        JoinViaWallet(u, m, s, a) /\ Quiet

DelegateStep ==
    \E u \in Users, k \in SessionKeys, allows \in BOOLEAN,
       p \in StakeCaps, t \in TotalCaps, e \in ExpiryTimes, f \in Amounts :
        /\ DelegateSessionKey(u, k, allows, p, t, e, f)
        /\ keyStake' = [keyStake EXCEPT ![u][k] = [m \in Markets |-> 0]]
        /\ UNCHANGED <<resolution, settledBy, inherited>>

RevokeStep ==
    \E u \in Users, k \in SessionKeys :
        /\ RevokeSessionKey(u, k)
        /\ UNCHANGED <<resolution, historyVars>>

SessionJoinStep ==
    \E u \in Users, k \in SessionKeys, m \in Markets, s \in Sides,
       a \in Amounts :
        /\ JoinViaSessionKey(k, u, m, s, a)
        /\ keyStake' = [keyStake EXCEPT ![u][k][m] = @ + a]
        /\ UNCHANGED <<resolution, settledBy, inherited>>

ResolveStep ==
    \E m \in Markets, v \in Validators, o \in Sides, answer \in BOOLEAN :
        /\ ResolveMarket(m, v, o, answer)
        /\ UNCHANGED <<grant, historyVars>>

ForceSettleStep ==
    \E u \in Users, m \in Markets, o \in Sides :
        /\ ForceSettle(u, m, o)
        /\ settledBy' = [settledBy EXCEPT ![m] = "force"]
        /\ UNCHANGED <<resolution, grant, inherited, keyStake>>

ProofSettleStep ==
    \E m \in Markets, o \in Sides :
        /\ SettleFromProof(m, o, resolution[m])
        /\ settledBy' = [settledBy EXCEPT ![m] = "proof"]
        /\ UNCHANGED <<resolution, grant, inherited, keyStake>>

VoidStep == \E m \in Markets : VoidMarket(m) /\ Quiet

AttestStep == \E m \in Markets : AttestVerification(m) /\ Quiet

ClaimStep == \E u \in Users, m \in Markets : Claim(u, m) /\ Quiet

ClaimBondStep == \E u \in Users, m \in Markets : ClaimBond(u, m) /\ Quiet

CloseStep == \E u \in Users, m \in Markets : CloseMarket(u, m) /\ Quiet

Next ==
    \/ TickStep
    \/ InitializeStep
    \/ CreateStep
    \/ JoinStep
    \/ DelegateStep
    \/ RevokeStep
    \/ SessionJoinStep
    \/ ResolveStep
    \/ ForceSettleStep
    \/ ProofSettleStep
    \/ VoidStep
    \/ AttestStep
    \/ ClaimStep
    \/ ClaimBondStep
    \/ CloseStep

Spec == Init /\ [][Next]_vars

(* void_market needs no signature but a fee payer's, and the keepers call  *)
(* it in a loop, so a market that stays voidable is voided in the end.     *)
FairSpec ==
    /\ Spec
    /\ WF_vars(TickStep)
    /\ \A m \in Markets : WF_vars(VoidMarket(m) /\ Quiet)

-----------------------------------------------------------------------------
(* What the positions on one side hold.                                    *)
OnSide(pos, side) == IF pos.side = side THEN pos.amount ELSE 0
StakeOn(m, side) == [u \in Users |-> OnSide(position[m][u], side)]

BondDue(m) == IF market[m].bondClaimed THEN 0 ELSE MinBond

(* A market whose account started with no stake held at its address.       *)
Fresh(m) == Exists(m) /\ inherited[m] = {}

-----------------------------------------------------------------------------
(* Every account holds a value of its type.                                *)
TypeOK ==
    /\ clock \in Nat
    /\ config \in Protocol \cup {NoAccount}
    /\ market \in [Markets -> MarketAccount \cup {NoAccount}]
    /\ vault \in [Markets -> Nat]
    /\ position \in [Markets -> [Users -> Position]]
    /\ lamports \in [Users \cup SessionKeys -> Nat]
    /\ treasury \in Nat
    /\ resolution \in [Markets -> Receipt \cup {NoAccount}]
    /\ grant \in [Users -> [SessionKeys -> Grant \cup {NoAccount}]]
    /\ settledBy \in [Markets -> SettledByKinds]
    /\ inherited \in [Markets -> SUBSET Users]
    /\ keyStake \in [Users -> [SessionKeys -> [Markets -> Nat]]]

(* While a market is unsettled its two pools are exactly the positions on  *)
(* their sides, and its vault is exactly rent, bond and both pools: the    *)
(* joins by wallet and by session key keep three accounts in step.         *)
PoolsBacked ==
    \A m \in Markets : Fresh(m) /\ market[m].status \in Unsettled =>
        /\ \A s \in Sides : market[m].pool[s] = Total(StakeOn(m, s))
        /\ vault[m] = Rent + MinBond + market[m].pool[SIDE_YES]
                                     + market[m].pool[SIDE_NO]

(* In every state of a resolved market, the vault pays whichever claim     *)
(* comes next in full and still covers rent and the bond that is owed: the *)
(* floor divisions of claim never let one claimant take another's share,   *)
(* in whatever order they come.                                            *)
Solvent ==
    \A m \in Markets, u \in Users :
        Fresh(m) /\ market[m].status \in Resolved =>
            vault[m] >= Rent + BondDue(m) + Gross(market[m], position[m][u])

(* What the positions that are not claimed yet are worth together.         *)
Unclaimed(m) ==
    IF market[m].status = STATUS_VOID
    THEN Total(StakeOn(m, SIDE_YES)) + Total(StakeOn(m, SIDE_NO))
    ELSE LET stake == Total(StakeOn(m, market[m].outcome))
         IN  stake + LosingShare(market[m], stake)

(* A resolved account holds its rent, the bond until it is claimed and what*)
(* the unclaimed positions are worth, the residue that close_market sweeps *)
(* (lib.rs:558-562), and at most one lamport more for each wallet, from    *)
(* the floors of claim.  (A market settled for a side nobody bet on keeps  *)
(* its whole losing pool: lib.rs:461.)                                     *)
OnlyResidueIsLeft ==
    \A m \in Markets : Fresh(m) /\ market[m].status \in Resolved =>
        LET owed == Rent + BondDue(m) + Unclaimed(m)
        IN  /\ vault[m] >= owed
            /\ market[m].status = STATUS_VOID => vault[m] = owed
            /\ market[m].status = STATUS_SETTLED
                  /\ market[m].pool[market[m].outcome] > 0 =>
                     vault[m] <= owed + Cardinality(Users)

(* No instruction creates or destroys lamports.                            *)
Conservation ==
    treasury + Total(lamports) + Total(vault)
        = Cardinality(Users) * InitialLamports

(* A market settled without the authority was settled by a receipt of its  *)
(* own address that names its outcome and the oracle its creator chose.    *)
ProofGated ==
    \A m \in Markets : Exists(m) /\ settledBy[m] = "proof" =>
        /\ market[m].status = STATUS_SETTLED
        /\ resolution[m] # NoAccount
        /\ resolution[m].outcome = market[m].outcome
        /\ resolution[m].validator = market[m].oracle

(* The loss limit of a session key: what a live grant has put into the     *)
(* markets is within its total cap.                                        *)
LossLimit ==
    \A u \in Users, k \in SessionKeys :
        grant[u][k] # NoAccount /\ grant[u][k].maxTotalStake > 0 =>
            Total(keyStake[u][k]) <= grant[u][k].maxTotalStake

-----------------------------------------------------------------------------
(* Settlement and void are final: until its account is closed, a resolved  *)
(* market keeps its verdict, the time its claims window runs from, and     *)
(* the pools its payouts are computed from.                                *)
ResolvedIsFinal ==
    [][\A m \in Markets :
         Exists(m) /\ market[m].status \in Resolved /\ market'[m] # NoAccount =>
            /\ market'[m].status = market[m].status
            /\ market'[m].outcome = market[m].outcome
            /\ market'[m].settlesAt = market[m].settlesAt
            /\ market'[m].pool = market[m].pool]_vars

(* No bet is taken on a market that is resolved or past its closing time,  *)
(* by either way of joining.                                               *)
BetsFrozen ==
    [][\A m \in Markets, u \in Users :
         position'[m][u].amount > position[m][u].amount =>
            Exists(m) /\ market[m].status = STATUS_OPEN
                      /\ clock < market[m].closesAt]_vars

(* Stake leaves a position only by a claim against a resolved market, and  *)
(* an account disappears only when its claims window is over.              *)
ClaimsWindow ==
    [][\A m \in Markets :
         /\ (\E u \in Users :
                position'[m][u].amount < position[m][u].amount) =>
                Exists(m) /\ market[m].status \in Resolved
         /\ Exists(m) /\ market'[m] = NoAccount =>
                /\ market[m].status \in Resolved
                /\ clock > market[m].settlesAt + CloseGrace]_vars

(* Every market is resolved in the end, with or without a receipt.         *)
EventuallyResolved ==
    \A m \in Markets :
        (Exists(m) /\ market[m].status \in Unsettled)
            ~> (Exists(m) /\ market[m].status \in Resolved)

-----------------------------------------------------------------------------
(* claim: in a voided market everyone gets the stake back, so whoever bet  *)
(* on the present account can be refunded from it.                         *)
VoidRefundsEveryone ==
    \A m \in Markets, u \in Users :
        Exists(m) /\ market[m].status = STATUS_VOID /\ u \notin inherited[m] =>
            vault[m] >= Rent + position[m][u].amount

=============================================================================
