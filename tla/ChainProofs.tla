---------------------------- MODULE ChainProofs -----------------------------
(***************************************************************************)
(* What is proved of Chain for every number of wallets, keys, markets and  *)
(* validators: types, verdicts, bets and the claims window, and that the   *)
(* programs implement MarketPromise.  Of its lamports, for every number of *)
(* bettors and every stake: pools are backed until the verdict, after it   *)
(* every claim and the bond are paid in full in every order, no            *)
(* instruction creates or destroys lamports, and a grant never spends past *)
(* its total cap.                                                          *)
(***************************************************************************)
EXTENDS ChainPromise, FiniteSetTheorems, TLAPS

-----------------------------------------------------------------------------
(* Arithmetic of a claim.                                                  *)

(* The floor share of a stake in the losing pool is a natural number.      *)
LEMMA LosingShareNat ==
    ASSUME NEW acct \in MarketAccount, NEW stake \in Nat, acct.outcome \in Sides
    PROVE  LosingShare(acct, stake) \in Nat
<1>1. acct.pool[acct.outcome] \in Nat /\ acct.pool[OtherSide(acct.outcome)] \in Nat
  BY DEF MarketAccount, OtherSide, Sides
<1>2. \A s, w, l \in Nat : w > 0 => (s * l) \div w \in Nat
  OBVIOUS
<1> QED
  BY <1>1, <1>2 DEF LosingShare

(* The fee never exceeds what it is taken from.                            *)
LEMMA FeeWithinGross ==
    ASSUME NEW acct \in MarketAccount, NEW gross \in Nat
    PROVE  Fee(acct, gross) \in Nat /\ gross - Fee(acct, gross) \in Nat
<1> DEFINE f == acct.feeBps
           product == gross * f
<1>1. f \in Nat /\ f <= 500
  BY DEF MarketAccount, MaxFeeBps
<1>2. product \in Nat /\ product <= gross * 500
  BY <1>1
<1> HIDE DEF product
<1>3. product \div 10000 \in 0..gross
  BY <1>2
<1> QED
  BY <1>3 DEF Fee, BpsDenominator, product

-----------------------------------------------------------------------------
(* The type invariant is inductive together with the fact that a market    *)
(* names a winning side exactly when it is settled: claim divides by the   *)
(* pool of that side.                                                      *)
VerdictNamesSide ==
    \A m \in Markets : Exists(m) =>
        (market[m].status = STATUS_SETTLED <=> market[m].outcome \in Sides)

TInv == TypeOK /\ VerdictNamesSide

(* What a position may claim, as soon as its market is resolved.           *)
LEMMA GrossNat ==
    ASSUME NEW acct \in MarketAccount, NEW pos \in Position,
           acct.status = STATUS_SETTLED => acct.outcome \in Sides,
           acct.status \in Resolved
    PROVE  Gross(acct, pos) \in Nat
<1>1. CASE acct.status = STATUS_VOID
  BY <1>1 DEF Gross, Position
<1>2. CASE acct.status = STATUS_SETTLED
  <2>1. LosingShare(acct, pos.amount) \in Nat
    BY <1>2, LosingShareNat DEF Position
  <2> QED
    BY <1>2, <2>1 DEF Gross, Position, STATUS_SETTLED, STATUS_VOID
<1> QED
  BY <1>1, <1>2 DEF Resolved

LEMMA TInvInit == Init => TInv
BY MarketAssumption
   DEF Init, MarketInit, SettlementInit, SessionInit, TInv, TypeOK,
       VerdictNamesSide, Exists, Position, Sides, SIDE_YES, SIDE_NO,
       SettledByKinds

(* The market account after an instruction that only sets its verdict.     *)
LEMMA SettleStep ==
    ASSUME TInv, NEW m \in Markets, NEW o \in Sides, Settle(m, o)
    PROVE  /\ market' \in [Markets -> MarketAccount \cup {NoAccount}]
           /\ VerdictNamesSide'
<1>1. market[m] \in MarketAccount /\ clock \in Nat
  BY DEF TInv, TypeOK, Settle, Settleable, Exists
<1>2. [market[m] EXCEPT !.status = STATUS_SETTLED, !.outcome = o,
                        !.settlesAt = clock] \in MarketAccount
  BY <1>1 DEF MarketAccount, Resolved
<1>3. market' = [market EXCEPT ![m] =
          [market[m] EXCEPT !.status = STATUS_SETTLED, !.outcome = o,
                            !.settlesAt = clock]]
  BY DEF Settle, TInv, TypeOK
<1>4. market' \in [Markets -> MarketAccount \cup {NoAccount}]
  BY <1>2, <1>3 DEF TInv, TypeOK
<1>5. ASSUME NEW n \in Markets, market'[n] # NoAccount
      PROVE  market'[n].status = STATUS_SETTLED <=> market'[n].outcome \in Sides
  <2>1. CASE n = m
    BY <2>1, <1>1, <1>3 DEF TInv, TypeOK, MarketAccount
  <2>2. CASE n # m
    BY <2>2, <1>3, <1>5 DEF TInv, TypeOK, VerdictNamesSide, Exists
  <2> QED
    BY <2>1, <2>2
<1> QED
  BY <1>4, <1>5 DEF VerdictNamesSide, Exists

(* A bet, whoever pays for it.                                             *)
LEMMA BetStep ==
    ASSUME TInv, NEW payer \in Users \cup SessionKeys, NEW owner \in Users,
           NEW m \in Markets, NEW side \in Sides, NEW amount \in Nat,
           AcceptsBets(m), ApplyJoin(payer, owner, m, side, amount)
    PROVE  /\ market' \in [Markets -> MarketAccount \cup {NoAccount}]
           /\ position' \in [Markets -> [Users -> Position]]
           /\ vault' \in [Markets -> Nat]
           /\ lamports' \in [Users \cup SessionKeys -> Nat]
           /\ VerdictNamesSide'
<1>1. market[m] \in MarketAccount
  BY DEF TInv, TypeOK, AcceptsBets, Exists
<1> DEFINE acct == [market[m] EXCEPT !.pool[side] = @ + amount]
<1>2. acct \in MarketAccount /\ acct.status = market[m].status
                             /\ acct.outcome = market[m].outcome
  BY <1>1 DEF MarketAccount
<1>3. market' = [market EXCEPT ![m] = acct]
  BY DEF ApplyJoin, TInv, TypeOK
<1> HIDE DEF acct
<1>4. market' \in [Markets -> MarketAccount \cup {NoAccount}]
  BY <1>2, <1>3 DEF TInv, TypeOK
<1>5. VerdictNamesSide'
  BY <1>1, <1>2, <1>3, NoAccountAssumption
     DEF TInv, TypeOK, VerdictNamesSide, Exists
<1>6. position' \in [Markets -> [Users -> Position]]
  <2>1. position[m][owner].amount \in Nat
    BY DEF TInv, TypeOK, Position
  <2>2. [side |-> side, amount |-> position[m][owner].amount + amount] \in Position
    BY <2>1 DEF Position
  <2> QED
    BY <2>2 DEF ApplyJoin, TInv, TypeOK
<1>7. vault' \in [Markets -> Nat]
  BY DEF ApplyJoin, TInv, TypeOK
<1>8. lamports' \in [Users \cup SessionKeys -> Nat]
  BY DEF ApplyJoin, TInv, TypeOK
<1> QED
  BY <1>4, <1>5, <1>6, <1>7, <1>8

LEMMA TInvStep == TInv /\ [Next]_vars => TInv'
<1> SUFFICES ASSUME TInv, [Next]_vars PROVE TInv'
  OBVIOUS
<1> USE DEF TInv
<1>1. CASE TickStep
  BY <1>1 DEF TickStep, Tick, Quiet, historyVars, TypeOK, VerdictNamesSide,
      Exists
<1>2. CASE InitializeStep
  <2>1. PICK u \in Users, f \in FeeRates : InitializeProtocol(u, f) /\ Quiet
    BY <1>2 DEF InitializeStep
  <2>2. f \in 0..MaxFeeBps
    BY <2>1, MarketAssumption DEF InitializeProtocol, FeeAllowed, MaxFeeBps
  <2>3. config' \in Protocol
    BY <2>1, <2>2 DEF InitializeProtocol, Protocol
  <2> QED
    BY <2>1, <2>3 DEF InitializeProtocol, Quiet, historyVars, TypeOK,
        VerdictNamesSide, Exists
<1>3. CASE CreateStep
  <2>1. PICK u \in Users, m \in Markets, v \in Validators, c \in CloseTimes :
          /\ CreateMarket(u, m, v, c)
          /\ settledBy' = [settledBy EXCEPT ![m] = "none"]
          /\ inherited' = [inherited EXCEPT ![m] =
                              {w \in Users : position[m][w].amount > 0}]
          /\ UNCHANGED <<resolution, grant, keyStake>>
    BY <1>3 DEF CreateStep
  <2>2. config \in Protocol /\ c \in Nat /\ Rent \in Nat /\ MinBond \in Nat
    BY <2>1, MarketAssumption DEF CreateMarket, TypeOK
  <2> DEFINE acct ==
          [creator |-> u, oracle |-> v, bondClaimed |-> FALSE,
           pool |-> [s \in Sides |-> 0], closesAt |-> c,
           settlesAt |-> 0, status |-> STATUS_OPEN, outcome |-> OUTCOME_VOID,
           feeBps |-> config.feeBps, verifications |-> 0]
  <2>3. acct \in MarketAccount
    BY <2>2 DEF MarketAccount, Protocol, Unsettled
  <2>4. acct.status # STATUS_SETTLED /\ acct.outcome \notin Sides
    BY DEF STATUS_OPEN, STATUS_SETTLED, OUTCOME_VOID, Sides, SIDE_YES, SIDE_NO
  <2>5. market' = [market EXCEPT ![m] = acct]
    BY <2>1 DEF CreateMarket
  <2> HIDE DEF acct
  <2>6. market' \in [Markets -> MarketAccount \cup {NoAccount}]
    BY <2>3, <2>5 DEF TypeOK
  <2>7. VerdictNamesSide'
    BY <2>4, <2>5 DEF TypeOK, VerdictNamesSide, Exists
  <2>8. lamports' \in [Users \cup SessionKeys -> Nat]
    BY <2>1, <2>2 DEF CreateMarket, TypeOK
  <2>9. vault' \in [Markets -> Nat]
    BY <2>1, <2>2 DEF CreateMarket, TypeOK
  <2> QED
    BY <2>1, <2>6, <2>7, <2>8, <2>9 DEF CreateMarket, TypeOK, SettledByKinds
<1>4. CASE JoinStep
  <2>1. PICK u \in Users, m \in Markets, s \in Sides, a \in Amounts :
          JoinViaWallet(u, m, s, a) /\ Quiet
    BY <1>4 DEF JoinStep
  <2>2. a \in Nat /\ AcceptsBets(m) /\ ApplyJoin(u, u, m, s, a)
    BY <2>1, MarketAssumption DEF JoinViaWallet
  <2> QED
    BY <2>1, <2>2, BetStep DEF JoinViaWallet, Quiet, historyVars, TypeOK
<1>5. CASE DelegateStep
  <2>1. PICK u \in Users, k \in SessionKeys, allows \in BOOLEAN,
             p \in StakeCaps, t \in TotalCaps, e \in ExpiryTimes, f \in Amounts :
          /\ DelegateSessionKey(u, k, allows, p, t, e, f)
          /\ keyStake' = [keyStake EXCEPT ![u][k] = [m \in Markets |-> 0]]
          /\ UNCHANGED <<resolution, settledBy, inherited>>
    BY <1>5 DEF DelegateStep
  <2>2. [allowsMarket |-> allows, maxStakePerMarket |-> p,
         maxTotalStake |-> t, stakedSoFar |-> 0, expiresAt |-> e] \in Grant
    BY SessionAssumption DEF Grant
  <2>3. grant' \in [Users -> [SessionKeys -> Grant \cup {NoAccount}]]
    BY <2>1, <2>2 DEF DelegateSessionKey, TypeOK
  <2>4. f \in Nat /\ lamports[u] - f \in Nat /\ lamports[k] + f \in Nat
    BY <2>1, MarketAssumption DEF DelegateSessionKey, TypeOK
  <2>5. lamports' \in [Users \cup SessionKeys -> Nat]
    <3>1. u # k
      BY MarketAssumption
    <3>2. lamports' = [lamports EXCEPT ![u] = lamports[u] - f,
                                       ![k] = lamports[k] + f]
      BY <2>1, <3>1 DEF DelegateSessionKey, TypeOK
    <3> QED
      BY <2>4, <3>2 DEF TypeOK
  <2>6. keyStake' \in [Users -> [SessionKeys -> [Markets -> Nat]]]
    BY <2>1 DEF TypeOK
  <2> QED
    BY <2>1, <2>3, <2>5, <2>6 DEF DelegateSessionKey, TypeOK, VerdictNamesSide,
        Exists
<1>6. CASE RevokeStep
  BY <1>6 DEF RevokeStep, RevokeSessionKey, marketVars, historyVars, TypeOK,
      VerdictNamesSide, Exists
<1>7. CASE SessionJoinStep
  <2>1. PICK u \in Users, k \in SessionKeys, m \in Markets, s \in Sides,
             a \in Amounts :
          /\ JoinViaSessionKey(k, u, m, s, a)
          /\ keyStake' = [keyStake EXCEPT ![u][k][m] = @ + a]
          /\ UNCHANGED <<resolution, settledBy, inherited>>
    BY <1>7 DEF SessionJoinStep
  <2>2. a \in Nat /\ AcceptsBets(m) /\ ApplyJoin(k, u, m, s, a)
    BY <2>1, MarketAssumption DEF JoinViaSessionKey
  <2>3. grant[u][k] \in Grant
    BY <2>1 DEF JoinViaSessionKey, TypeOK
  <2>4. [grant[u][k] EXCEPT !.stakedSoFar = @ + a] \in Grant
    BY <2>2, <2>3 DEF Grant
  <2>5. grant' = [grant EXCEPT ![u] = [grant[u] EXCEPT ![k] =
                     [grant[u][k] EXCEPT !.stakedSoFar = @ + a]]]
    BY <2>1 DEF JoinViaSessionKey, TypeOK
  <2>6. grant' \in [Users -> [SessionKeys -> Grant \cup {NoAccount}]]
    BY <2>4, <2>5 DEF TypeOK
  <2>7. keyStake' \in [Users -> [SessionKeys -> [Markets -> Nat]]]
    BY <2>1, <2>2 DEF TypeOK
  <2> QED
    BY <2>1, <2>2, <2>6, <2>7, BetStep DEF JoinViaSessionKey, TypeOK
<1>8. CASE ResolveStep
  BY <1>8 DEF ResolveStep, ResolveMarket, Receipt, marketVars, historyVars,
      TypeOK, VerdictNamesSide, Exists
<1>9. CASE ForceSettleStep
  <2>1. PICK u \in Users, m \in Markets, o \in Sides :
          /\ ForceSettle(u, m, o)
          /\ settledBy' = [settledBy EXCEPT ![m] = "force"]
          /\ UNCHANGED <<resolution, grant, inherited, keyStake>>
    BY <1>9 DEF ForceSettleStep
  <2>2. Settle(m, o)
    BY <2>1 DEF ForceSettle
  <2>3. /\ market' \in [Markets -> MarketAccount \cup {NoAccount}]
        /\ VerdictNamesSide'
    BY <2>2, SettleStep
  <2> QED
    BY <2>1, <2>2, <2>3 DEF Settle, TypeOK, SettledByKinds
<1>10. CASE ProofSettleStep
  <2>1. PICK m \in Markets, o \in Sides :
          /\ SettleFromProof(m, o, resolution[m])
          /\ settledBy' = [settledBy EXCEPT ![m] = "proof"]
          /\ UNCHANGED <<resolution, grant, inherited, keyStake>>
    BY <1>10 DEF ProofSettleStep
  <2>2. Settle(m, o)
    BY <2>1 DEF SettleFromProof
  <2>3. /\ market' \in [Markets -> MarketAccount \cup {NoAccount}]
        /\ VerdictNamesSide'
    BY <2>2, SettleStep
  <2> QED
    BY <2>1, <2>2, <2>3 DEF Settle, TypeOK, SettledByKinds
<1>11. CASE VoidStep
  <2>1. PICK m \in Markets : VoidMarket(m) /\ Quiet
    BY <1>11 DEF VoidStep
  <2>2. market[m] \in MarketAccount
    BY <2>1 DEF VoidMarket, Voidable, Exists, TypeOK
  <2> DEFINE acct == [market[m] EXCEPT !.status = STATUS_VOID,
                                       !.outcome = OUTCOME_VOID,
                                       !.settlesAt = clock]
  <2>3. acct \in MarketAccount
    BY <2>2 DEF MarketAccount, Resolved, TypeOK
  <2>4. acct.status # STATUS_SETTLED /\ acct.outcome \notin Sides
    BY <2>2 DEF MarketAccount, STATUS_VOID, STATUS_SETTLED, OUTCOME_VOID,
        Sides, SIDE_YES, SIDE_NO
  <2>5. market' = [market EXCEPT ![m] = acct]
    BY <2>1 DEF VoidMarket, TypeOK
  <2> HIDE DEF acct
  <2>6. market' \in [Markets -> MarketAccount \cup {NoAccount}]
    BY <2>3, <2>5 DEF TypeOK
  <2>7. VerdictNamesSide'
    BY <2>4, <2>5 DEF TypeOK, VerdictNamesSide, Exists
  <2> QED
    BY <2>1, <2>6, <2>7 DEF VoidMarket, Quiet, historyVars, TypeOK
<1>12. CASE AttestStep
  <2>1. PICK m \in Markets : AttestVerification(m) /\ Quiet
    BY <1>12 DEF AttestStep
  <2>2. market[m] \in MarketAccount
    BY <2>1 DEF AttestVerification, Exists, TypeOK
  <2> DEFINE acct == [market[m] EXCEPT !.verifications = @ + 1]
  <2>3. /\ acct \in MarketAccount
        /\ acct.status = market[m].status
        /\ acct.outcome = market[m].outcome
    BY <2>2 DEF MarketAccount
  <2>4. market' = [market EXCEPT ![m] = acct]
    BY <2>1 DEF AttestVerification, TypeOK
  <2> HIDE DEF acct
  <2>5. market' \in [Markets -> MarketAccount \cup {NoAccount}]
    BY <2>3, <2>4 DEF TypeOK
  <2>6. VerdictNamesSide'
    BY <2>1, <2>3, <2>4
       DEF AttestVerification, TypeOK, VerdictNamesSide, Exists
  <2> QED
    BY <2>1, <2>5, <2>6 DEF AttestVerification, Quiet, historyVars, TypeOK
<1>13. CASE ClaimStep
  <2>1. PICK u \in Users, m \in Markets : Claim(u, m) /\ Quiet
    BY <1>13 DEF ClaimStep
  <2> DEFINE acct == market[m]
             pos == position[m][u]
             gross == Gross(acct, pos)
             fee == Fee(acct, gross)
  <2>2. acct \in MarketAccount /\ pos \in Position /\ acct.status \in Resolved
    BY <2>1 DEF Claim, Exists, TypeOK
  <2>3. acct.status = STATUS_SETTLED => acct.outcome \in Sides
    BY <2>1 DEF Claim, VerdictNamesSide
  <2>4. gross \in Nat
    BY <2>2, <2>3, GrossNat
  <2>5. fee \in Nat /\ gross - fee \in Nat
    BY <2>2, <2>4, FeeWithinGross
  <2>6. /\ CanDebit(m, ClaimDebit(gross - fee, fee)) \/ gross = 0
        /\ vault' = [vault EXCEPT ![m] = @ - ClaimDebit(gross - fee, fee)]
        /\ lamports' = [lamports EXCEPT ![u] = @ + (gross - fee)]
        /\ treasury' = treasury + fee
        /\ position' = [position EXCEPT ![m][u].amount = 0]
        /\ UNCHANGED <<clock, config, market>>
    BY <2>1 DEF Claim
  <2> HIDE DEF acct, pos, gross, fee
  <2>7. ClaimDebit(gross - fee, fee) = gross
    BY <2>4, <2>5 DEF ClaimDebit
  <2>8. vault' \in [Markets -> Nat]
    <3>1. vault[m] \in Nat /\ Rent \in Nat
      BY MarketAssumption DEF TypeOK
    <3>2. vault[m] - gross \in Nat
      BY <2>4, <2>6, <2>7, <3>1 DEF CanDebit
    <3> QED
      BY <2>6, <2>7, <3>2 DEF TypeOK
  <2>9. lamports' \in [Users \cup SessionKeys -> Nat] /\ treasury' \in Nat
    BY <2>5, <2>6 DEF TypeOK
  <2>10. position' \in [Markets -> [Users -> Position]]
    <3>1. [pos EXCEPT !.amount = 0] \in Position
      BY <2>2 DEF Position
    <3>2. position' = [position EXCEPT ![m] =
              [position[m] EXCEPT ![u] = [pos EXCEPT !.amount = 0]]]
      BY <2>6 DEF TypeOK, pos
    <3> QED
      BY <3>1, <3>2 DEF TypeOK
  <2> QED
    BY <2>1, <2>6, <2>8, <2>9, <2>10
       DEF Quiet, historyVars, TypeOK, VerdictNamesSide, Exists
<1>14. CASE ClaimBondStep
  <2>1. PICK u \in Users, m \in Markets : ClaimBond(u, m) /\ Quiet
    BY <1>14 DEF ClaimBondStep
  <2>2. market[m] \in MarketAccount
    BY <2>1 DEF ClaimBond, Exists, TypeOK
  <2> DEFINE acct == [market[m] EXCEPT !.bondClaimed = TRUE]
  <2>3. /\ acct \in MarketAccount
        /\ acct.status = market[m].status
        /\ acct.outcome = market[m].outcome
    BY <2>2 DEF MarketAccount
  <2>4. market' = [market EXCEPT ![m] = acct]
    BY <2>1 DEF ClaimBond, TypeOK
  <2> HIDE DEF acct
  <2>5. market' \in [Markets -> MarketAccount \cup {NoAccount}]
    BY <2>3, <2>4 DEF TypeOK
  <2>6. VerdictNamesSide'
    BY <2>1, <2>3, <2>4 DEF ClaimBond, TypeOK, VerdictNamesSide, Exists
  <2>7. vault[m] \in Nat /\ Rent \in Nat /\ MinBond \in Nat
    BY MarketAssumption DEF TypeOK
  <2>8. vault' \in [Markets -> Nat]
    BY <2>1, <2>7 DEF ClaimBond, CanDebit, TypeOK
  <2>9. lamports' \in [Users \cup SessionKeys -> Nat]
    BY <2>1, <2>7 DEF ClaimBond, TypeOK
  <2> QED
    BY <2>1, <2>5, <2>6, <2>8, <2>9 DEF ClaimBond, Quiet, historyVars, TypeOK
<1>15. CASE CloseStep
  <2>1. PICK u \in Users, m \in Markets : CloseMarket(u, m) /\ Quiet
    BY <1>15 DEF CloseStep
  <2>2. VerdictNamesSide'
    BY <2>1 DEF CloseMarket, TypeOK, VerdictNamesSide, Exists
  <2> QED
    BY <2>1, <2>2 DEF CloseMarket, Quiet, historyVars, TypeOK
<1>16. CASE UNCHANGED vars
  BY <1>16 DEF vars, marketVars, historyVars, TypeOK, VerdictNamesSide, Exists
<1> QED
  BY <1>1, <1>2, <1>3, <1>4, <1>5, <1>6, <1>7, <1>8, <1>9, <1>10, <1>11,
     <1>12, <1>13, <1>14, <1>15, <1>16 DEF Next

(* Every account of both programs always holds a value of its type: no     *)
(* checked subtraction of an accepted instruction goes below zero, and no  *)
(* payout divides by an absent pool.                                       *)
THEOREM TypeCorrect == Spec => []TypeOK
<1>1. Init => TInv
  BY TInvInit
<1>2. TInv /\ [Next]_vars => TInv'
  BY TInvStep
<1>3. TInv => TypeOK
  BY DEF TInv
<1> QED
  BY <1>1, <1>2, <1>3, PTL DEF Spec

-----------------------------------------------------------------------------
(* What settles a market, that a verdict is final, when bets stop and when *)
(* an account may disappear.                                               *)

(* What a step may do to the account of market m, in the terms the         *)
(* properties below need.                                                  *)
AccountStep(m) ==
    \/ market'[m] = market[m]
    \/ ~Exists(m)
    \/ market[m].status \in Unsettled /\ market'[m] # NoAccount
    \/ /\ market[m].status \in Resolved
       /\ market'[m] # NoAccount
       /\ market'[m].status = market[m].status
       /\ market'[m].outcome = market[m].outcome
       /\ market'[m].settlesAt = market[m].settlesAt
       /\ market'[m].pool = market[m].pool
       /\ market'[m].oracle = market[m].oracle
    \/ market'[m] = NoAccount /\ market[m].status \in Resolved
                              /\ ClaimsWindowOver(m)

LEMMA AccountNotEmpty ==
    ASSUME NEW x, x \in MarketAccount PROVE x # NoAccount
BY NoAccountAssumption

(* The instructions that write no market account.                          *)
LEMMA MarketsUntouched ==
    ASSUME \/ TickStep \/ InitializeStep \/ DelegateStep \/ RevokeStep
           \/ ResolveStep \/ ClaimStep \/ UNCHANGED vars
    PROVE  market' = market
<1>1. CASE TickStep \/ UNCHANGED vars
  BY <1>1 DEF TickStep, Tick, vars, marketVars
<1>2. CASE InitializeStep
  BY <1>2 DEF InitializeStep, InitializeProtocol
<1>3. CASE DelegateStep
  BY <1>3 DEF DelegateStep, DelegateSessionKey, marketVars
<1>4. CASE RevokeStep
  BY <1>4 DEF RevokeStep, RevokeSessionKey, marketVars
<1>5. CASE ResolveStep
  BY <1>5 DEF ResolveStep, ResolveMarket, marketVars
<1>6. CASE ClaimStep
  BY <1>6 DEF ClaimStep, Claim
<1> QED
  BY <1>1, <1>2, <1>3, <1>4, <1>5, <1>6

LEMMA AccountStepAlways ==
    ASSUME TInv, [Next]_vars, NEW m \in Markets
    PROVE  AccountStep(m)
<1>0. Exists(m) => market[m] \in MarketAccount
  BY DEF TInv, TypeOK, Exists
<1>1. CASE market' = market
  BY <1>1 DEF AccountStep
<1>2. ASSUME NEW o \in Sides, NEW n \in Markets, Settle(n, o)
      PROVE  AccountStep(m)
  <2>1. CASE n = m
    <3>1. market[m] \in MarketAccount /\ market[m].status \in Unsettled
      BY <1>0, <1>2, <2>1 DEF Settle, Settleable
    <3>2. market'[m] = [market[m] EXCEPT !.status = STATUS_SETTLED,
                                         !.outcome = o, !.settlesAt = clock]
      BY <1>2, <2>1 DEF Settle, TInv, TypeOK
    <3>3. market'[m] \in MarketAccount
      BY <3>1, <3>2 DEF MarketAccount, Resolved, TInv, TypeOK
    <3> QED
      BY <3>1, <3>3, AccountNotEmpty DEF AccountStep
  <2>2. CASE n # m
    BY <1>2, <2>2 DEF Settle, TInv, TypeOK, AccountStep
  <2> QED
    BY <2>1, <2>2
<1>3. ASSUME NEW n \in Markets, NEW payer, NEW owner, NEW side \in Sides,
             NEW amount \in Nat, AcceptsBets(n),
             ApplyJoin(payer, owner, n, side, amount)
      PROVE  AccountStep(m)
  <2>1. CASE n = m
    <3>1. market[m] \in MarketAccount
      BY <1>0, <1>3, <2>1 DEF AcceptsBets
    <3>2. market'[m] = [market[m] EXCEPT !.pool[side] = @ + amount]
      BY <1>3, <2>1 DEF ApplyJoin, TInv, TypeOK
    <3>3. market'[m] \in MarketAccount
      BY <3>1, <3>2 DEF MarketAccount
    <3> QED
      BY <1>3, <2>1, <3>3, AccountNotEmpty
         DEF AcceptsBets, Unsettled, AccountStep
  <2>2. CASE n # m
    BY <1>3, <2>2 DEF ApplyJoin, TInv, TypeOK, AccountStep
  <2> QED
    BY <2>1, <2>2
<1>4. CASE CreateStep
  <2>1. PICK u \in Users, n \in Markets, v \in Validators, c \in CloseTimes :
          CreateMarket(u, n, v, c)
    BY <1>4 DEF CreateStep
  <2> QED
    BY <2>1 DEF CreateMarket, TInv, TypeOK, AccountStep
<1>5. CASE JoinStep
  <2>1. PICK u \in Users, n \in Markets, s \in Sides, a \in Amounts :
          JoinViaWallet(u, n, s, a)
    BY <1>5 DEF JoinStep
  <2> QED
    BY <1>3, <2>1, MarketAssumption DEF JoinViaWallet
<1>6. CASE SessionJoinStep
  <2>1. PICK u \in Users, k \in SessionKeys, n \in Markets, s \in Sides,
             a \in Amounts : JoinViaSessionKey(k, u, n, s, a)
    BY <1>6 DEF SessionJoinStep
  <2> QED
    BY <1>3, <2>1, MarketAssumption DEF JoinViaSessionKey
<1>7. CASE ForceSettleStep
  BY <1>2, <1>7 DEF ForceSettleStep, ForceSettle
<1>8. CASE ProofSettleStep
  BY <1>2, <1>8 DEF ProofSettleStep, SettleFromProof
<1>9. CASE VoidStep
  <2>1. PICK n \in Markets : VoidMarket(n)
    BY <1>9 DEF VoidStep
  <2>2. CASE n = m
    <3>1. market[m] \in MarketAccount /\ market[m].status \in Unsettled
      BY <1>0, <2>1, <2>2 DEF VoidMarket, Voidable, MarketAccount
    <3>2. market'[m] = [market[m] EXCEPT !.status = STATUS_VOID,
                            !.outcome = OUTCOME_VOID, !.settlesAt = clock]
      BY <2>1, <2>2 DEF VoidMarket, TInv, TypeOK
    <3>3. market'[m] \in MarketAccount
      BY <3>1, <3>2 DEF MarketAccount, Resolved, TInv, TypeOK
    <3> QED
      BY <3>1, <3>3, AccountNotEmpty DEF AccountStep
  <2>3. CASE n # m
    BY <2>1, <2>3 DEF VoidMarket, TInv, TypeOK, AccountStep
  <2> QED
    BY <2>2, <2>3
<1>10. CASE AttestStep
  <2>1. PICK n \in Markets : AttestVerification(n)
    BY <1>10 DEF AttestStep
  <2>2. CASE n = m
    <3>1. market[m] \in MarketAccount /\ market[m].status \in Resolved
      BY <1>0, <2>1, <2>2 DEF AttestVerification, Resolved
    <3>2. market'[m] = [market[m] EXCEPT !.verifications = @ + 1]
      BY <2>1, <2>2 DEF AttestVerification, TInv, TypeOK
    <3>3. market'[m] \in MarketAccount
      BY <3>1, <3>2 DEF MarketAccount
    <3>4. /\ market'[m].status = market[m].status
          /\ market'[m].outcome = market[m].outcome
          /\ market'[m].settlesAt = market[m].settlesAt
          /\ market'[m].pool = market[m].pool
          /\ market'[m].oracle = market[m].oracle
      BY <3>1, <3>2 DEF MarketAccount
    <3> QED
      BY <3>1, <3>3, <3>4, AccountNotEmpty DEF AccountStep
  <2>3. CASE n # m
    BY <2>1, <2>3 DEF AttestVerification, TInv, TypeOK, AccountStep
  <2> QED
    BY <2>2, <2>3
<1>11. CASE ClaimBondStep
  <2>1. PICK u \in Users, n \in Markets : ClaimBond(u, n)
    BY <1>11 DEF ClaimBondStep
  <2>2. CASE n = m
    <3>1. market[m] \in MarketAccount /\ market[m].status \in Resolved
      BY <1>0, <2>1, <2>2 DEF ClaimBond
    <3>2. market'[m] = [market[m] EXCEPT !.bondClaimed = TRUE]
      BY <2>1, <2>2 DEF ClaimBond, TInv, TypeOK
    <3>3. market'[m] \in MarketAccount
      BY <3>1, <3>2 DEF MarketAccount
    <3>4. /\ market'[m].status = market[m].status
          /\ market'[m].outcome = market[m].outcome
          /\ market'[m].settlesAt = market[m].settlesAt
          /\ market'[m].pool = market[m].pool
          /\ market'[m].oracle = market[m].oracle
      BY <3>1, <3>2 DEF MarketAccount
    <3> QED
      BY <3>1, <3>3, <3>4, AccountNotEmpty DEF AccountStep
  <2>3. CASE n # m
    BY <2>1, <2>3 DEF ClaimBond, TInv, TypeOK, AccountStep
  <2> QED
    BY <2>2, <2>3
<1>12. CASE CloseStep
  <2>1. PICK u \in Users, n \in Markets : CloseMarket(u, n)
    BY <1>12 DEF CloseStep
  <2> QED
    BY <2>1 DEF CloseMarket, TInv, TypeOK, AccountStep
<1>13. CASE TickStep \/ InitializeStep \/ DelegateStep \/ RevokeStep
              \/ ResolveStep \/ ClaimStep \/ UNCHANGED vars
  <2>1. market' = market
    BY <1>13, MarketsUntouched
  <2> QED
    BY <1>1, <2>1
<1> QED
  BY <1>4, <1>5, <1>6, <1>7, <1>8, <1>9, <1>10, <1>11, <1>12, <1>13 DEF Next

-----------------------------------------------------------------------------
LEMMA TInvAlways == Spec => []TInv
<1>1. Init => TInv
  BY TInvInit
<1>2. TInv /\ [Next]_vars => TInv'
  BY TInvStep
<1> QED
  BY <1>1, <1>2, PTL DEF Spec

LEMMA StatusesDiffer ==
    /\ Unsettled \cap Resolved = {}
    /\ STATUS_OPEN \in Unsettled
BY DEF Unsettled, Resolved, STATUS_OPEN, STATUS_AWAITING, STATUS_SETTLED,
    STATUS_VOID

(* A verdict, its time and the pools behind it never change while the      *)
(* account lives: no order of settlement, void, claims and attestations    *)
(* gets around AlreadySettled.                                             *)
THEOREM VerdictIsFinal == Spec => ResolvedIsFinal
<1>1. ASSUME TInv, [Next]_vars, NEW m \in Markets, Exists(m),
             market[m].status \in Resolved, market'[m] # NoAccount
      PROVE  /\ market'[m].status = market[m].status
             /\ market'[m].outcome = market[m].outcome
             /\ market'[m].settlesAt = market[m].settlesAt
             /\ market'[m].pool = market[m].pool
  BY <1>1, AccountStepAlways, StatusesDiffer DEF AccountStep
<1>2. TInv /\ [Next]_vars =>
        [\A m \in Markets :
          Exists(m) /\ market[m].status \in Resolved /\ market'[m] # NoAccount =>
            /\ market'[m].status = market[m].status
            /\ market'[m].outcome = market[m].outcome
            /\ market'[m].settlesAt = market[m].settlesAt
            /\ market'[m].pool = market[m].pool]_vars
  BY <1>1
<1> QED
  BY <1>2, TInvAlways, PTL DEF Spec, ResolvedIsFinal

-----------------------------------------------------------------------------
(* Which steps change a position, and how.                                 *)
LEMMA PositionStep ==
    ASSUME TInv, [Next]_vars, NEW m \in Markets, NEW u \in Users
    PROVE  \/ position'[m][u].amount = position[m][u].amount
           \/ AcceptsBets(m) /\ position'[m][u].amount >= position[m][u].amount
           \/ /\ Exists(m) /\ market[m].status \in Resolved
              /\ position'[m][u].amount <= position[m][u].amount
<1>0. position[m][u].amount \in Nat
  BY DEF TInv, TypeOK, Position
<1>1. CASE position' = position
  BY <1>1
<1>2. ASSUME NEW n \in Markets, NEW payer, NEW owner \in Users,
             NEW side \in Sides, NEW amount \in Nat, AcceptsBets(n),
             ApplyJoin(payer, owner, n, side, amount)
      PROVE  \/ position'[m][u].amount = position[m][u].amount
             \/ AcceptsBets(m) /\ position'[m][u].amount >= position[m][u].amount
  <2>1. position' = [position EXCEPT ![n][owner] =
            [side |-> side, amount |-> position[n][owner].amount + amount]]
    BY <1>2 DEF ApplyJoin
  <2>2. CASE n = m /\ owner = u
    <3>1. position'[m][u].amount = position[m][u].amount + amount
      BY <2>1, <2>2 DEF TInv, TypeOK
    <3> QED
      BY <1>0, <1>2, <2>2, <3>1
  <2>3. CASE ~(n = m /\ owner = u)
    BY <2>1, <2>3 DEF TInv, TypeOK
  <2> QED
    BY <2>2, <2>3
<1>3. CASE JoinStep
  <2>1. PICK w \in Users, n \in Markets, s \in Sides, a \in Amounts :
          JoinViaWallet(w, n, s, a)
    BY <1>3 DEF JoinStep
  <2> QED
    BY <1>2, <2>1, MarketAssumption DEF JoinViaWallet
<1>4. CASE SessionJoinStep
  <2>1. PICK w \in Users, k \in SessionKeys, n \in Markets, s \in Sides,
             a \in Amounts : JoinViaSessionKey(k, w, n, s, a)
    BY <1>4 DEF SessionJoinStep
  <2> QED
    BY <1>2, <2>1, MarketAssumption DEF JoinViaSessionKey
<1>5. CASE ClaimStep
  <2>1. PICK w \in Users, n \in Markets : Claim(w, n)
    BY <1>5 DEF ClaimStep
  <2>2. position' = [position EXCEPT ![n][w].amount = 0]
    BY <2>1 DEF Claim
  <2>3. CASE n = m /\ w = u
    <3>1. position'[m][u].amount = 0
      BY <2>2, <2>3 DEF TInv, TypeOK, Position
    <3> QED
      BY <1>0, <2>1, <2>3, <3>1 DEF Claim
  <2>4. CASE ~(n = m /\ w = u)
    BY <2>2, <2>4 DEF TInv, TypeOK
  <2> QED
    BY <2>3, <2>4
<1>6. CASE TickStep \/ InitializeStep \/ CreateStep \/ DelegateStep
              \/ RevokeStep \/ ResolveStep \/ ForceSettleStep
              \/ ProofSettleStep \/ VoidStep \/ AttestStep \/ ClaimBondStep
              \/ CloseStep \/ UNCHANGED vars
  <2>1. position' = position
    <3>1. CASE TickStep \/ InitializeStep \/ UNCHANGED vars
      BY <3>1 DEF TickStep, Tick, InitializeStep, InitializeProtocol, vars,
          marketVars
    <3>2. CASE CreateStep
      BY <3>2 DEF CreateStep, CreateMarket
    <3>3. CASE DelegateStep \/ RevokeStep
      BY <3>3 DEF DelegateStep, DelegateSessionKey, RevokeStep, RevokeSessionKey,
          marketVars
    <3>4. CASE ResolveStep
      BY <3>4 DEF ResolveStep, ResolveMarket, marketVars
    <3>5. CASE ForceSettleStep
      BY <3>5 DEF ForceSettleStep, ForceSettle, Settle
    <3>6. CASE ProofSettleStep
      BY <3>6 DEF ProofSettleStep, SettleFromProof, Settle
    <3>7. CASE VoidStep
      BY <3>7 DEF VoidStep, VoidMarket
    <3>8. CASE AttestStep
      BY <3>8 DEF AttestStep, AttestVerification
    <3>9. CASE ClaimBondStep
      BY <3>9 DEF ClaimBondStep, ClaimBond
    <3>10. CASE CloseStep
      BY <3>10 DEF CloseStep, CloseMarket
    <3> QED
      BY <1>6, <3>1, <3>2, <3>3, <3>4, <3>5, <3>6, <3>7, <3>8, <3>9, <3>10
  <2> QED
    BY <1>1, <2>1
<1> QED
  BY <1>3, <1>4, <1>5, <1>6 DEF Next

(* No stake is added to a market that is resolved or past its closing      *)
(* time, by wallet or by session key.                                      *)
THEOREM BetsStop == Spec => BetsFrozen
<1>1. ASSUME TInv, [Next]_vars, NEW m \in Markets, NEW u \in Users,
             position'[m][u].amount > position[m][u].amount
      PROVE  Exists(m) /\ market[m].status = STATUS_OPEN
                       /\ clock < market[m].closesAt
  <2>1. position[m][u].amount \in Nat /\ position'[m][u].amount \in Nat
    BY <1>1, TInvStep DEF TInv, TypeOK, Position
  <2> QED
    BY <1>1, <2>1, PositionStep DEF AcceptsBets
<1>2. TInv /\ [Next]_vars =>
        [\A m \in Markets, u \in Users :
           position'[m][u].amount > position[m][u].amount =>
              Exists(m) /\ market[m].status = STATUS_OPEN
                        /\ clock < market[m].closesAt]_vars
  BY <1>1
<1> QED
  BY <1>2, TInvAlways, PTL DEF Spec, BetsFrozen

(* Stake leaves a position only by a claim on a resolved market, and an    *)
(* account disappears only when its claims window is over.                 *)
THEOREM ClaimsHaveTheirWindow == Spec => ClaimsWindow
<1>1. ASSUME TInv, [Next]_vars, NEW m \in Markets, NEW u \in Users,
             position'[m][u].amount < position[m][u].amount
      PROVE  Exists(m) /\ market[m].status \in Resolved
  <2>1. position[m][u].amount \in Nat /\ position'[m][u].amount \in Nat
    BY <1>1, TInvStep DEF TInv, TypeOK, Position
  <2> QED
    BY <1>1, <2>1, PositionStep
<1>2. ASSUME TInv, [Next]_vars, NEW m \in Markets, Exists(m),
             market'[m] = NoAccount
      PROVE  /\ market[m].status \in Resolved
             /\ clock > market[m].settlesAt + CloseGrace
  BY <1>2, AccountStepAlways DEF AccountStep, Exists, ClaimsWindowOver
<1>3. TInv /\ [Next]_vars =>
        [\A m \in Markets :
           /\ (\E u \in Users :
                  position'[m][u].amount < position[m][u].amount) =>
                  Exists(m) /\ market[m].status \in Resolved
           /\ Exists(m) /\ market'[m] = NoAccount =>
                  /\ market[m].status \in Resolved
                  /\ clock > market[m].settlesAt + CloseGrace]_vars
  BY <1>1, <1>2
<1> QED
  BY <1>3, TInvAlways, PTL DEF Spec, ClaimsWindow

-----------------------------------------------------------------------------
(* A receipt, once written, never changes.                                 *)
LEMMA ReceiptStep ==
    ASSUME TInv, [Next]_vars, NEW m \in Markets, resolution[m] # NoAccount
    PROVE  resolution'[m] = resolution[m]
<1>1. CASE ResolveStep
  <2>1. PICK n \in Markets, v \in Validators, o \in Sides, answer \in BOOLEAN :
          ResolveMarket(n, v, o, answer)
    BY <1>1 DEF ResolveStep
  <2>2. n # m
    BY <2>1 DEF ResolveMarket
  <2> QED
    BY <2>1, <2>2 DEF ResolveMarket, TInv, TypeOK
<1>2. CASE ~ResolveStep
  <2>1. resolution' = resolution
    BY <1>2 DEF Next, TickStep, InitializeStep, CreateStep, JoinStep,
        DelegateStep, RevokeStep, SessionJoinStep, ForceSettleStep,
        ProofSettleStep, VoidStep, AttestStep, ClaimStep, ClaimBondStep,
        CloseStep, Quiet, vars
  <2> QED
    BY <2>1
<1> QED
  BY <1>1, <1>2

(* Who settled the account at an address changes only with its settlement  *)
(* or its creation.                                                        *)
LEMMA SettledByStep ==
    ASSUME TInv, [Next]_vars, NEW m \in Markets, Exists(m)',
           settledBy'[m] = "proof"
    PROVE  \/ settledBy[m] = "proof" /\ Exists(m)
           \/ \E o \in Sides : SettleFromProof(m, o, resolution[m])
<1>1. CASE CreateStep
  <2>1. PICK u \in Users, n \in Markets, v \in Validators, c \in CloseTimes :
          /\ CreateMarket(u, n, v, c)
          /\ settledBy' = [settledBy EXCEPT ![n] = "none"]
    BY <1>1 DEF CreateStep
  <2>2. n # m
    BY <2>1 DEF TInv, TypeOK
  <2> QED
    BY <2>1, <2>2 DEF CreateMarket, Exists, TInv, TypeOK
<1>2. CASE ForceSettleStep
  <2>1. PICK u \in Users, n \in Markets, o \in Sides :
          /\ ForceSettle(u, n, o)
          /\ settledBy' = [settledBy EXCEPT ![n] = "force"]
    BY <1>2 DEF ForceSettleStep
  <2>2. n # m
    BY <2>1 DEF TInv, TypeOK
  <2> QED
    BY <2>1, <2>2 DEF ForceSettle, Settle, Exists, TInv, TypeOK
<1>3. CASE ProofSettleStep
  <2>1. PICK n \in Markets, o \in Sides :
          /\ SettleFromProof(n, o, resolution[n])
          /\ settledBy' = [settledBy EXCEPT ![n] = "proof"]
    BY <1>3 DEF ProofSettleStep
  <2>2. CASE n = m
    BY <2>1, <2>2
  <2>3. CASE n # m
    BY <2>1, <2>3 DEF SettleFromProof, Settle, Exists, TInv, TypeOK
  <2> QED
    BY <2>2, <2>3
<1>4. CASE ~(CreateStep \/ ForceSettleStep \/ ProofSettleStep)
  <2>1. settledBy' = settledBy
    BY <1>4 DEF Next, TickStep, InitializeStep, JoinStep, DelegateStep,
        RevokeStep, SessionJoinStep, ResolveStep, VoidStep, AttestStep,
        ClaimStep, ClaimBondStep, CloseStep, Quiet, historyVars, vars
  <2>2. Exists(m)
    <3>1. CASE JoinStep
      BY <3>1 DEF JoinStep, JoinViaWallet, AcceptsBets, ApplyJoin, Exists,
          TInv, TypeOK
    <3>2. CASE SessionJoinStep
      <4>1. PICK w \in Users, k \in SessionKeys, n \in Markets, side \in Sides,
                 a \in Amounts : JoinViaSessionKey(k, w, n, side, a)
        BY <3>2 DEF SessionJoinStep
      <4>2. Exists(n) /\ ApplyJoin(k, w, n, side, a)
        BY <4>1 DEF JoinViaSessionKey, AcceptsBets
      <4> QED
        BY <4>2 DEF ApplyJoin, Exists, TInv, TypeOK
    <3>3. CASE VoidStep
      BY <3>3 DEF VoidStep, VoidMarket, Voidable, Exists, TInv, TypeOK
    <3>4. CASE AttestStep
      BY <3>4 DEF AttestStep, AttestVerification, Exists, TInv, TypeOK
    <3>5. CASE ClaimBondStep
      BY <3>5 DEF ClaimBondStep, ClaimBond, Exists, TInv, TypeOK
    <3>6. CASE CloseStep
      BY <3>6 DEF CloseStep, CloseMarket, Exists, TInv, TypeOK
    <3>7. CASE TickStep \/ InitializeStep \/ DelegateStep \/ RevokeStep
                  \/ ResolveStep \/ ClaimStep \/ UNCHANGED vars
      BY <3>7, MarketsUntouched DEF Exists
    <3> QED
      BY <1>4, <3>1, <3>2, <3>3, <3>4, <3>5, <3>6, <3>7 DEF Next
  <2> QED
    BY <2>1, <2>2
<1> QED
  BY <1>1, <1>2, <1>3, <1>4

(* A market settled without the authority carries the outcome of its own   *)
(* receipt, made by the oracle its creator bound it to: for every number   *)
(* of markets and validators, and across closing and creating it again.    *)
THEOREM ProofAlwaysGates == Spec => []ProofGated
<1>1. Init => ProofGated
  BY DEF Init, ProofGated
<1>2. ASSUME TInv, ProofGated, [Next]_vars, NEW m \in Markets, Exists(m)',
             settledBy'[m] = "proof"
      PROVE  /\ market'[m].status = STATUS_SETTLED
             /\ resolution'[m] # NoAccount
             /\ resolution'[m].outcome = market'[m].outcome
             /\ resolution'[m].validator = market'[m].oracle
  <2>1. CASE settledBy[m] = "proof" /\ Exists(m)
    <3>1. /\ market[m].status = STATUS_SETTLED
          /\ resolution[m] # NoAccount
          /\ resolution[m].outcome = market[m].outcome
          /\ resolution[m].validator = market[m].oracle
      BY <1>2, <2>1 DEF ProofGated
    <3>2. market[m].status \notin Unsettled /\ market'[m] # NoAccount
      BY <1>2, <3>1 DEF Unsettled, STATUS_OPEN, STATUS_AWAITING,
          STATUS_SETTLED, Exists
    <3>3. /\ market'[m].status = market[m].status
          /\ market'[m].outcome = market[m].outcome
          /\ market'[m].oracle = market[m].oracle
      BY <1>2, <2>1, <3>2, AccountStepAlways DEF AccountStep
    <3>4. resolution'[m] = resolution[m]
      BY <1>2, <3>1, ReceiptStep
    <3> QED
      BY <3>1, <3>3, <3>4
  <2>2. ASSUME NEW o \in Sides, SettleFromProof(m, o, resolution[m])
        PROVE  /\ market'[m].status = STATUS_SETTLED
               /\ resolution'[m] # NoAccount
               /\ resolution'[m].outcome = market'[m].outcome
               /\ resolution'[m].validator = market'[m].oracle
    <3>1. market[m] \in MarketAccount
      BY <1>2, <2>2 DEF SettleFromProof, Exists, TInv, TypeOK
    <3>2. market'[m] = [market[m] EXCEPT !.status = STATUS_SETTLED,
                                         !.outcome = o, !.settlesAt = clock]
      BY <1>2, <2>2 DEF SettleFromProof, Settle, TInv, TypeOK
    <3>3. /\ market'[m].status = STATUS_SETTLED
          /\ market'[m].outcome = o
          /\ market'[m].oracle = market[m].oracle
      BY <3>1, <3>2 DEF MarketAccount
    <3>4. /\ resolution[m] # NoAccount
          /\ resolution[m].outcome = o
          /\ resolution[m].validator = market[m].oracle
      BY <2>2 DEF SettleFromProof, ReceiptSettles
    <3>5. resolution'[m] = resolution[m]
      BY <1>2, <3>4, ReceiptStep
    <3> QED
      BY <3>3, <3>4, <3>5
  <2> QED
    BY <1>2, <2>1, <2>2, SettledByStep
<1>3. TInv /\ ProofGated /\ [Next]_vars => ProofGated'
  BY <1>2 DEF ProofGated
<1> QED
  BY <1>1, <1>3, TInvAlways, PTL DEF Spec

-----------------------------------------------------------------------------
(* The refinement: initial states map to the initial state of the promise, *)
(* and every step maps to one of its steps or to none.                     *)

PromiseStep == [Promise!PromiseNext]_<<clock, PublicBook>>

(* The statuses and what they are read as.                                 *)
LEMMA StageOfStatus ==
    /\ \A s \in Unsettled : Stage(s) = "open" /\ s \notin Resolved
    /\ \A s \in Resolved : Stage(s) \in Promise!Decided
    /\ Stage(STATUS_SETTLED) = "settled"
    /\ Stage(STATUS_VOID) = "void"
    /\ Stage(STATUS_OPEN) = "open"
BY DEF Stage, Unsettled, Resolved, STATUS_OPEN, STATUS_AWAITING,
       STATUS_SETTLED, STATUS_VOID, Promise!Decided

(* A step that touches one address changes one entry of the record.        *)
LEMMA OneEntry ==
    ASSUME NEW n \in Markets,
           \A m \in Markets : m # n =>
               market'[m] = market[m] /\ resolution'[m] = resolution[m]
    PROVE  PublicBook' = [PublicBook EXCEPT ![n] = PublicEntry(n)']
<1>1. \A m \in Markets : m # n => PublicEntry(m)' = PublicEntry(m)
  BY DEF PublicEntry, Exists
<1> QED
  BY <1>1 DEF PublicBook

(* A step that leaves everything in an entry as it is.                     *)
LEMMA SameBook ==
    ASSUME resolution' = resolution, clock' = clock,
           \A m \in Markets :
               \/ market'[m] = market[m]
               \/ /\ market[m] # NoAccount
                  /\ market'[m] # NoAccount
                  /\ market'[m].status = market[m].status
                  /\ market'[m].closesAt = market[m].closesAt
                  /\ market'[m].settlesAt = market[m].settlesAt
    PROVE  PromiseStep
<1>1. \A m \in Markets : PublicEntry(m)' = PublicEntry(m)
  BY DEF PublicEntry, Exists
<1> QED
  BY <1>1 DEF PublicBook, PromiseStep

(* Entries of the record are equal when their fields are.                  *)
LEMMA EqualEntries ==
    ASSUME NEW e \in Promise!Entry, NEW f \in Promise!Entry,
           e.stage = f.stage, e.receipt = f.receipt,
           e.closesAt = f.closesAt, e.decidedAt = f.decidedAt
    PROVE  e = f
BY DEF Promise!Entry

(* Every address has an entry of the right type.                           *)
LEMMA EntryTyped ==
    ASSUME TInv, NEW m \in Markets
    PROVE  PublicEntry(m) \in Promise!Entry
<1>1. Exists(m) => market[m] \in MarketAccount
  BY DEF TInv, TypeOK, Exists
<1>2. Stage(market[m].status) \in Promise!Stages
  BY DEF Stage, Promise!Stages, Promise!Decided
<1> QED
  BY <1>1, <1>2 DEF PublicEntry, Promise!Entry, Promise!Stages, MarketAccount

(* Settlement and void set the verdict of an open entry and its time.      *)
LEMMA DecideStep ==
    ASSUME TInv, NEW n \in Markets, market[n] \in MarketAccount,
           market[n].status \in Unsettled,
           NEW status \in Resolved, NEW outcome \in Sides \cup {OUTCOME_VOID},
           market' = [market EXCEPT ![n].status = status,
                                    ![n].outcome = outcome,
                                    ![n].settlesAt = clock],
           resolution' = resolution, clock' = clock
    PROVE  Promise!Decide(n, Stage(status))
<1> DEFINE acct == [market[n] EXCEPT !.status = status, !.outcome = outcome,
                                     !.settlesAt = clock]
<1>1. market' = [market EXCEPT ![n] = acct]
  BY DEF TInv, TypeOK
<1>2. acct \in MarketAccount /\ acct.closesAt = market[n].closesAt
          /\ acct.status = status /\ acct.settlesAt = clock
  BY DEF MarketAccount, TInv, TypeOK
<1>3. market'[n] = acct
  BY <1>1 DEF TInv, TypeOK
<1> HIDE DEF acct
<1>4. Exists(n) /\ Exists(n)'
  BY <1>2, <1>3, NoAccountAssumption DEF Exists
<1>5. PublicEntry(n)' = [stage |-> Stage(status),
                         receipt |-> resolution[n] # NoAccount,
                         closesAt |-> market[n].closesAt, decidedAt |-> clock]
  BY <1>2, <1>3, <1>4 DEF PublicEntry
<1>6. PublicBook[n] = [stage |-> "open",
                       receipt |-> resolution[n] # NoAccount,
                       closesAt |-> market[n].closesAt,
                       decidedAt |-> market[n].settlesAt]
  BY <1>4, StageOfStatus DEF PublicEntry, PublicBook
<1>7. PublicBook' = [PublicBook EXCEPT ![n] = PublicEntry(n)']
  BY <1>1, OneEntry DEF TInv, TypeOK
<1>8. PublicEntry(n)' = [PublicBook[n] EXCEPT !.stage = Stage(status),
                                              !.decidedAt = clock]
  <2> DEFINE entry == PublicBook[n]
             next == [entry EXCEPT !.stage = Stage(status),
                                   !.decidedAt = clock]
             after == [stage |-> Stage(status),
                       receipt |-> resolution[n] # NoAccount,
                       closesAt |-> market[n].closesAt, decidedAt |-> clock]
  <2>1. entry \in Promise!Entry
    BY EntryTyped DEF PublicBook
  <2>2. after \in Promise!Entry
    BY <1>6, <2>1, StageOfStatus DEF Promise!Entry, Promise!Stages, TInv, TypeOK
  <2>3. next \in Promise!Entry /\ next.stage = Stage(status)
          /\ next.receipt = entry.receipt /\ next.closesAt = entry.closesAt
          /\ next.decidedAt = clock
    BY <2>1, StageOfStatus DEF Promise!Entry, Promise!Stages, TInv, TypeOK
  <2>4. /\ next.stage = after.stage /\ next.receipt = after.receipt
        /\ next.closesAt = after.closesAt /\ next.decidedAt = after.decidedAt
    BY <1>6, <2>3
  <2> HIDE DEF next, after
  <2>5. next = after
    BY <2>2, <2>3, <2>4, EqualEntries
  <2> QED
    BY <1>5, <2>5 DEF next, after
<1>9. PublicBook' = [PublicBook EXCEPT ![n].stage = Stage(status),
                                       ![n].decidedAt = clock]
  BY <1>7, <1>8 DEF PublicBook
<1> QED
  BY <1>6, <1>9 DEF Promise!Decide

LEMMA OpenStep ==
    ASSUME TInv, NEW u \in Users, NEW n \in Markets, NEW v \in Validators,
           NEW c \in CloseTimes, CreateMarket(u, n, v, c),
           resolution' = resolution
    PROVE  Promise!Open(n, c)
<1> DEFINE entry == PublicBook[n]
           next == [entry EXCEPT !.stage = "open", !.closesAt = c]
           after == [stage |-> "open", receipt |-> resolution[n] # NoAccount,
                     closesAt |-> c, decidedAt |-> 0]
<1>1. /\ market'[n] # NoAccount
      /\ market'[n].status = STATUS_OPEN
      /\ market'[n].closesAt = c /\ market'[n].settlesAt = 0
  <2>1. config \in Protocol
    BY DEF CreateMarket, TInv, TypeOK
  <2>2. market'[n] = [creator |-> u, oracle |-> v, bondClaimed |-> FALSE,
           pool |-> [s \in Sides |-> 0], closesAt |-> c,
           settlesAt |-> 0, status |-> STATUS_OPEN, outcome |-> OUTCOME_VOID,
           feeBps |-> config.feeBps, verifications |-> 0]
    BY DEF CreateMarket, TInv, TypeOK
  <2>3. market'[n] \in MarketAccount
    BY <2>1, <2>2, MarketAssumption DEF MarketAccount, Protocol, Unsettled
  <2>4. market'[n].status = STATUS_OPEN /\ market'[n].closesAt = c
          /\ market'[n].settlesAt = 0
    BY <2>2
  <2> QED
    BY <2>3, <2>4, NoAccountAssumption
<1>2. PublicEntry(n)' = after
  BY <1>1, StageOfStatus DEF PublicEntry, Exists
<1>3. entry = [stage |-> "none", receipt |-> resolution[n] # NoAccount,
               closesAt |-> 0, decidedAt |-> 0]
  BY DEF CreateMarket, PublicBook, PublicEntry
<1>4. PublicBook' = [PublicBook EXCEPT ![n] = PublicEntry(n)']
  BY OneEntry DEF CreateMarket, TInv, TypeOK
<1>5. after \in Promise!Entry /\ entry \in Promise!Entry
  BY <1>3, MarketAssumption DEF Promise!Entry, Promise!Stages, Promise!Decided
<1>6. next \in Promise!Entry /\ next.stage = "open" /\ next.closesAt = c
        /\ next.receipt = entry.receipt /\ next.decidedAt = entry.decidedAt
  BY <1>5, MarketAssumption DEF Promise!Entry, Promise!Stages
<1>7. next.receipt = after.receipt /\ next.decidedAt = after.decidedAt
  BY <1>3, <1>6
<1>8. next = after
  <2> HIDE DEF next
  <2> QED
    BY <1>5, <1>6, <1>7, EqualEntries
<1>9. PublicBook' = [PublicBook EXCEPT ![n].stage = "open", ![n].closesAt = c]
  BY <1>2, <1>4, <1>8 DEF PublicBook
<1> QED
  BY <1>3, <1>9 DEF Promise!Open, CreateMarket

LEMMA ProveStep ==
    ASSUME TInv, NEW n \in Markets, NEW v \in Validators, NEW o \in Sides,
           NEW answer, ResolveMarket(n, v, o, answer)
    PROVE  Promise!Prove(n)
<1> DEFINE entry == PublicBook[n]
           next == [entry EXCEPT !.receipt = TRUE]
           after == [stage |-> entry.stage, receipt |-> TRUE,
                     closesAt |-> entry.closesAt,
                     decidedAt |-> entry.decidedAt]
<1>1. Exists(n) /\ resolution[n] = NoAccount /\ UNCHANGED <<market, clock>>
  BY DEF ResolveMarket, marketVars
<1>2. resolution'[n] # NoAccount
  <2>1. resolution'[n] = [outcome |-> o, validator |-> v, resolvedAt |-> clock]
    BY DEF ResolveMarket, TInv, TypeOK
  <2>2. resolution'[n] \in Receipt
    BY <2>1 DEF Receipt, TInv, TypeOK
  <2> QED
    BY <2>2, NoReceiptAssumption
<1>3. entry = [stage |-> Stage(market[n].status), receipt |-> FALSE,
               closesAt |-> market[n].closesAt,
               decidedAt |-> market[n].settlesAt]
  BY <1>1 DEF PublicBook, PublicEntry
<1>4. PublicEntry(n)' = after
  <2>1. market' = market /\ market[n] # NoAccount
    BY <1>1 DEF Exists
  <2>2. (resolution'[n] # NoAccount) = TRUE
    BY <1>2
  <2>3. PublicEntry(n)' = [stage |-> Stage(market[n].status),
                           receipt |-> resolution'[n] # NoAccount,
                           closesAt |-> market[n].closesAt,
                           decidedAt |-> market[n].settlesAt]
    BY <2>1 DEF PublicEntry, Exists
  <2>4. after = [stage |-> Stage(market[n].status), receipt |-> TRUE,
                 closesAt |-> market[n].closesAt,
                 decidedAt |-> market[n].settlesAt]
    BY <1>3
  <2> QED
    BY <2>2, <2>3, <2>4, Zenon
<1>5. PublicBook' = [PublicBook EXCEPT ![n] = PublicEntry(n)']
  BY OneEntry DEF ResolveMarket, marketVars, TInv, TypeOK
<1>6. entry \in Promise!Entry
  BY EntryTyped DEF PublicBook
<1>7. after \in Promise!Entry /\ next \in Promise!Entry
        /\ next.stage = entry.stage /\ next.closesAt = entry.closesAt
        /\ next.receipt = TRUE /\ next.decidedAt = entry.decidedAt
  BY <1>6 DEF Promise!Entry
<1>8. next = after
  <2> HIDE DEF next
  <2> QED
    BY <1>7, EqualEntries
<1>9. PublicBook' = [PublicBook EXCEPT ![n].receipt = TRUE]
  BY <1>4, <1>5, <1>8 DEF PublicBook
<1>10. entry.stage # "none" /\ ~entry.receipt
  BY <1>3 DEF Stage
<1> QED
  BY <1>1, <1>9, <1>10 DEF Promise!Prove

LEMMA ForgetStep ==
    ASSUME TInv, NEW u \in Users, NEW n \in Markets, CloseMarket(u, n),
           resolution' = resolution
    PROVE  Promise!Forget(n)
<1>1. PublicBook[n] = [stage |-> Stage(market[n].status),
                       receipt |-> resolution[n] # NoAccount,
                       closesAt |-> market[n].closesAt,
                       decidedAt |-> market[n].settlesAt]
  BY DEF CloseMarket, PublicBook, PublicEntry
<1>2. PublicEntry(n)' = Promise!NoMarket(PublicBook[n].receipt)
  BY <1>1 DEF CloseMarket, PublicEntry, Exists, Promise!NoMarket, TInv, TypeOK
<1>3. PublicBook' = [PublicBook EXCEPT ![n] = PublicEntry(n)']
  BY OneEntry DEF CloseMarket, TInv, TypeOK
<1>4. PublicBook' = [PublicBook EXCEPT
                        ![n] = Promise!NoMarket(PublicBook[n].receipt)]
  BY <1>2, <1>3
<1>5. PublicBook[n].stage \in Promise!Decided
        /\ clock > PublicBook[n].decidedAt + CloseGrace
  BY <1>1, StageOfStatus DEF CloseMarket, ClaimsWindowOver
<1> QED
  BY <1>4, <1>5 DEF Promise!Forget, CloseMarket

-----------------------------------------------------------------------------
LEMMA StepKeepsPromise == TInv /\ [Next]_vars => PromiseStep
<1> SUFFICES ASSUME TInv, [Next]_vars PROVE PromiseStep
  OBVIOUS
<1>0. \A m \in Markets : market[m] = NoAccount \/ market[m] \in MarketAccount
  BY DEF TInv, TypeOK
<1>1. ASSUME NEW n \in Markets, NEW o \in Sides, Settle(n, o),
             resolution' = resolution
      PROVE  PromiseStep
  <2>1. market[n] \in MarketAccount /\ market[n].status \in Unsettled
    BY <1>0, <1>1 DEF Settle, Settleable, Exists
  <2>2. Promise!Decide(n, "settled")
    BY <1>1, <2>1, DecideStep, StageOfStatus DEF Settle, Resolved
  <2> QED
    BY <2>2 DEF PromiseStep, Promise!PromiseNext
<1>2. ASSUME NEW payer, NEW owner, NEW n \in Markets, NEW side \in Sides,
             NEW amount \in Nat, AcceptsBets(n),
             ApplyJoin(payer, owner, n, side, amount),
             resolution' = resolution, clock' = clock
      PROVE  PromiseStep
  <2>1. market[n] \in MarketAccount
    BY <1>0, <1>2 DEF AcceptsBets, Exists
  <2>2. market' = [market EXCEPT ![n] =
                      [market[n] EXCEPT !.pool[side] = @ + amount]]
    BY <1>2 DEF ApplyJoin, TInv, TypeOK
  <2>3. /\ market'[n] \in MarketAccount
        /\ market'[n].status = market[n].status
        /\ market'[n].closesAt = market[n].closesAt
        /\ market'[n].settlesAt = market[n].settlesAt
    <3> DEFINE acct == [market[n] EXCEPT !.pool[side] = @ + amount]
    <3>1. /\ acct \in MarketAccount /\ acct.status = market[n].status
          /\ acct.closesAt = market[n].closesAt
          /\ acct.settlesAt = market[n].settlesAt
      BY <2>1 DEF MarketAccount
    <3>2. market'[n] = acct
      BY <2>2 DEF TInv, TypeOK
    <3> QED
      BY <3>1, <3>2
  <2>4. market[n] # NoAccount /\ market'[n] # NoAccount
    BY <2>1, <2>3, NoAccountAssumption
  <2>5. \A m \in Markets : m # n => market'[m] = market[m]
    BY <2>2 DEF TInv, TypeOK
  <2> QED
    BY <1>2, <2>3, <2>4, <2>5, SameBook
<1>3. CASE TickStep
  <2>1. PublicBook' = PublicBook
    BY <1>3 DEF TickStep, Tick, Quiet, PublicBook, PublicEntry, Exists
  <2>2. Promise!Pass
    BY <1>3, <2>1 DEF TickStep, Tick, Promise!Pass
  <2> QED
    BY <2>2 DEF PromiseStep, Promise!PromiseNext
<1>4. CASE CreateStep
  <2>1. PICK u \in Users, n \in Markets, v \in Validators, c \in CloseTimes :
          CreateMarket(u, n, v, c) /\ resolution' = resolution
    BY <1>4 DEF CreateStep
  <2>2. Promise!Open(n, c)
    BY <2>1, OpenStep
  <2> QED
    BY <2>2 DEF PromiseStep, Promise!PromiseNext
<1>5. CASE JoinStep
  <2>1. PICK u \in Users, n \in Markets, s \in Sides, a \in Amounts :
          JoinViaWallet(u, n, s, a) /\ Quiet
    BY <1>5 DEF JoinStep
  <2> QED
    BY <1>2, <2>1, MarketAssumption DEF JoinViaWallet, Quiet
<1>6. CASE SessionJoinStep
  <2>1. PICK u \in Users, k \in SessionKeys, n \in Markets, s \in Sides,
             a \in Amounts :
          JoinViaSessionKey(k, u, n, s, a) /\ resolution' = resolution
    BY <1>6 DEF SessionJoinStep
  <2> QED
    BY <1>2, <2>1, MarketAssumption DEF JoinViaSessionKey
<1>7. CASE ResolveStep
  <2>1. PICK n \in Markets, v \in Validators, o \in Sides, answer \in BOOLEAN :
          ResolveMarket(n, v, o, answer)
    BY <1>7 DEF ResolveStep
  <2>2. Promise!Prove(n)
    BY <2>1, ProveStep
  <2> QED
    BY <2>2 DEF PromiseStep, Promise!PromiseNext
<1>8. CASE ForceSettleStep
  BY <1>1, <1>8 DEF ForceSettleStep, ForceSettle
<1>9. CASE ProofSettleStep
  BY <1>1, <1>9 DEF ProofSettleStep, SettleFromProof
<1>10. CASE VoidStep
  <2>1. PICK n \in Markets : VoidMarket(n) /\ Quiet
    BY <1>10 DEF VoidStep
  <2>2. market[n] \in MarketAccount /\ market[n].status \in Unsettled
    BY <1>0, <2>1 DEF VoidMarket, Voidable, Exists, MarketAccount
  <2>3. Promise!Decide(n, "void")
    BY <2>1, <2>2, DecideStep, StageOfStatus DEF VoidMarket, Quiet, Resolved
  <2>4. Promise!CanVoid(n)
    BY <2>1, <2>2, StageOfStatus
       DEF VoidMarket, Voidable, Promise!CanVoid, PublicBook, PublicEntry
  <2>5. Promise!Void(n)
    BY <2>3, <2>4 DEF Promise!Void
  <2> QED
    BY <2>5 DEF PromiseStep, Promise!PromiseNext
<1>11. CASE CloseStep
  <2>1. PICK u \in Users, n \in Markets : CloseMarket(u, n) /\ Quiet
    BY <1>11 DEF CloseStep
  <2>2. Promise!Forget(n)
    BY <2>1, ForgetStep DEF Quiet
  <2> QED
    BY <2>2 DEF PromiseStep, Promise!PromiseNext
<1>12. CASE AttestStep
  <2>1. PICK n \in Markets : AttestVerification(n) /\ Quiet
    BY <1>12 DEF AttestStep
  <2>2. market[n] \in MarketAccount
    BY <1>0, <2>1 DEF AttestVerification, Exists
  <2>3. market'[n] = [market[n] EXCEPT !.verifications = @ + 1]
          /\ \A m \in Markets : m # n => market'[m] = market[m]
    BY <2>1 DEF AttestVerification, TInv, TypeOK
  <2>4. /\ market'[n] \in MarketAccount
        /\ market'[n].status = market[n].status
        /\ market'[n].closesAt = market[n].closesAt
        /\ market'[n].settlesAt = market[n].settlesAt
    BY <2>2, <2>3 DEF MarketAccount
  <2>5. market[n] # NoAccount /\ market'[n] # NoAccount
    BY <2>2, <2>4, NoAccountAssumption
  <2> QED
    BY <2>1, <2>3, <2>4, <2>5, SameBook DEF AttestVerification, Quiet
<1>13. CASE ClaimBondStep
  <2>1. PICK u \in Users, n \in Markets : ClaimBond(u, n) /\ Quiet
    BY <1>13 DEF ClaimBondStep
  <2>2. market[n] \in MarketAccount
    BY <1>0, <2>1 DEF ClaimBond, Exists
  <2>3. market'[n] = [market[n] EXCEPT !.bondClaimed = TRUE]
          /\ \A m \in Markets : m # n => market'[m] = market[m]
    BY <2>1 DEF ClaimBond, TInv, TypeOK
  <2>4. /\ market'[n] \in MarketAccount
        /\ market'[n].status = market[n].status
        /\ market'[n].closesAt = market[n].closesAt
        /\ market'[n].settlesAt = market[n].settlesAt
    BY <2>2, <2>3 DEF MarketAccount
  <2>5. market[n] # NoAccount /\ market'[n] # NoAccount
    BY <2>2, <2>4, NoAccountAssumption
  <2> QED
    BY <2>1, <2>3, <2>4, <2>5, SameBook DEF ClaimBond, Quiet
<1>14. CASE InitializeStep \/ DelegateStep \/ RevokeStep \/ ClaimStep
              \/ UNCHANGED vars
  <2>1. market' = market /\ resolution' = resolution /\ clock' = clock
    <3>1. CASE InitializeStep \/ UNCHANGED vars
      BY <3>1 DEF InitializeStep, InitializeProtocol, Quiet, vars, marketVars
    <3>2. CASE DelegateStep
      BY <3>2 DEF DelegateStep, DelegateSessionKey, Quiet, marketVars
    <3>3. CASE RevokeStep
      BY <3>3 DEF RevokeStep, RevokeSessionKey, Quiet, marketVars
    <3>4. CASE ClaimStep
      BY <3>4 DEF ClaimStep, Claim, Quiet
    <3> QED
      BY <1>14, <3>1, <3>2, <3>3, <3>4
  <2> QED
    BY <2>1, SameBook
<1> QED
  BY <1>3, <1>4, <1>5, <1>6, <1>7, <1>8, <1>9, <1>10, <1>11, <1>12, <1>13,
     <1>14 DEF Next

(* The programs implement the promise: whatever instructions are sent, in  *)
(* whatever order and by whom, a market is opened, proven, decided once    *)
(* and forgotten as MarketPromise says.                                    *)
THEOREM ProgramsKeepPromise == Spec => KeepsPromise
<1>1. Init => Promise!PromiseInit
  BY DEF Init, MarketInit, SettlementInit, Promise!PromiseInit, PublicBook,
         PublicEntry, Exists, Promise!NoMarket
<1>2. Init => TInv
  BY TInvInit
<1>3. TInv /\ [Next]_vars => TInv'
  BY TInvStep
<1>4. TInv /\ [Next]_vars => [Promise!PromiseNext]_(Promise!promiseVars)
  BY StepKeepsPromise DEF PromiseStep, Promise!promiseVars
<1> QED
  BY <1>1, <1>2, <1>3, <1>4, PTL DEF Spec, KeepsPromise, Promise!PromiseSpec

-----------------------------------------------------------------------------
(* How Total behaves when one summand changes.                             *)

(* A sum of finitely many natural numbers is a natural number.             *)
LEMMA TotalNat ==
    ASSUME NEW S, IsFiniteSet(S), NEW f \in [S -> Nat]
    PROVE  IsFiniteSet(Tickets(f)) /\ Total(f) \in Nat
<1> DEFINE hold == [x \in S |-> {x} \X (1..f[x])]
           T == {hold[x] : x \in S}
<1>1. hold \in Surjection(S, T)
  BY DEF Surjection
<1>2. IsFiniteSet(T)
  BY <1>1, FS_Surjection
<1>3. \A x \in S : IsFiniteSet(hold[x])
  <2> TAKE x \in S
  <2>1. IsFiniteSet({x})
    BY FS_Singleton
  <2>2. 1 \in Int /\ f[x] \in Int
    OBVIOUS
  <2>3. IsFiniteSet(1..f[x])
    BY <2>2, FS_Interval
  <2>4. IsFiniteSet({x} \X (1..f[x]))
    BY <2>1, <2>3, FS_Product
  <2> QED
    BY <2>4
<1>4. IsFiniteSet(UNION T)
  BY <1>2, <1>3, FS_UNION
<1>5. Tickets(f) = UNION T
  BY DEF Tickets
<1> QED
  BY <1>4, <1>5, FS_CardinalityType DEF Total

(* Changing one summand changes the sum by the difference.                 *)
LEMMA TotalUpdate ==
    ASSUME NEW S, IsFiniteSet(S), NEW f \in [S -> Nat], NEW y \in S, NEW n \in Nat
    PROVE  Total([f EXCEPT ![y] = n]) = Total(f) - f[y] + n
<1> DEFINE zero == [f EXCEPT ![y] = 0]
           Mine(k) == {y} \X (1..k)
<1>1. zero \in [S -> Nat]
  OBVIOUS
<1>2. IsFiniteSet(Tickets(zero)) /\ Total(zero) \in Nat
  BY <1>1, TotalNat
<1>3. ASSUME NEW k \in Nat, NEW g \in [S -> Nat], g = [f EXCEPT ![y] = k]
      PROVE  Total(g) = Total(zero) + k
  <2>1. Tickets(g) = Tickets(zero) \cup Mine(k)
    <3>1. \A t : t \in Tickets(g) <=> \E x \in S : t \in {x} \X (1..g[x])
      BY DEF Tickets
    <3>2. \A t : t \in Tickets(zero) <=> \E x \in S : t \in {x} \X (1..zero[x])
      BY DEF Tickets
    <3>3. \A x \in S : x # y => g[x] = zero[x]
      BY <1>3
    <3>4. g[y] = k /\ 1..zero[y] = {}
      BY <1>3
    <3> QED
      BY <3>1, <3>2, <3>3, <3>4
  <2>2. Tickets(zero) \cap Mine(k) = {}
    BY DEF Tickets
  <2>3. IsFiniteSet(Mine(k)) /\ Cardinality(Mine(k)) = k
    <3>1. IsFiniteSet({y}) /\ Cardinality({y}) = 1
      BY FS_Singleton
    <3>2. 1 \in Int /\ k \in Int
      OBVIOUS
    <3>3. /\ IsFiniteSet(1..k)
          /\ Cardinality(1..k) = IF 1 > k THEN 0 ELSE k - 1 + 1
      BY <3>2, FS_Interval
    <3>4. Cardinality(1..k) = k
      BY <3>3
    <3>5. /\ IsFiniteSet({y} \X (1..k))
          /\ Cardinality({y} \X (1..k)) = Cardinality({y}) * Cardinality(1..k)
      BY <3>1, <3>3, FS_Product
    <3> QED
      BY <3>1, <3>4, <3>5
  <2>4. Cardinality({}) = 0
    BY FS_EmptySet
  <2>5. Cardinality(Tickets(zero) \cup Mine(k))
           = Cardinality(Tickets(zero)) + Cardinality(Mine(k))
                - Cardinality(Tickets(zero) \cap Mine(k))
    BY <1>2, <2>3, FS_Union
  <2>6. Cardinality(Tickets(zero) \cap Mine(k)) = 0
    BY <2>2, <2>4, Zenon
  <2>7. Total(g) = Cardinality(Tickets(zero) \cup Mine(k))
    BY <2>1, Zenon DEF Total
  <2>8. Total(zero) = Cardinality(Tickets(zero))
    BY Zenon DEF Total
  <2> HIDE DEF zero, Mine
  <2> QED
    BY <1>2, <2>3, <2>5, <2>6, <2>7, <2>8
<1>4. Total(f) = Total(zero) + f[y]
  BY <1>3
<1>5. Total([f EXCEPT ![y] = n]) = Total(zero) + n
  BY <1>3
<1> QED
  BY <1>2, <1>4, <1>5

(* One summand never exceeds the sum.                                      *)
LEMMA TotalBound ==
    ASSUME NEW S, IsFiniteSet(S), NEW f \in [S -> Nat], NEW y \in S
    PROVE  f[y] <= Total(f)
<1>1. Total([f EXCEPT ![y] = 0]) = Total(f) - f[y] + 0
  <2>1. 0 \in Nat
    OBVIOUS
  <2> QED
    BY ONLY IsFiniteSet(S), f \in [S -> Nat], y \in S, <2>1, TotalUpdate
<1>2. [f EXCEPT ![y] = 0] \in [S -> Nat]
  OBVIOUS
<1>3. Total([f EXCEPT ![y] = 0]) \in Nat /\ Total(f) \in Nat
  BY <1>2, TotalNat
<1> QED
  BY <1>1, <1>3

(* A sum of zeros is zero.                                                 *)
LEMMA TotalZero ==
    ASSUME NEW S
    PROVE  Total([x \in S |-> 0]) = 0
<1>1. Tickets([x \in S |-> 0]) = {}
  BY DEF Tickets
<1> QED
  BY <1>1, FS_EmptySet DEF Total

-----------------------------------------------------------------------------
(* The money of a market.                                                  *)

Stake(m, side) == Total(StakeOn(m, side))

(* Who has no winning stake in the market, or none any more.               *)
WinsNothing(m) ==
    {u \in Users : OnSide(position[m][u], market[m].outcome) = 0}

(* What a market account owes, by status.  After settlement the remaining  *)
(* winning stake r is owed r and the floor of its share of the losing pool,*)
(* which is no less than the sum of the floors of its parts, and less than *)
(* one more for each part.                                                 *)
Backed(m) ==
    /\ ~market[m].bondClaimed
    /\ \A s \in Sides : market[m].pool[s] = Stake(m, s)
    /\ vault[m] = Rent + MinBond + market[m].pool[SIDE_YES]
                                 + market[m].pool[SIDE_NO]

OwesWinners(m) ==
    LET r == Stake(m, market[m].outcome)
        owed == Rent + BondDue(m) + r + LosingShare(market[m], r)
    IN  /\ r <= market[m].pool[market[m].outcome]
        /\ vault[m] >= owed
        /\ market[m].pool[market[m].outcome] > 0
              => vault[m] <= owed + Cardinality(WinsNothing(m))

OwesRefunds(m) ==
    vault[m] = Rent + BondDue(m) + Stake(m, SIDE_YES) + Stake(m, SIDE_NO)

Escrowed(m) ==
    /\ market[m].status \in Unsettled => Backed(m)
    /\ market[m].status = STATUS_SETTLED => OwesWinners(m)
    /\ market[m].status = STATUS_VOID => OwesRefunds(m)

Escrow ==
    \A m \in Markets : /\ ~Exists(m) => vault[m] = 0
                       /\ Fresh(m) => Escrowed(m)

-----------------------------------------------------------------------------
(* A change of one position changes the stake on each side accordingly.    *)
LEMMA StakeNat ==
    ASSUME TInv, NEW m \in Markets, NEW s \in Sides
    PROVE  StakeOn(m, s) \in [Users -> Nat] /\ Stake(m, s) \in Nat
<1>1. StakeOn(m, s) \in [Users -> Nat]
  BY DEF TInv, TypeOK, Position, StakeOn, OnSide
<1>2. IsFiniteSet(Users)
  BY MarketAssumption
<1> QED
  BY <1>1, <1>2, TotalNat DEF Stake

LEMMA WalletsCounted ==
    ASSUME NEW S, S \subseteq Users
    PROVE  IsFiniteSet(S) /\ Cardinality(S) \in Nat
BY MarketAssumption, FS_Subset, FS_CardinalityType

LEMMA StakeStep ==
    ASSUME TInv, NEW m \in Markets, NEW u \in Users, NEW p \in Position,
           position' = [position EXCEPT ![m][u] = p], NEW s \in Sides
    PROVE  Stake(m, s)' = Stake(m, s) - OnSide(position[m][u], s) + OnSide(p, s)
<1>1. StakeOn(m, s) \in [Users -> Nat]
  BY StakeNat
<1>2. OnSide(p, s) \in Nat
  BY DEF OnSide, Position
<1>3. StakeOn(m, s)' = [StakeOn(m, s) EXCEPT ![u] = OnSide(p, s)]
  BY DEF StakeOn, TInv, TypeOK
<1>4. StakeOn(m, s)[u] = OnSide(position[m][u], s)
  BY DEF StakeOn
<1>5. IsFiniteSet(Users)
  BY MarketAssumption
<1>6. Total([StakeOn(m, s) EXCEPT ![u] = OnSide(p, s)])
         = Total(StakeOn(m, s)) - StakeOn(m, s)[u] + OnSide(p, s)
  BY ONLY <1>1, <1>2, <1>5, u \in Users, TotalUpdate
<1> QED
  BY <1>3, <1>4, <1>6 DEF Stake

(* A market none of whose accounts change keeps what it owes.              *)
LEMMA Frame ==
    ASSUME NEW n \in Markets, Fresh(n) => Escrowed(n),
           market'[n] = market[n], vault'[n] = vault[n],
           position'[n] = position[n], inherited'[n] = inherited[n]
    PROVE  Fresh(n)' => Escrowed(n)'
<1>1. \A s : StakeOn(n, s)' = StakeOn(n, s)
  BY DEF StakeOn
<1>2. \A s : Stake(n, s)' = Stake(n, s)
  BY <1>1 DEF Stake
<1>3. Fresh(n)' = Fresh(n)
  BY DEF Fresh, Exists
<1>4. WinsNothing(n)' = WinsNothing(n)
  BY DEF WinsNothing
<1> QED
  BY <1>2, <1>3, <1>4 DEF Escrowed, Backed, OwesWinners, OwesRefunds, BondDue

-----------------------------------------------------------------------------
(* Each kind of instruction on the market it names.                        *)
LEMMA CreateEscrowed ==
    ASSUME TInv, NEW u \in Users, NEW m \in Markets, NEW v \in Validators,
           NEW c \in CloseTimes, CreateMarket(u, m, v, c), vault[m] = 0,
           \A w \in Users : position[m][w].amount = 0
    PROVE  Escrowed(m)'
<1>1. market'[m].status = STATUS_OPEN /\ ~market'[m].bondClaimed
        /\ market'[m].pool = [s \in Sides |-> 0]
  BY DEF CreateMarket, TInv, TypeOK
<1>2. vault'[m] = Rent + MinBond
  BY MarketAssumption DEF CreateMarket, TInv, TypeOK
<1>3. \A s \in Sides : Stake(m, s)' = 0
  <2> TAKE s \in Sides
  <2>1. StakeOn(m, s)' = [w \in Users |-> 0]
    BY DEF StakeOn, OnSide, CreateMarket
  <2> QED
    BY <2>1, TotalZero DEF Stake
<1>4. SIDE_YES \in Sides /\ SIDE_NO \in Sides
  BY DEF Sides
<1>5. Backed(m)'
  BY <1>1, <1>2, <1>3, <1>4, MarketAssumption DEF Backed
<1> QED
  BY <1>1, <1>5 DEF Escrowed, STATUS_OPEN, STATUS_SETTLED, STATUS_VOID

LEMMA BetEscrowed ==
    ASSUME TInv, NEW payer \in Users \cup SessionKeys, NEW owner \in Users,
           NEW m \in Markets, NEW side \in Sides, NEW amount \in Nat,
           AcceptsBets(m), ApplyJoin(payer, owner, m, side, amount),
           Escrowed(m)
    PROVE  Escrowed(m)'
<1>1. market[m] \in MarketAccount /\ market[m].status = STATUS_OPEN
  BY DEF TInv, TypeOK, AcceptsBets, Exists
<1>2. Backed(m)
  BY <1>1 DEF Escrowed, Unsettled
<1> DEFINE pos == position[m][owner]
           p == [side |-> side, amount |-> pos.amount + amount]
<1>3. pos \in Position /\ p \in Position
  BY DEF TInv, TypeOK, Position
<1>4. position' = [position EXCEPT ![m][owner] = p]
  BY DEF ApplyJoin
<1>5. \A s \in Sides : Stake(m, s)' = Stake(m, s) - OnSide(pos, s) + OnSide(p, s)
  BY <1>3, <1>4, StakeStep
<1>6. \A s \in Sides : OnSide(p, s) = OnSide(pos, s) + (IF s = side THEN amount ELSE 0)
  BY <1>3 DEF ApplyJoin, KeepsSide, OnSide, Position
<1>7. \A s \in Sides : OnSide(pos, s) \in Nat /\ Stake(m, s) \in Nat
  BY <1>3, StakeNat DEF OnSide, Position
<1>8. \A s \in Sides : Stake(m, s)' = Stake(m, s) + (IF s = side THEN amount ELSE 0)
  BY <1>5, <1>6, <1>7
<1>9. /\ market'[m].status = STATUS_OPEN
      /\ market'[m].bondClaimed = market[m].bondClaimed
      /\ market'[m].pool = [market[m].pool EXCEPT ![side] = @ + amount]
      /\ vault'[m] = vault[m] + amount
  BY <1>1 DEF ApplyJoin, TInv, TypeOK, MarketAccount
<1>10. market[m].pool \in [Sides -> Nat]
  BY <1>1 DEF MarketAccount
<1>11. \A s \in Sides : market'[m].pool[s]
                            = market[m].pool[s] + (IF s = side THEN amount ELSE 0)
  BY <1>9, <1>10
<1>12. Backed(m)'
  <2>1. \A s \in Sides : market'[m].pool[s] = Stake(m, s)'
    BY <1>2, <1>8, <1>11 DEF Backed
  <2>2. vault'[m] = Rent + MinBond + market'[m].pool[SIDE_YES]
                                   + market'[m].pool[SIDE_NO]
    BY <1>2, <1>9, <1>10, <1>11, MarketAssumption
       DEF Backed, Sides, SIDE_YES, SIDE_NO
  <2> QED
    BY <1>2, <1>9, <2>1, <2>2 DEF Backed
<1> QED
  BY <1>9, <1>12 DEF Escrowed, STATUS_OPEN, STATUS_SETTLED, STATUS_VOID

LEMMA SettleEscrowed ==
    ASSUME TInv, NEW m \in Markets, NEW o \in Sides, Settle(m, o), Escrowed(m)
    PROVE  Escrowed(m)'
<1>1. market[m] \in MarketAccount /\ market[m].status \in Unsettled
  BY DEF TInv, TypeOK, Settle, Settleable, Exists
<1>2. Backed(m)
  BY <1>1 DEF Escrowed
<1>3. /\ market'[m].status = STATUS_SETTLED
      /\ market'[m].outcome = o
      /\ market'[m].bondClaimed = market[m].bondClaimed
      /\ market'[m].pool = market[m].pool
      /\ vault' = vault
      /\ position' = position
  BY <1>1 DEF Settle, TInv, TypeOK, MarketAccount
<1>4. \A s \in Sides : Stake(m, s)' = Stake(m, s)
  BY <1>3 DEF Stake, StakeOn
<1> DEFINE w == market[m].pool[o]
           l == market[m].pool[OtherSide(o)]
<1>5. w \in Nat /\ l \in Nat /\ vault[m] = Rent + MinBond + w + l
  BY <1>1, <1>2, MarketAssumption
     DEF MarketAccount, Backed, Sides, OtherSide, SIDE_YES, SIDE_NO
<1>6. Stake(m, o)' = w
  BY <1>2, <1>4 DEF Backed
<1>7. LosingShare(market'[m], w) = IF w > 0 THEN (w * l) \div w ELSE 0
  BY <1>3 DEF LosingShare
<1> HIDE DEF w, l
<1>8. w > 0 => (w * l) \div w = l
  BY <1>5
<1>9. LosingShare(market'[m], w) \in Nat /\ LosingShare(market'[m], w) <= l
  BY <1>5, <1>7, <1>8
<1>10. BondDue(m)' = MinBond
  BY <1>2, <1>3 DEF BondDue, Backed
<1>11. vault'[m] >= Rent + BondDue(m)' + w + LosingShare(market'[m], w)
  BY <1>3, <1>5, <1>9, <1>10, MarketAssumption
<1>12. market'[m].pool[o] = w
  BY <1>3 DEF w
<1>13. w > 0 => LosingShare(market'[m], w) = l
  BY <1>5, <1>7, <1>8
<1>14. Cardinality(WinsNothing(m)') \in Nat
  <2>1. WinsNothing(m)' \subseteq Users
    BY DEF WinsNothing
  <2> QED
    BY <2>1, WalletsCounted
<1>15. w > 0 => vault'[m] <= Rent + BondDue(m)' + w + LosingShare(market'[m], w)
                                + Cardinality(WinsNothing(m)')
  BY <1>3, <1>5, <1>10, <1>13, <1>14, MarketAssumption
<1>16. OwesWinners(m)'
  BY <1>3, <1>5, <1>6, <1>11, <1>12, <1>15 DEF OwesWinners
<1> QED
  BY <1>3, <1>16 DEF Escrowed, Unsettled, STATUS_OPEN, STATUS_AWAITING,
      STATUS_SETTLED, STATUS_VOID

LEMMA VoidEscrowed ==
    ASSUME TInv, NEW m \in Markets, VoidMarket(m), Escrowed(m)
    PROVE  Escrowed(m)'
<1>1. market[m] \in MarketAccount /\ market[m].status \in Unsettled
  BY DEF TInv, TypeOK, VoidMarket, Voidable, Exists, MarketAccount
<1>2. Backed(m)
  BY <1>1 DEF Escrowed
<1>3. /\ market'[m].status = STATUS_VOID
      /\ market'[m].bondClaimed = market[m].bondClaimed
      /\ vault' = vault
      /\ position' = position
  BY <1>1 DEF VoidMarket, TInv, TypeOK, MarketAccount
<1>4. \A s \in Sides : Stake(m, s)' = Stake(m, s)
  BY <1>3 DEF Stake, StakeOn
<1>5. \A s \in Sides : Stake(m, s)' = market[m].pool[s] /\ market[m].pool[s] \in Nat
  BY <1>1, <1>2, <1>4 DEF Backed, MarketAccount
<1>6. SIDE_YES \in Sides /\ SIDE_NO \in Sides
  BY DEF Sides
<1>7. OwesRefunds(m)'
  BY <1>2, <1>3, <1>5, <1>6, MarketAssumption DEF OwesRefunds, Backed, BondDue
<1> QED
  BY <1>3, <1>7 DEF Escrowed, Unsettled, STATUS_OPEN, STATUS_AWAITING,
      STATUS_SETTLED, STATUS_VOID

LEMMA AttestEscrowed ==
    ASSUME TInv, NEW m \in Markets, AttestVerification(m), Escrowed(m)
    PROVE  Escrowed(m)'
<1>1. market[m] \in MarketAccount
  BY DEF TInv, TypeOK, AttestVerification, Exists
<1>2. /\ market'[m].status = market[m].status
      /\ market'[m].outcome = market[m].outcome
      /\ market'[m].bondClaimed = market[m].bondClaimed
      /\ market'[m].pool = market[m].pool
      /\ vault' = vault
      /\ position' = position
  BY <1>1 DEF AttestVerification, TInv, TypeOK, MarketAccount
<1>3. \A s : Stake(m, s)' = Stake(m, s)
  BY <1>2 DEF Stake, StakeOn
<1>4. \A r : LosingShare(market'[m], r) = LosingShare(market[m], r)
  BY <1>2 DEF LosingShare
<1>5. WinsNothing(m)' = WinsNothing(m)
  BY <1>2 DEF WinsNothing
<1> QED
  BY <1>2, <1>3, <1>4, <1>5 DEF Escrowed, Backed, OwesWinners, OwesRefunds, BondDue

LEMMA BondEscrowed ==
    ASSUME TInv, NEW u \in Users, NEW m \in Markets, ClaimBond(u, m), Escrowed(m)
    PROVE  Escrowed(m)'
<1>1. market[m] \in MarketAccount /\ market[m].status \in Resolved
        /\ ~market[m].bondClaimed
  BY DEF TInv, TypeOK, ClaimBond, Exists
<1>2. /\ market'[m].status = market[m].status
      /\ market'[m].outcome = market[m].outcome
      /\ market'[m].bondClaimed
      /\ market'[m].pool = market[m].pool
      /\ vault'[m] = vault[m] - MinBond
      /\ position' = position
  BY <1>1 DEF ClaimBond, TInv, TypeOK, MarketAccount
<1>3. \A s : Stake(m, s)' = Stake(m, s)
  BY <1>2 DEF Stake, StakeOn
<1>4. \A r : LosingShare(market'[m], r) = LosingShare(market[m], r)
  BY <1>2 DEF LosingShare
<1>5. BondDue(m) = MinBond /\ BondDue(m)' = 0
  BY <1>1, <1>2 DEF BondDue
<1>6. \A s \in Sides : Stake(m, s) \in Nat
  BY StakeNat
<1>7. vault[m] \in Nat /\ Rent \in Nat /\ MinBond \in Nat
  BY MarketAssumption DEF TInv, TypeOK
<1>8. CASE market[m].status = STATUS_VOID
  <2>1. OwesRefunds(m)'
    BY <1>2, <1>3, <1>5, <1>6, <1>7, <1>8
       DEF OwesRefunds, Escrowed, Sides
  <2> QED
    BY <1>2, <1>8, <2>1 DEF Escrowed, Unsettled, STATUS_OPEN, STATUS_AWAITING,
        STATUS_SETTLED, STATUS_VOID
<1>9. CASE market[m].status = STATUS_SETTLED
  <2> DEFINE r == Stake(m, market[m].outcome)
  <2>1. market[m].outcome \in Sides
    BY <1>1, <1>9 DEF TInv, VerdictNamesSide, ClaimBond
  <2>2. r \in Nat /\ LosingShare(market[m], r) \in Nat
    BY <1>1, <1>6, <2>1, LosingShareNat
  <2>3. OwesWinners(m)
    BY <1>9 DEF Escrowed
  <2>4. WinsNothing(m)' = WinsNothing(m)
    BY <1>2 DEF WinsNothing
  <2>5. Cardinality(WinsNothing(m)) \in Nat
    BY WalletsCounted DEF WinsNothing
  <2>6. OwesWinners(m)'
    BY <1>2, <1>3, <1>4, <1>5, <1>7, <2>2, <2>3, <2>4, <2>5 DEF OwesWinners
  <2> QED
    BY <1>2, <1>9, <2>6 DEF Escrowed, Unsettled, STATUS_OPEN, STATUS_AWAITING,
        STATUS_SETTLED, STATUS_VOID
<1> QED
  BY <1>1, <1>8, <1>9 DEF Resolved

(* The floors of two shares add up to the floor of their sum or to one     *)
(* less.                                                                   *)
LEMMA SharesAddUp ==
    ASSUME NEW acct \in MarketAccount, acct.outcome \in Sides,
           NEW r \in Nat, NEW x \in Nat, x <= r
    PROVE  /\ LosingShare(acct, x) + LosingShare(acct, r - x) <= LosingShare(acct, r)
           /\ LosingShare(acct, r)
                 <= LosingShare(acct, x) + LosingShare(acct, r - x) + 1
<1> DEFINE w == acct.pool[acct.outcome]
           l == acct.pool[OtherSide(acct.outcome)]
<1>1. w \in Nat /\ l \in Nat /\ r - x \in Nat
  BY DEF MarketAccount, OtherSide, Sides
<1>2. \A a, b, c \in Nat : c > 0 =>
         /\ (a \div c) + (b \div c) <= (a + b) \div c
         /\ (a + b) \div c <= (a \div c) + (b \div c) + 1
  OBVIOUS
<1>3. \A s : LosingShare(acct, s) = IF w > 0 THEN (s * l) \div w ELSE 0
  BY DEF LosingShare
<1> HIDE DEF w, l
<1>4. x * l \in Nat /\ (r - x) * l \in Nat /\ x * l + (r - x) * l = r * l
  BY <1>1
<1> QED
  BY <1>1, <1>2, <1>3, <1>4

LEMMA ClaimEscrowed ==
    ASSUME TInv, NEW u \in Users, NEW m \in Markets, Claim(u, m), Escrowed(m)
    PROVE  Escrowed(m)'
<1> DEFINE acct == market[m]
           pos == position[m][u]
           p == [pos EXCEPT !.amount = 0]
           gross == Gross(acct, pos)
           r == Stake(m, acct.outcome)
<1>1. acct \in MarketAccount /\ acct.status \in Resolved /\ pos \in Position
  BY DEF TInv, TypeOK, Claim, Exists
<1>2. p \in Position /\ p.amount = 0 /\ p.side = pos.side
  BY <1>1 DEF Position
<1>3. position' = [position EXCEPT ![m][u] = p]
  BY DEF Claim
<1>4. \A s \in Sides : OnSide(p, s) = 0 /\ OnSide(pos, s) \in Nat
  BY <1>1, <1>2 DEF OnSide, Position
<1>5. \A s \in Sides : Stake(m, s) \in Nat /\ OnSide(pos, s) <= Stake(m, s)
  <2> TAKE s \in Sides
  <2>1. StakeOn(m, s) \in [Users -> Nat] /\ Stake(m, s) \in Nat
    BY StakeNat
  <2>2. IsFiniteSet(Users)
    BY MarketAssumption
  <2>3. StakeOn(m, s)[u] <= Total(StakeOn(m, s))
    BY ONLY <2>1, <2>2, u \in Users, TotalBound
  <2> QED
    BY <2>1, <2>3 DEF Stake, StakeOn
<1>6. \A s \in Sides : Stake(m, s)' = Stake(m, s) - OnSide(pos, s)
  <2> TAKE s \in Sides
  <2>1. Stake(m, s)' = Stake(m, s) - OnSide(pos, s) + OnSide(p, s)
    BY <1>2, <1>3, StakeStep
  <2> QED
    BY <2>1, <1>4, <1>5
<1>7. acct.status = STATUS_SETTLED => acct.outcome \in Sides
  BY <1>1 DEF TInv, VerdictNamesSide, Claim
<1>8. gross \in Nat
  BY <1>1, <1>7, GrossNat
<1>9. market' = market /\ vault'[m] = vault[m] - gross
  <2>1. Fee(acct, gross) \in Nat
    BY <1>1, <1>8, FeeWithinGross
  <2>2. vault' = [vault EXCEPT ![m] =
            @ - ClaimDebit(gross - Fee(acct, gross), Fee(acct, gross))]
    BY DEF Claim
  <2>3. ClaimDebit(gross - Fee(acct, gross), Fee(acct, gross)) = gross
    BY <1>8, <2>1 DEF ClaimDebit
  <2> QED
    BY <2>2, <2>3 DEF Claim, TInv, TypeOK
<1>10. vault[m] \in Nat /\ Rent \in Nat /\ BondDue(m) \in Nat
         /\ BondDue(m)' = BondDue(m)
  BY <1>9, MarketAssumption DEF TInv, TypeOK, BondDue
<1>11. CASE acct.status = STATUS_VOID
  <2>1. gross = pos.amount
    BY <1>11 DEF Gross
  <2>2. gross = OnSide(pos, SIDE_YES) + OnSide(pos, SIDE_NO)
    BY <1>1, <2>1 DEF OnSide, Position, Sides, SIDE_YES, SIDE_NO
  <2>3. SIDE_YES \in Sides /\ SIDE_NO \in Sides
    BY DEF Sides
  <2>4. OwesRefunds(m)
    BY <1>11 DEF Escrowed
  <2> HIDE DEF gross, acct, pos
  <2>5. OwesRefunds(m)'
    BY <1>4, <1>5, <1>6, <1>8, <1>9, <1>10, <2>2, <2>3, <2>4 DEF OwesRefunds
  <2> QED
    BY <1>9, <1>11, <2>5 DEF Escrowed, Unsettled, STATUS_OPEN, STATUS_AWAITING,
        STATUS_SETTLED, STATUS_VOID, acct
<1>12. CASE acct.status = STATUS_SETTLED
  <2> DEFINE x == OnSide(pos, acct.outcome)
  <2>1. acct.outcome \in Sides
    BY <1>7, <1>12
  <2>2. gross = x + LosingShare(acct, x)
    <3>1. CASE pos.side = acct.outcome
      BY <1>12, <3>1 DEF Gross, OnSide, STATUS_SETTLED, STATUS_VOID
    <3>2. CASE pos.side # acct.outcome
      <4>1. gross = 0 /\ x = 0
        BY <1>12, <3>2 DEF Gross, OnSide, STATUS_SETTLED, STATUS_VOID
      <4>2. \A l, w \in Nat : w > 0 => (0 * l) \div w = 0
        OBVIOUS
      <4>3. acct.pool[acct.outcome] \in Nat
              /\ acct.pool[OtherSide(acct.outcome)] \in Nat
        BY <1>1, <2>1 DEF MarketAccount, OtherSide, Sides
      <4>4. LosingShare(acct, 0) = 0
        BY <4>2, <4>3 DEF LosingShare
      <4> QED
        BY <4>1, <4>4
    <3> QED
      BY <3>1, <3>2
  <2>3. x \in Nat /\ r \in Nat /\ x <= r /\ r' = r - x
    BY <1>4, <1>5, <1>6, <1>9, <2>1
  <2>4. LosingShare(acct, x) + LosingShare(acct, r - x) <= LosingShare(acct, r)
    BY <1>1, <2>1, <2>3, SharesAddUp
  <2>5. /\ LosingShare(acct, x) \in Nat
        /\ LosingShare(acct, r - x) \in Nat
        /\ LosingShare(acct, r) \in Nat
    BY <1>1, <2>1, <2>3, LosingShareNat
  <2>6. /\ r <= acct.pool[acct.outcome]
        /\ vault[m] >= Rent + BondDue(m) + r + LosingShare(acct, r)
    BY <1>12 DEF Escrowed, OwesWinners
  <2>7. acct.pool[acct.outcome] \in Nat
    BY <1>1, <2>1 DEF MarketAccount
  <2>8. /\ r - x <= acct.pool[acct.outcome]
        /\ vault'[m] >= Rent + BondDue(m) + (r - x) + LosingShare(acct, r - x)
    <3> HIDE DEF x, r, gross, acct
    <3> QED
      BY <1>9, <1>10, <2>2, <2>3, <2>4, <2>5, <2>6, <2>7
  <2>9. Cardinality(WinsNothing(m)) \in Nat
          /\ Cardinality(WinsNothing(m)')
               = Cardinality(WinsNothing(m)) + (IF x > 0 THEN 1 ELSE 0)
    <3>1. WinsNothing(m)' = WinsNothing(m) \cup {u}
      BY <1>2, <1>3, <1>4, <1>9, <2>1 DEF WinsNothing, TInv, TypeOK
    <3>2. IsFiniteSet(WinsNothing(m)) /\ Cardinality(WinsNothing(m)) \in Nat
      BY WalletsCounted DEF WinsNothing
    <3>3. Cardinality(WinsNothing(m) \cup {u})
             = IF u \in WinsNothing(m) THEN Cardinality(WinsNothing(m))
                                       ELSE Cardinality(WinsNothing(m)) + 1
      BY <3>2, FS_AddElement
    <3>4. u \in WinsNothing(m) <=> ~(x > 0)
      BY <2>3 DEF WinsNothing
    <3> QED
      BY <3>1, <3>2, <3>3, <3>4
  <2>10. acct.pool[acct.outcome] > 0 =>
            vault'[m] <= Rent + BondDue(m) + (r - x) + LosingShare(acct, r - x)
                            + Cardinality(WinsNothing(m)')
    <3>1. acct.pool[acct.outcome] > 0 =>
             vault[m] <= Rent + BondDue(m) + r + LosingShare(acct, r)
                            + Cardinality(WinsNothing(m))
      BY <1>12 DEF Escrowed, OwesWinners
    <3>2. LosingShare(acct, r) <= LosingShare(acct, x) + LosingShare(acct, r - x)
                                    + (IF x > 0 THEN 1 ELSE 0)
      <4>1. CASE x > 0
        BY <1>1, <2>1, <2>3, <4>1, SharesAddUp
      <4>2. CASE x = 0
        <5>1. r - x = r
          BY <2>3, <4>2
        <5> QED
          BY <2>5, <4>2, <5>1
      <4> QED
        BY <2>3, <4>1, <4>2
    <3> HIDE DEF x, r, gross, acct
    <3> QED
      BY <1>8, <1>9, <1>10, <2>2, <2>3, <2>5, <2>9, <3>1, <3>2
  <2>11. OwesWinners(m)'
    BY <1>9, <1>10, <2>3, <2>8, <2>10 DEF OwesWinners
  <2> QED
    BY <1>9, <1>12, <2>11 DEF Escrowed, Unsettled, STATUS_OPEN, STATUS_AWAITING,
        STATUS_SETTLED, STATUS_VOID
<1> QED
  BY <1>1, <1>11, <1>12 DEF Resolved

(* What a market owes covers any one of its positions.                     *)
LEMMA ClaimCovered ==
    ASSUME TInv, NEW m \in Markets, NEW u \in Users, Exists(m), Escrowed(m),
           market[m].status \in Resolved
    PROVE  vault[m] >= Rent + BondDue(m) + Gross(market[m], position[m][u])
<1> DEFINE acct == market[m]
           pos == position[m][u]
<1>1. acct \in MarketAccount /\ pos \in Position
  BY DEF Exists, TInv, TypeOK
<1>2. \A s \in Sides : /\ Stake(m, s) \in Nat /\ OnSide(pos, s) \in Nat
                       /\ OnSide(pos, s) <= Stake(m, s)
  <2> TAKE s \in Sides
  <2>1. StakeOn(m, s) \in [Users -> Nat] /\ Stake(m, s) \in Nat
    BY StakeNat
  <2>2. IsFiniteSet(Users)
    BY MarketAssumption
  <2>3. StakeOn(m, s)[u] <= Total(StakeOn(m, s))
    BY ONLY <2>1, <2>2, u \in Users, TotalBound
  <2> QED
    BY <1>1, <2>1, <2>3 DEF Stake, StakeOn, OnSide, Position
<1>3. vault[m] \in Nat /\ Rent \in Nat /\ BondDue(m) \in Nat
  BY MarketAssumption DEF TInv, TypeOK, BondDue
<1>4. CASE acct.status = STATUS_VOID
  <2>1. Gross(acct, pos) = OnSide(pos, SIDE_YES) + OnSide(pos, SIDE_NO)
    BY <1>1, <1>4 DEF Gross, OnSide, Position, Sides, SIDE_YES, SIDE_NO
  <2>2. SIDE_YES \in Sides /\ SIDE_NO \in Sides
    BY DEF Sides
  <2>3. OwesRefunds(m)
    BY <1>4 DEF Escrowed
  <2> HIDE DEF acct, pos
  <2>4. vault[m] >= Rent + BondDue(m) + Gross(acct, pos)
    BY <1>2, <1>3, <2>1, <2>2, <2>3 DEF OwesRefunds
  <2> QED
    BY <2>4 DEF acct, pos
<1>5. CASE acct.status = STATUS_SETTLED
  <2> DEFINE x == OnSide(pos, acct.outcome)
             r == Stake(m, acct.outcome)
  <2>1. acct.outcome \in Sides
    BY <1>5 DEF TInv, VerdictNamesSide
  <2>2. x \in Nat /\ r \in Nat /\ x <= r
    BY <1>2, <2>1
  <2>3. /\ LosingShare(acct, x) + LosingShare(acct, r - x) <= LosingShare(acct, r)
        /\ LosingShare(acct, x) \in Nat
        /\ LosingShare(acct, r - x) \in Nat
        /\ LosingShare(acct, r) \in Nat
    <3>1. r - x \in Nat
      BY <2>2
    <3> HIDE DEF x, r, acct, pos
    <3> QED
      BY <1>1, <2>1, <2>2, <3>1, SharesAddUp, LosingShareNat
  <2>4. vault[m] >= Rent + BondDue(m) + r + LosingShare(acct, r)
    BY <1>5 DEF Escrowed, OwesWinners
  <2>5. Gross(acct, pos) = x + LosingShare(acct, x) \/ Gross(acct, pos) = 0
    BY <1>5 DEF Gross, OnSide, STATUS_SETTLED, STATUS_VOID
  <2> HIDE DEF x, r, acct, pos
  <2>6. vault[m] >= Rent + BondDue(m) + Gross(acct, pos)
    BY <1>3, <2>2, <2>3, <2>4, <2>5
  <2> QED
    BY <2>6 DEF acct, pos
<1> QED
  BY <1>4, <1>5 DEF Resolved

-----------------------------------------------------------------------------
LEMMA EscrowInit == Init => Escrow
BY DEF Init, MarketInit, Escrow, Fresh, Exists

(* A step about one market: it keeps Escrow if it does so for that market  *)
(* and leaves the accounts of every other one alone.                       *)
LEMMA OneMarket ==
    ASSUME Escrow, NEW m \in Markets,
           ~Exists(m)' => vault'[m] = 0,
           Fresh(m)' => Escrowed(m)',
           \A n \in Markets : n # m =>
              /\ market'[n] = market[n]
              /\ vault'[n] = vault[n]
              /\ position'[n] = position[n]
              /\ inherited'[n] = inherited[n]
    PROVE  Escrow'
<1> SUFFICES ASSUME NEW n \in Markets
             PROVE  /\ ~Exists(n)' => vault'[n] = 0
                    /\ Fresh(n)' => Escrowed(n)'
  BY DEF Escrow
<1>1. CASE n = m
  BY <1>1
<1>2. CASE n # m
  <2>1. ~Exists(n)' => vault'[n] = 0
    BY <1>2 DEF Escrow, Exists
  <2>2. Fresh(n)' => Escrowed(n)'
    BY <1>2, Frame DEF Escrow
  <2> QED
    BY <2>1, <2>2
<1> QED
  BY <1>1, <1>2

(* A step that touches no account of a market keeps Escrow.                *)
LEMMA NoMarket ==
    ASSUME Escrow, UNCHANGED <<market, vault, position, inherited>>
    PROVE  Escrow'
<1> SUFFICES ASSUME NEW n \in Markets
             PROVE  /\ ~Exists(n)' => vault'[n] = 0
                    /\ Fresh(n)' => Escrowed(n)'
  BY DEF Escrow
<1>1. ~Exists(n)' => vault'[n] = 0
  BY DEF Escrow, Exists
<1>2. Fresh(n)' => Escrowed(n)'
  BY Frame DEF Escrow
<1> QED
  BY <1>1, <1>2

(* A bet keeps Escrow, whoever pays for it.                                *)
LEMMA BetKeeps ==
    ASSUME TInv, Escrow, NEW payer \in Users \cup SessionKeys,
           NEW owner \in Users, NEW m \in Markets, NEW side \in Sides,
           NEW amount \in Nat, AcceptsBets(m),
           ApplyJoin(payer, owner, m, side, amount), inherited' = inherited
    PROVE  Escrow'
<1>1. Fresh(m)' => Escrowed(m)'
  <2>1. Fresh(m)' => Fresh(m)
    BY DEF Fresh, AcceptsBets
  <2>2. Fresh(m) => Escrowed(m)
    BY DEF Escrow
  <2> QED
    BY <2>1, <2>2, BetEscrowed
<1>2. Exists(m)'
  <2>1. market[m] \in MarketAccount
    BY DEF AcceptsBets, Exists, TInv, TypeOK
  <2>2. market'[m] = [market[m] EXCEPT !.pool[side] = @ + amount]
    BY DEF ApplyJoin, TInv, TypeOK
  <2>3. market'[m] \in MarketAccount
    BY <2>1, <2>2 DEF MarketAccount
  <2> QED
    BY <2>3, NoAccountAssumption DEF Exists
<1>3. \A n \in Markets : n # m =>
         /\ market'[n] = market[n]
         /\ vault'[n] = vault[n]
         /\ position'[n] = position[n]
         /\ inherited'[n] = inherited[n]
  BY DEF ApplyJoin, TInv, TypeOK
<1> QED
  BY <1>1, <1>2, <1>3, OneMarket

(* A settlement keeps Escrow, whoever names the outcome.                   *)
LEMMA SettleKeeps ==
    ASSUME TInv, Escrow, NEW m \in Markets, NEW o \in Sides, Settle(m, o),
           inherited' = inherited
    PROVE  Escrow'
<1>1. Exists(m)
  BY DEF Settle, Settleable
<1>2. Exists(m)'
  <2>1. market[m] \in MarketAccount /\ clock \in Nat
    BY <1>1 DEF Exists, TInv, TypeOK
  <2>2. market'[m] = [market[m] EXCEPT !.status = STATUS_SETTLED,
                                       !.outcome = o, !.settlesAt = clock]
    BY DEF Settle, TInv, TypeOK
  <2>3. market'[m] \in MarketAccount
    BY <2>1, <2>2 DEF MarketAccount, Resolved
  <2> QED
    BY <2>3, NoAccountAssumption DEF Exists
<1>3. Fresh(m)' => Escrowed(m)'
  BY <1>1, SettleEscrowed DEF Escrow, Fresh
<1>4. \A n \in Markets : n # m => market'[n] = market[n]
  BY DEF Settle, TInv, TypeOK
<1> QED
  BY <1>2, <1>3, <1>4, OneMarket DEF Settle

(* Only close_market removes an account.                                   *)
LEMMA StaysAccount ==
    ASSUME TInv, NEW m \in Markets, NEW u \in Users, NEW o \in Sides,
           \/ Settle(m, o)
           \/ VoidMarket(m)
           \/ AttestVerification(m)
           \/ ClaimBond(u, m)
           \/ Claim(u, m)
    PROVE  Exists(m) /\ Exists(m)'
<1>1. Exists(m)
  BY DEF Settle, Settleable, VoidMarket, Voidable, AttestVerification,
      ClaimBond, Claim
<1>2. market[m] \in MarketAccount /\ clock \in Nat
  BY <1>1 DEF Exists, TInv, TypeOK
<1>3. market'[m] \in MarketAccount
  <2>1. CASE Settle(m, o)
    <3>1. market'[m] = [market[m] EXCEPT !.status = STATUS_SETTLED,
                                         !.outcome = o, !.settlesAt = clock]
      BY <2>1 DEF Settle, TInv, TypeOK
    <3> QED
      BY <1>2, <3>1 DEF MarketAccount, Resolved
  <2>2. CASE VoidMarket(m)
    <3>1. market'[m] = [market[m] EXCEPT !.status = STATUS_VOID,
                            !.outcome = OUTCOME_VOID, !.settlesAt = clock]
      BY <2>2 DEF VoidMarket, TInv, TypeOK
    <3> QED
      BY <1>2, <3>1 DEF MarketAccount, Resolved
  <2>3. CASE AttestVerification(m)
    <3>1. market'[m] = [market[m] EXCEPT !.verifications = @ + 1]
      BY <2>3 DEF AttestVerification, TInv, TypeOK
    <3> QED
      BY <1>2, <3>1 DEF MarketAccount
  <2>4. CASE ClaimBond(u, m)
    <3>1. market'[m] = [market[m] EXCEPT !.bondClaimed = TRUE]
      BY <2>4 DEF ClaimBond, TInv, TypeOK
    <3> QED
      BY <1>2, <3>1 DEF MarketAccount
  <2>5. CASE Claim(u, m)
    BY <1>2, <2>5 DEF Claim
  <2> QED
    BY <2>1, <2>2, <2>3, <2>4, <2>5
<1> QED
  BY <1>1, <1>3, NoAccountAssumption DEF Exists

LEMMA EscrowStep == TInv /\ Escrow /\ [Next]_vars => Escrow'
<1> SUFFICES ASSUME TInv, Escrow, [Next]_vars PROVE Escrow'
  OBVIOUS
<1> USE DEF Quiet, historyVars
<1>1. CASE TickStep
  BY <1>1, NoMarket DEF TickStep, Tick
<1>2. CASE InitializeStep
  BY <1>2, NoMarket DEF InitializeStep, InitializeProtocol
<1>3. CASE CreateStep
  <2>1. PICK u \in Users, m \in Markets, v \in Validators, c \in CloseTimes :
          /\ CreateMarket(u, m, v, c)
          /\ inherited' = [inherited EXCEPT ![m] =
                              {w \in Users : position[m][w].amount > 0}]
    BY <1>3 DEF CreateStep
  <2>2. vault[m] = 0
    BY <2>1 DEF CreateMarket, Escrow
  <2>3. Exists(m)'
    <3>1. market'[m].status = STATUS_OPEN
      BY <2>1 DEF CreateMarket, TInv, TypeOK
    <3>2. market'[m] \in MarketAccount \cup {NoAccount}
      BY TInvStep DEF TInv, TypeOK
    <3>3. market' [m] =
             [creator |-> u, oracle |-> v, bondClaimed |-> FALSE,
              pool |-> [s \in Sides |-> 0], closesAt |-> c,
              settlesAt |-> 0, status |-> STATUS_OPEN, outcome |-> OUTCOME_VOID,
              feeBps |-> config.feeBps, verifications |-> 0]
      BY <2>1 DEF CreateMarket, TInv, TypeOK
    <3>4. config \in Protocol /\ c \in Nat
      BY <2>1, MarketAssumption DEF CreateMarket, TInv, TypeOK
    <3>5. market'[m] \in MarketAccount
      BY <3>3, <3>4 DEF MarketAccount, Protocol, Unsettled
    <3> QED
      BY <3>5, NoAccountAssumption DEF Exists
  <2>4. ASSUME Fresh(m)' PROVE Escrowed(m)'
    <3>1. \A w \in Users : ~(position[m][w].amount > 0)
      BY <2>1, <2>4 DEF Fresh, TInv, TypeOK
    <3>2. \A w \in Users : position[m][w].amount = 0
      BY <3>1 DEF TInv, TypeOK, Position
    <3> QED
      BY <2>1, <2>2, <3>2, CreateEscrowed
  <2>5. \A n \in Markets : n # m =>
           /\ market'[n] = market[n]
           /\ vault'[n] = vault[n]
           /\ position'[n] = position[n]
           /\ inherited'[n] = inherited[n]
    BY <2>1 DEF CreateMarket, TInv, TypeOK
  <2> QED
    BY <2>3, <2>4, <2>5, OneMarket
<1>4. CASE JoinStep
  <2>1. PICK u \in Users, m \in Markets, s \in Sides, a \in Amounts :
          JoinViaWallet(u, m, s, a) /\ Quiet
    BY <1>4 DEF JoinStep
  <2>2. a \in Nat /\ AcceptsBets(m) /\ ApplyJoin(u, u, m, s, a)
    BY <2>1, MarketAssumption DEF JoinViaWallet
  <2>3. inherited' = inherited
    BY <2>1
  <2> QED
    BY <2>2, <2>3, BetKeeps
<1>5. CASE DelegateStep
  BY <1>5, NoMarket DEF DelegateStep, DelegateSessionKey
<1>6. CASE RevokeStep
  BY <1>6, NoMarket DEF RevokeStep, RevokeSessionKey, marketVars
<1>7. CASE SessionJoinStep
  <2>1. PICK u \in Users, k \in SessionKeys, m \in Markets, s \in Sides,
             a \in Amounts :
          /\ JoinViaSessionKey(k, u, m, s, a)
          /\ inherited' = inherited
    BY <1>7 DEF SessionJoinStep
  <2>2. a \in Nat /\ AcceptsBets(m) /\ ApplyJoin(k, u, m, s, a)
    BY <2>1, MarketAssumption DEF JoinViaSessionKey
  <2> QED
    BY <2>1, <2>2, BetKeeps
<1>8. CASE ResolveStep
  BY <1>8, NoMarket DEF ResolveStep, ResolveMarket, marketVars
<1>9. CASE ForceSettleStep
  <2>1. PICK u \in Users, m \in Markets, o \in Sides :
          ForceSettle(u, m, o) /\ inherited' = inherited
    BY <1>9 DEF ForceSettleStep
  <2> QED
    BY <2>1, SettleKeeps DEF ForceSettle
<1>10. CASE ProofSettleStep
  <2>1. PICK m \in Markets, o \in Sides :
          SettleFromProof(m, o, resolution[m]) /\ inherited' = inherited
    BY <1>10 DEF ProofSettleStep
  <2> QED
    BY <2>1, SettleKeeps DEF SettleFromProof
<1>11. CASE VoidStep
  <2>1. PICK m \in Markets : VoidMarket(m) /\ Quiet
    BY <1>11 DEF VoidStep
  <2>2. PICK u \in Users, o \in Sides : TRUE
    <3>1. market[m] \in MarketAccount
      BY <2>1 DEF VoidMarket, Voidable, Exists, TInv, TypeOK
    <3> QED
      BY <3>1 DEF MarketAccount, Sides
  <2>3. Exists(m) /\ Exists(m)'
    BY <2>1, <2>2, StaysAccount
  <2>4. Fresh(m)' => Escrowed(m)'
    BY <2>1, <2>3, VoidEscrowed DEF Escrow, Fresh
  <2>5. \A n \in Markets : n # m => market'[n] = market[n]
    BY <2>1 DEF VoidMarket, TInv, TypeOK
  <2> QED
    BY <2>1, <2>3, <2>4, <2>5, OneMarket DEF VoidMarket
<1>12. CASE AttestStep
  <2>1. PICK m \in Markets : AttestVerification(m) /\ Quiet
    BY <1>12 DEF AttestStep
  <2>2. PICK u \in Users, o \in Sides : TRUE
    <3>1. market[m] \in MarketAccount
      BY <2>1 DEF AttestVerification, Exists, TInv, TypeOK
    <3> QED
      BY <3>1 DEF MarketAccount, Sides
  <2>3. Exists(m) /\ Exists(m)'
    BY <2>1, <2>2, StaysAccount
  <2>4. Fresh(m)' => Escrowed(m)'
    BY <2>1, <2>3, AttestEscrowed DEF Escrow, Fresh
  <2>5. \A n \in Markets : n # m => market'[n] = market[n]
    BY <2>1 DEF AttestVerification, TInv, TypeOK
  <2> QED
    BY <2>1, <2>3, <2>4, <2>5, OneMarket DEF AttestVerification
<1>13. CASE ClaimStep
  <2>1. PICK u \in Users, m \in Markets : Claim(u, m) /\ Quiet
    BY <1>13 DEF ClaimStep
  <2>2. SIDE_YES \in Sides
    BY DEF Sides
  <2>3. Exists(m) /\ Exists(m)'
    BY <2>1, <2>2, StaysAccount
  <2>4. Fresh(m)' => Escrowed(m)'
    BY <2>1, <2>3, ClaimEscrowed DEF Escrow, Fresh
  <2>5. \A n \in Markets : n # m =>
           market'[n] = market[n] /\ vault'[n] = vault[n]
              /\ position'[n] = position[n]
    BY <2>1 DEF Claim, TInv, TypeOK
  <2> QED
    BY <2>1, <2>3, <2>4, <2>5, OneMarket
<1>14. CASE ClaimBondStep
  <2>1. PICK u \in Users, m \in Markets : ClaimBond(u, m) /\ Quiet
    BY <1>14 DEF ClaimBondStep
  <2>2. SIDE_YES \in Sides
    BY DEF Sides
  <2>3. Exists(m) /\ Exists(m)'
    BY <2>1, <2>2, StaysAccount
  <2>4. Fresh(m)' => Escrowed(m)'
    BY <2>1, <2>3, BondEscrowed DEF Escrow, Fresh
  <2>5. \A n \in Markets : n # m =>
           market'[n] = market[n] /\ vault'[n] = vault[n]
    BY <2>1 DEF ClaimBond, TInv, TypeOK
  <2> QED
    BY <2>1, <2>3, <2>4, <2>5, OneMarket DEF ClaimBond
<1>15. CASE CloseStep
  <2>1. PICK u \in Users, m \in Markets : CloseMarket(u, m) /\ Quiet
    BY <1>15 DEF CloseStep
  <2>2. ~Exists(m)' /\ vault'[m] = 0
    BY <2>1 DEF CloseMarket, Exists, TInv, TypeOK
  <2>3. \A n \in Markets : n # m =>
           market'[n] = market[n] /\ vault'[n] = vault[n]
    BY <2>1 DEF CloseMarket, TInv, TypeOK
  <2> QED
    BY <2>1, <2>2, <2>3, OneMarket DEF CloseMarket, Fresh
<1>16. CASE UNCHANGED vars
  BY <1>16, NoMarket DEF vars, marketVars
<1> QED
  BY <1>1, <1>2, <1>3, <1>4, <1>5, <1>6, <1>7, <1>8, <1>9, <1>10, <1>11,
     <1>12, <1>13, <1>14, <1>15, <1>16 DEF Next

-----------------------------------------------------------------------------
LEMMA EscrowAlways == Spec => [](TInv /\ Escrow)
<1>1. Init => TInv /\ Escrow
  BY TInvInit, EscrowInit
<1>2. (TInv /\ Escrow) /\ [Next]_vars => (TInv /\ Escrow)'
  BY TInvStep, EscrowStep
<1> QED
  BY <1>1, <1>2, PTL DEF Spec

(* While a market is unsettled, its pools are the sums of its positions    *)
(* and its vault holds exactly rent, bond and pools, for any number of     *)
(* bettors, session keys and stakes.                                       *)
THEOREM PoolsAlwaysBacked == Spec => []PoolsBacked
<1>1. TInv /\ Escrow => PoolsBacked
  BY DEF Escrow, Escrowed, Backed, Stake, PoolsBacked
<1> QED
  BY <1>1, EscrowAlways, PTL

(* After the verdict, every claim that may come next is covered together   *)
(* with rent and bond, whatever the stakes, the fee and the order of the   *)
(* claims before it.                                                       *)
THEOREM AlwaysSolvent == Spec => []Solvent
<1>1. TInv /\ Escrow => Solvent
  <2> SUFFICES ASSUME TInv, Escrow, NEW m \in Markets, NEW u \in Users,
                      Fresh(m), market[m].status \in Resolved
               PROVE  vault[m] >= Rent + BondDue(m)
                                    + Gross(market[m], position[m][u])
    BY DEF Solvent
  <2>1. Exists(m) /\ Escrowed(m)
    BY DEF Escrow, Fresh
  <2> QED
    BY <2>1, ClaimCovered
<1> QED
  BY <1>1, EscrowAlways, PTL

LEMMA EscrowLeavesResidue == TInv /\ Escrow => OnlyResidueIsLeft
<1> SUFFICES ASSUME TInv, Escrow, NEW m \in Markets,
                    Fresh(m), market[m].status \in Resolved
             PROVE  LET owed == Rent + BondDue(m) + Unclaimed(m)
                    IN  /\ vault[m] >= owed
                        /\ market[m].status = STATUS_VOID => vault[m] = owed
                        /\ market[m].status = STATUS_SETTLED
                              /\ market[m].pool[market[m].outcome] > 0 =>
                                 vault[m] <= owed + Cardinality(Users)
  BY DEF OnlyResidueIsLeft
<1>1. Escrowed(m) /\ market[m] \in MarketAccount
  BY DEF Escrow, Fresh, Exists, TInv, TypeOK
<1>2. vault[m] \in Nat /\ Rent \in Nat /\ BondDue(m) \in Nat
  BY MarketAssumption DEF TInv, TypeOK, BondDue
<1>3. \A s \in Sides : Stake(m, s) \in Nat
  BY StakeNat
<1>4. CASE market[m].status = STATUS_VOID
  <2>1. vault[m] = Rent + BondDue(m) + Stake(m, SIDE_YES) + Stake(m, SIDE_NO)
    BY <1>1, <1>4 DEF Escrowed, OwesRefunds
  <2>2. Unclaimed(m) = Stake(m, SIDE_YES) + Stake(m, SIDE_NO)
    BY <1>4 DEF Unclaimed, Stake
  <2>3. Stake(m, SIDE_YES) \in Nat /\ Stake(m, SIDE_NO) \in Nat
    BY <1>3 DEF Sides
  <2> QED
    BY <1>2, <1>4, <2>1, <2>2, <2>3 DEF STATUS_VOID, STATUS_SETTLED
<1>5. CASE market[m].status = STATUS_SETTLED
  <2> DEFINE r == Stake(m, market[m].outcome)
  <2>1. OwesWinners(m) /\ market[m].outcome \in Sides
    BY <1>1, <1>5 DEF Escrowed, TInv, VerdictNamesSide, Fresh
  <2>2. r \in Nat /\ LosingShare(market[m], r) \in Nat
    BY <1>1, <1>3, <2>1, LosingShareNat
  <2>3. Unclaimed(m) = r + LosingShare(market[m], r)
    BY <1>5 DEF Unclaimed, Stake, STATUS_VOID, STATUS_SETTLED
  <2>4. /\ Cardinality(WinsNothing(m)) \in Nat /\ Cardinality(Users) \in Nat
        /\ Cardinality(WinsNothing(m)) <= Cardinality(Users)
    BY MarketAssumption, WalletsCounted, FS_Subset DEF WinsNothing
  <2>5. /\ vault[m] >= Rent + BondDue(m) + r + LosingShare(market[m], r)
        /\ market[m].pool[market[m].outcome] > 0 =>
              vault[m] <= Rent + BondDue(m) + r + LosingShare(market[m], r)
                             + Cardinality(WinsNothing(m))
    BY <2>1 DEF OwesWinners
  <2> HIDE DEF r
  <2> QED
    BY <1>2, <1>5, <2>2, <2>3, <2>4, <2>5 DEF STATUS_VOID, STATUS_SETTLED
<1> QED
  BY <1>4, <1>5 DEF Resolved

(* Whatever the stakes, the fee and the order of the claims, what is in a  *)
(* resolved account belongs to it, to its creator or to a position that    *)
(* has not been claimed, but for fractions of a lamport.                   *)
THEOREM VaultIsAccountedFor == Spec => []OnlyResidueIsLeft
BY EscrowLeavesResidue, EscrowAlways, PTL

(* What is not owed stays small: once nobody holds a position, a void      *)
(* market is left with its rent and its bond, and a settled one whose side *)
(* had been bet on with at most one lamport more for each wallet, which    *)
(* the floors of claim have left.                                          *)
LittleIsLeft ==
    \A m \in Markets :
        (/\ Fresh(m) /\ market[m].status \in Resolved
         /\ \A u \in Users : position[m][u].amount = 0) =>
            /\ market[m].status = STATUS_VOID => vault[m] = Rent + BondDue(m)
            /\ market[m].status = STATUS_SETTLED
                   /\ market[m].pool[market[m].outcome] > 0 =>
                      vault[m] <= Rent + BondDue(m) + Cardinality(Users)

(* Whatever the stakes, the fee and the order of the claims, the claims    *)
(* empty a market but for the fractions of a lamport: none of its pools is *)
(* stranded in it, or left to the creator who closes it.                   *)
THEOREM ClaimsEmptyTheVault == Spec => []LittleIsLeft
<1>1. TInv /\ Escrow => LittleIsLeft
  <2> SUFFICES ASSUME TInv, Escrow, NEW m \in Markets,
                      Fresh(m), market[m].status \in Resolved,
                      \A u \in Users : position[m][u].amount = 0
               PROVE  /\ market[m].status = STATUS_VOID =>
                            vault[m] = Rent + BondDue(m)
                      /\ market[m].status = STATUS_SETTLED
                            /\ market[m].pool[market[m].outcome] > 0 =>
                               vault[m] <= Rent + BondDue(m) + Cardinality(Users)
    BY DEF LittleIsLeft
  <2>1. market[m] \in MarketAccount
          /\ (market[m].status = STATUS_SETTLED => market[m].outcome \in Sides)
    BY DEF Fresh, Exists, TInv, TypeOK, VerdictNamesSide
  <2>2. \A s : Total(StakeOn(m, s)) = 0
    <3> TAKE s
    <3>1. StakeOn(m, s) = [u \in Users |-> 0]
      BY DEF StakeOn, OnSide
    <3> QED
      BY <3>1, TotalZero
  <2>3. market[m].status = STATUS_SETTLED => LosingShare(market[m], 0) = 0
    <3> SUFFICES ASSUME market[m].status = STATUS_SETTLED
                 PROVE  LosingShare(market[m], 0) = 0
      OBVIOUS
    <3>1. /\ market[m].pool[market[m].outcome] \in Nat
          /\ market[m].pool[OtherSide(market[m].outcome)] \in Nat
      BY <2>1 DEF MarketAccount, OtherSide, Sides
    <3>2. \A l, w \in Nat : w > 0 => (0 * l) \div w = 0
      OBVIOUS
    <3> QED
      BY <3>1, <3>2 DEF LosingShare
  <2>4. Unclaimed(m) = 0
    BY <2>2, <2>3 DEF Unclaimed, Resolved
  <2>5. OnlyResidueIsLeft
    BY EscrowLeavesResidue
  <2>6. /\ vault[m] \in Nat /\ Rent \in Nat /\ BondDue(m) \in Nat
        /\ Cardinality(Users) \in Nat
    BY MarketAssumption, WalletsCounted DEF TInv, TypeOK, BondDue
  <2> QED
    BY <2>4, <2>5, <2>6 DEF OnlyResidueIsLeft
<1> QED
  BY <1>1, EscrowAlways, PTL

-----------------------------------------------------------------------------
(* The supply of lamports, and what a grant has spent.                     *)

Holders == Users \cup SessionKeys
Supply == treasury + Total(lamports) + Total(vault)

LEMMA Finite ==
    /\ IsFiniteSet(Holders)
    /\ IsFiniteSet(Markets)
BY MarketAssumption, FS_Union DEF Holders

LEMMA TotalsTyped ==
    ASSUME TInv
    PROVE  /\ lamports \in [Holders -> Nat] /\ Total(lamports) \in Nat
           /\ vault \in [Markets -> Nat] /\ Total(vault) \in Nat
           /\ treasury \in Nat
<1>1. /\ lamports \in [Holders -> Nat]
      /\ vault \in [Markets -> Nat]
      /\ treasury \in Nat
  BY DEF TInv, TypeOK, Holders
<1> QED
  BY <1>1, Finite, TotalNat

(* At the start wallets own InitialLamports each and keys nothing.         *)
LEMMA SupplyInit == Init => Conservation
<1> SUFFICES ASSUME Init PROVE Conservation
  OBVIOUS
<1>1. Total(vault) = 0
  BY TotalZero DEF Init, MarketInit
<1>2. lamports = [k \in Holders |-> IF k \in Users THEN InitialLamports ELSE 0]
  BY DEF Init, MarketInit, Holders
<1>3. Tickets(lamports) = Users \X (1..InitialLamports)
  <2>1. \A t : t \in Tickets(lamports)
                  <=> \E k \in Holders : t \in {k} \X (1..lamports[k])
    BY <1>2 DEF Tickets
  <2>2. \A k \in Holders : k \in Users => lamports[k] = InitialLamports
    BY <1>2
  <2>3. \A k \in Holders : k \notin Users => 1..lamports[k] = {}
    BY <1>2
  <2> QED
    BY <2>1, <2>2, <2>3 DEF Holders
<1>4. IsFiniteSet(Users) /\ InitialLamports \in Nat
  BY MarketAssumption
<1>5. /\ IsFiniteSet(1..InitialLamports)
      /\ Cardinality(1..InitialLamports) = InitialLamports
  <2>1. 1 \in Int /\ InitialLamports \in Int
    BY <1>4
  <2>2. /\ IsFiniteSet(1..InitialLamports)
        /\ Cardinality(1..InitialLamports)
             = IF 1 > InitialLamports THEN 0 ELSE InitialLamports - 1 + 1
    BY <2>1, FS_Interval
  <2> QED
    BY <1>4, <2>2
<1>6. Cardinality(Users \X (1..InitialLamports))
        = Cardinality(Users) * Cardinality(1..InitialLamports)
  BY <1>4, <1>5, FS_Product
<1>7. Total(lamports) = Cardinality(Users) * InitialLamports
  BY <1>3, <1>5, <1>6 DEF Total
<1>8. Cardinality(Users) * InitialLamports \in Nat
  BY <1>4, FS_CardinalityType
<1>9. treasury = 0
  BY DEF Init, MarketInit
<1> QED
  BY <1>1, <1>7, <1>8, <1>9 DEF Conservation

(* Lamports move between one holder, one vault and the treasury.           *)
LEMMA MoveLamports ==
    ASSUME TInv, NEW h \in Holders, NEW m \in Markets,
           NEW a \in Nat, NEW b \in Nat, NEW c \in Nat,
           lamports' = [lamports EXCEPT ![h] = a],
           vault' = [vault EXCEPT ![m] = b],
           treasury' = c,
           a + b + c = lamports[h] + vault[m] + treasury
    PROVE  Supply' = Supply
<1>1. Total(lamports)' = Total(lamports) - lamports[h] + a
  <2>1. lamports \in [Holders -> Nat] /\ IsFiniteSet(Holders)
    BY TotalsTyped, Finite
  <2>2. Total([lamports EXCEPT ![h] = a]) = Total(lamports) - lamports[h] + a
    BY ONLY <2>1, h \in Holders, a \in Nat, TotalUpdate
  <2> QED
    BY <2>2
<1>2. Total(vault)' = Total(vault) - vault[m] + b
  <2>1. vault \in [Markets -> Nat] /\ IsFiniteSet(Markets)
    BY TotalsTyped, Finite
  <2>2. Total([vault EXCEPT ![m] = b]) = Total(vault) - vault[m] + b
    BY ONLY <2>1, m \in Markets, b \in Nat, TotalUpdate
  <2> QED
    BY <2>2
<1>3. lamports[h] \in Nat /\ vault[m] \in Nat
  BY TotalsTyped
<1> QED
  BY <1>1, <1>2, <1>3, TotalsTyped DEF Supply

LEMMA SupplyStep == TInv /\ [Next]_vars => Supply' = Supply
<1> SUFFICES ASSUME TInv, [Next]_vars PROVE Supply' = Supply
  OBVIOUS
<1> USE MarketAssumption
<1>0. \A u \in Users : u \in Holders
  BY DEF Holders
<1>1. ASSUME NEW h \in Holders, NEW m \in Markets, NEW owner, NEW s,
             NEW a \in Nat, ApplyJoin(h, owner, m, s, a), treasury' = treasury
      PROVE  Supply' = Supply
  <2>1. lamports[h] \in Nat /\ vault[m] \in Nat /\ treasury \in Nat
    BY TotalsTyped
  <2> DEFINE kept == lamports[h] - a
             held == vault[m] + a
  <2>2. /\ lamports' = [lamports EXCEPT ![h] = kept]
        /\ vault' = [vault EXCEPT ![m] = held]
    BY <1>1 DEF ApplyJoin
  <2>3. /\ kept \in Nat /\ held \in Nat
        /\ kept + held + treasury = lamports[h] + vault[m] + treasury
    BY <1>1, <2>1 DEF ApplyJoin
  <2> HIDE DEF kept, held
  <2> QED
    BY <1>1, <2>1, <2>2, <2>3, MoveLamports
<1>2. CASE CreateStep
  <2>1. PICK u \in Users, m \in Markets, v \in Validators, c \in CloseTimes :
          CreateMarket(u, m, v, c)
    BY <1>2 DEF CreateStep
  <2>2. lamports[u] \in Nat /\ vault[m] \in Nat /\ treasury \in Nat
    BY <1>0, TotalsTyped
  <2> DEFINE a == lamports[u] - (Rent + MinBond)
             b == vault[m] + Rent + MinBond
  <2>3. /\ lamports' = [lamports EXCEPT ![u] = a]
        /\ vault' = [vault EXCEPT ![m] = b]
        /\ treasury' = treasury
    BY <2>1 DEF CreateMarket
  <2>4. /\ a \in Nat /\ b \in Nat
        /\ a + b + treasury = lamports[u] + vault[m] + treasury
    BY <2>1, <2>2 DEF CreateMarket
  <2> HIDE DEF a, b
  <2> QED
    BY <1>0, <2>2, <2>3, <2>4, MoveLamports
<1>3. CASE JoinStep
  <2>1. PICK u \in Users, m \in Markets, s \in Sides, a \in Amounts :
          JoinViaWallet(u, m, s, a)
    BY <1>3 DEF JoinStep
  <2> QED
    BY <1>0, <1>1, <2>1 DEF JoinViaWallet
<1>4. CASE SessionJoinStep
  <2>1. PICK u \in Users, k \in SessionKeys, m \in Markets, s \in Sides,
             a \in Amounts : JoinViaSessionKey(k, u, m, s, a)
    BY <1>4 DEF SessionJoinStep
  <2> QED
    BY <1>1, <2>1 DEF JoinViaSessionKey, Holders
<1>5. CASE DelegateStep
  <2>1. PICK u \in Users, k \in SessionKeys, allows \in BOOLEAN,
             p \in StakeCaps, t \in TotalCaps, e \in ExpiryTimes, f \in Amounts :
          DelegateSessionKey(u, k, allows, p, t, e, f)
    BY <1>5 DEF DelegateStep
  <2>2. u \in Holders /\ k \in Holders /\ u # k /\ f \in Nat
    BY DEF Holders
  <2>3. /\ lamports \in [Holders -> Nat] /\ IsFiniteSet(Holders)
        /\ lamports[u] \in Nat /\ lamports[k] \in Nat
    BY <2>2, TotalsTyped, Finite
  <2>4. lamports[u] - f \in Nat /\ lamports[k] + f \in Nat
    BY <2>1, <2>2, <2>3 DEF DelegateSessionKey
  <2> DEFINE paid == [lamports EXCEPT ![u] = lamports[u] - f]
  <2>5. paid \in [Holders -> Nat] /\ paid[k] = lamports[k]
    BY <2>2, <2>3, <2>4
  <2>6. Total(paid) = Total(lamports) - lamports[u] + (lamports[u] - f)
    BY ONLY <2>2, <2>3, <2>4, TotalUpdate
  <2>7. lamports' = [paid EXCEPT ![k] = lamports[k] + f]
    BY <2>1, <2>2 DEF DelegateSessionKey
  <2> HIDE DEF paid
  <2>8. Total([paid EXCEPT ![k] = lamports[k] + f])
           = Total(paid) - paid[k] + (lamports[k] + f)
    BY ONLY <2>2, <2>3, <2>4, <2>5, TotalUpdate
  <2>9. Total(lamports)' = Total(lamports)
    BY <2>2, <2>3, <2>5, <2>6, <2>7, <2>8, TotalsTyped
  <2> QED
    BY <2>1, <2>9 DEF DelegateSessionKey, Supply
<1>6. CASE ClaimStep
  <2>1. PICK u \in Users, m \in Markets : Claim(u, m)
    BY <1>6 DEF ClaimStep
  <2> DEFINE gross == Gross(market[m], position[m][u])
             fee == Fee(market[m], gross)
  <2>2. /\ market[m] \in MarketAccount
        /\ position[m][u] \in Position
        /\ market[m].status \in Resolved
        /\ market[m].status = STATUS_SETTLED => market[m].outcome \in Sides
    BY <2>1 DEF Claim, Exists, TInv, TypeOK, VerdictNamesSide
  <2>3. gross \in Nat
    BY <2>2, GrossNat
  <2>4. fee \in Nat /\ gross - fee \in Nat
    BY <2>2, <2>3, FeeWithinGross
  <2>5. lamports[u] \in Nat /\ vault[m] \in Nat /\ treasury \in Nat
    BY <1>0, TotalsTyped
  <2>6. /\ CanDebit(m, ClaimDebit(gross - fee, fee)) \/ gross = 0
        /\ vault' = [vault EXCEPT ![m] = vault[m] - ClaimDebit(gross - fee, fee)]
        /\ lamports' = [lamports EXCEPT ![u] = lamports[u] + (gross - fee)]
        /\ treasury' = treasury + fee
    BY <2>1 DEF Claim
  <2> HIDE DEF gross, fee
  <2>7. ClaimDebit(gross - fee, fee) = gross
    BY <2>3, <2>4 DEF ClaimDebit
  <2>8. /\ vault[m] - gross \in Nat
        /\ lamports[u] + (gross - fee) \in Nat
        /\ treasury + fee \in Nat
        /\ (lamports[u] + (gross - fee)) + (vault[m] - gross) + (treasury + fee)
             = lamports[u] + vault[m] + treasury
    BY <2>3, <2>4, <2>5, <2>6, <2>7 DEF CanDebit
  <2> QED
    BY <1>0, <2>6, <2>7, <2>8, MoveLamports
<1>7. CASE ClaimBondStep
  <2>1. PICK u \in Users, m \in Markets : ClaimBond(u, m)
    BY <1>7 DEF ClaimBondStep
  <2>2. lamports[u] \in Nat /\ vault[m] \in Nat /\ treasury \in Nat
    BY <1>0, TotalsTyped
  <2> DEFINE a == lamports[u] + MinBond
             b == vault[m] - MinBond
  <2>3. /\ lamports' = [lamports EXCEPT ![u] = a]
        /\ vault' = [vault EXCEPT ![m] = b]
        /\ treasury' = treasury
    BY <2>1 DEF ClaimBond
  <2>4. /\ a \in Nat /\ b \in Nat
        /\ a + b + treasury = lamports[u] + vault[m] + treasury
    BY <2>1, <2>2 DEF ClaimBond, CanDebit
  <2> HIDE DEF a, b
  <2> QED
    BY <1>0, <2>2, <2>3, <2>4, MoveLamports
<1>8. CASE CloseStep
  <2>1. PICK u \in Users, m \in Markets : CloseMarket(u, m)
    BY <1>8 DEF CloseStep
  <2>2. lamports[u] \in Nat /\ vault[m] \in Nat /\ treasury \in Nat
    BY <1>0, TotalsTyped
  <2> DEFINE a == lamports[u] + vault[m]
             b == 0
  <2>3. /\ lamports' = [lamports EXCEPT ![u] = a]
        /\ vault' = [vault EXCEPT ![m] = b]
        /\ treasury' = treasury
    BY <2>1 DEF CloseMarket
  <2>4. /\ a \in Nat /\ b \in Nat
        /\ a + b + treasury = lamports[u] + vault[m] + treasury
    BY <2>2
  <2> HIDE DEF a, b
  <2> QED
    BY <1>0, <2>2, <2>3, <2>4, MoveLamports
<1>9. CASE TickStep \/ InitializeStep \/ RevokeStep \/ ResolveStep
             \/ ForceSettleStep \/ ProofSettleStep \/ VoidStep \/ AttestStep
             \/ UNCHANGED vars
  <2>1. UNCHANGED <<treasury, lamports, vault>>
    BY <1>9 DEF TickStep, Tick, InitializeStep, InitializeProtocol, RevokeStep,
        RevokeSessionKey, ResolveStep, ResolveMarket, ForceSettleStep,
        ForceSettle, ProofSettleStep, SettleFromProof, Settle, VoidStep,
        VoidMarket, AttestStep, AttestVerification, vars, marketVars
  <2> QED
    BY <2>1 DEF Supply
<1> QED
  BY <1>2, <1>3, <1>4, <1>5, <1>6, <1>7, <1>8, <1>9 DEF Next

(* Wallets, session keys, vaults and treasury always hold together what    *)
(* the wallets held at the start.                                          *)
THEOREM LamportsConserved == Spec => []Conservation
<1>1. Init => TInv /\ Conservation
  BY TInvInit, SupplyInit
<1>2. TInv /\ Conservation /\ [Next]_vars => (TInv /\ Conservation)'
  BY TInvStep, SupplyStep DEF Conservation, Supply
<1> QED
  BY <1>1, <1>2, PTL DEF Spec

-----------------------------------------------------------------------------
(* stakedSoFar is the sum of what its grant put into the markets, and no   *)
(* session join takes it past the total cap.                               *)
Tally ==
    \A u \in Users, k \in SessionKeys : grant[u][k] # NoAccount =>
        /\ grant[u][k].stakedSoFar = Total(keyStake[u][k])
        /\ grant[u][k].maxTotalStake > 0 =>
               grant[u][k].stakedSoFar <= grant[u][k].maxTotalStake

LEMMA TallyStep == TInv /\ Tally /\ [Next]_vars => Tally'
<1> SUFFICES ASSUME TInv, Tally, [Next]_vars,
                    NEW x \in Users, NEW y \in SessionKeys,
                    (grant[x][y] # NoAccount)'
             PROVE  (/\ grant[x][y].stakedSoFar = Total(keyStake[x][y])
                     /\ grant[x][y].maxTotalStake > 0 =>
                          grant[x][y].stakedSoFar <= grant[x][y].maxTotalStake)'
  BY DEF Tally
<1>1. /\ grant \in [Users -> [SessionKeys -> Grant \cup {NoAccount}]]
      /\ keyStake \in [Users -> [SessionKeys -> [Markets -> Nat]]]
  BY DEF TInv, TypeOK
<1>2. CASE DelegateStep
  <2>1. PICK u \in Users, k \in SessionKeys, allows \in BOOLEAN,
             p \in StakeCaps, t \in TotalCaps, e \in ExpiryTimes, f \in Amounts :
          /\ DelegateSessionKey(u, k, allows, p, t, e, f)
          /\ keyStake' = [keyStake EXCEPT ![u][k] = [m \in Markets |-> 0]]
    BY <1>2 DEF DelegateStep
  <2> DEFINE g == [allowsMarket |-> allows, maxStakePerMarket |-> p,
                   maxTotalStake |-> t, stakedSoFar |-> 0, expiresAt |-> e]
             none == [m \in Markets |-> 0]
  <2>2. g.stakedSoFar = 0 /\ (g.maxTotalStake > 0 => 0 <= g.maxTotalStake)
    BY SessionAssumption
  <2>3. Total(none) = 0
    BY TotalZero
  <2>4. grant' = [grant EXCEPT ![u][k] = g]
    BY <2>1 DEF DelegateSessionKey
  <2>5. keyStake' = [keyStake EXCEPT ![u][k] = none]
    BY <2>1
  <2> HIDE DEF g, none
  <2>6. CASE x = u /\ y = k
    <3>1. grant'[x][y] = g /\ keyStake'[x][y] = none
      BY <1>1, <2>4, <2>5, <2>6
    <3> QED
      BY <2>2, <2>3, <3>1
  <2>7. CASE ~(x = u /\ y = k)
    <3>1. grant'[x][y] = grant[x][y] /\ keyStake'[x][y] = keyStake[x][y]
      BY <1>1, <2>4, <2>5, <2>7
    <3> QED
      BY <3>1 DEF Tally
  <2> QED
    BY <2>6, <2>7
<1>3. CASE SessionJoinStep
  <2>1. PICK u \in Users, k \in SessionKeys, m \in Markets, s \in Sides,
             a \in Amounts :
          /\ JoinViaSessionKey(k, u, m, s, a)
          /\ keyStake' = [keyStake EXCEPT ![u][k][m] = @ + a]
          /\ UNCHANGED <<resolution, settledBy, inherited>>
    BY <1>3 DEF SessionJoinStep
  <2> DEFINE g == [grant[u][k] EXCEPT !.stakedSoFar = @ + a]
             spent == keyStake[u][k]
             more == [spent EXCEPT ![m] = spent[m] + a]
  <2>2. grant[u][k] \in Grant /\ grant[u][k] # NoAccount /\ a \in Nat
    BY <1>1, <2>1, MarketAssumption DEF JoinViaSessionKey
  <2>3. /\ grant[u][k].maxTotalStake > 0 =>
              grant[u][k].stakedSoFar + a <= grant[u][k].maxTotalStake
        /\ grant' = [grant EXCEPT ![u][k].stakedSoFar = @ + a]
    BY <2>1 DEF JoinViaSessionKey, WithinGrant
  <2>4. grant' = [grant EXCEPT ![u][k] = g]
    BY <1>1, <2>3
  <2>5. keyStake' = [keyStake EXCEPT ![u][k] = more]
    BY <1>1, <2>1
  <2>6. /\ g.stakedSoFar = grant[u][k].stakedSoFar + a
        /\ g.maxTotalStake = grant[u][k].maxTotalStake
    BY <2>2 DEF Grant
  <2>7. spent \in [Markets -> Nat] /\ spent[m] \in Nat /\ spent[m] + a \in Nat
    BY <1>1, <2>2
  <2>8. Total(spent) = grant[u][k].stakedSoFar
    BY <2>2 DEF Tally
  <2>9. /\ Total(more) = Total(spent) - spent[m] + (spent[m] + a)
        /\ Total(spent) \in Nat
    <3>1. IsFiniteSet(Markets)
      BY MarketAssumption
    <3> HIDE DEF spent
    <3>2. Total([spent EXCEPT ![m] = spent[m] + a])
             = Total(spent) - spent[m] + (spent[m] + a)
      BY ONLY <2>7, <3>1, m \in Markets, TotalUpdate
    <3> QED
      BY <2>7, <3>1, <3>2, TotalNat
  <2> HIDE DEF spent
  <2>10. Total(more) = g.stakedSoFar
    BY <2>2, <2>6, <2>7, <2>8, <2>9
  <2> HIDE DEF g, more
  <2>11. CASE x = u /\ y = k
    <3>1. grant'[x][y] = g /\ keyStake'[x][y] = more
      BY <1>1, <2>4, <2>5, <2>11
    <3> QED
      BY <2>3, <2>6, <2>10, <3>1
  <2>12. CASE ~(x = u /\ y = k)
    <3>1. grant'[x][y] = grant[x][y] /\ keyStake'[x][y] = keyStake[x][y]
      BY <1>1, <2>4, <2>5, <2>12
    <3> QED
      BY <3>1 DEF Tally
  <2> QED
    BY <2>11, <2>12
<1>4. CASE RevokeStep
  <2>1. PICK u \in Users, k \in SessionKeys :
          RevokeSessionKey(u, k) /\ UNCHANGED keyStake
    BY <1>4 DEF RevokeStep, historyVars
  <2>2. ~(x = u /\ y = k)
    BY <1>1, <2>1 DEF RevokeSessionKey
  <2>3. grant'[x][y] = grant[x][y] /\ keyStake'[x][y] = keyStake[x][y]
    BY <1>1, <2>1, <2>2 DEF RevokeSessionKey
  <2> QED
    BY <2>3 DEF Tally
<1>5. CASE TickStep \/ InitializeStep \/ CreateStep \/ JoinStep \/ ResolveStep
             \/ ForceSettleStep \/ ProofSettleStep \/ VoidStep \/ AttestStep
             \/ ClaimStep \/ ClaimBondStep \/ CloseStep \/ UNCHANGED vars
  <2>1. UNCHANGED <<grant, keyStake>>
    BY <1>5 DEF TickStep, InitializeStep, CreateStep, JoinStep, ResolveStep,
        ForceSettleStep, ProofSettleStep, VoidStep, AttestStep, ClaimStep,
        ClaimBondStep, CloseStep, Quiet, vars, historyVars
  <2> QED
    BY <2>1 DEF Tally
<1> QED
  BY <1>2, <1>3, <1>4, <1>5 DEF Next

(* However many bets a session key places in however many markets, a       *)
(* capped grant loses at most its total cap.                               *)
THEOREM LossIsLimited == Spec => []LossLimit
<1>1. Init => TInv /\ Tally
  BY TInvInit DEF Init, SessionInit, Tally
<1>2. TInv /\ Tally /\ [Next]_vars => (TInv /\ Tally)'
  BY TInvStep, TallyStep
<1>3. TInv /\ Tally => LossLimit
  BY DEF Tally, LossLimit
<1> QED
  BY <1>1, <1>2, <1>3, PTL DEF Spec

=============================================================================
