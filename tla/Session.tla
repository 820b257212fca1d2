------------------------------ MODULE Session ------------------------------
(***************************************************************************)
(* Session-key delegation in the market program: a wallet creates a grant  *)
(* for a session keypair and funds it, the session key then bets for the   *)
(* wallet within the grant, and the wallet can close the grant at any      *)
(* time.  `revoked` is never set by the program (revocation closes the     *)
(* account), and session_ping changes nothing; neither is modelled.        *)
(***************************************************************************)
EXTENDS Market

CONSTANTS
    StakeCaps,    \* max_stake_per_market arguments
    TotalCaps,    \* max_total_stake arguments; 0 is "no cap"
    ExpiryTimes   \* expires_at arguments

VARIABLE grant    \* the SessionGrant account of each wallet and session key

(* allowsMarket: the allowlist contains the market program.                *)
Grant == [allowsMarket: BOOLEAN, maxStakePerMarket: Nat, maxTotalStake: Nat,
          stakedSoFar: Nat, expiresAt: Nat]

ASSUME SessionAssumption ==
    /\ StakeCaps \subseteq Nat
    /\ TotalCaps \subseteq Nat
    /\ ExpiryTimes \subseteq Nat
    /\ NoAccount \notin Grant

SessionInit == grant = [u \in Users |-> [k \in SessionKeys |-> NoAccount]]

DelegateSessionKey(u, k, allows, stakeCap, totalCap, expiresAt, fund) ==
    /\ grant[u][k] = NoAccount
    /\ lamports[u] >= fund
    /\ grant' = [grant EXCEPT ![u][k] =
          [allowsMarket |-> allows, maxStakePerMarket |-> stakeCap,
           maxTotalStake |-> totalCap, stakedSoFar |-> 0,
           expiresAt |-> expiresAt]]
    /\ lamports' = [lamports EXCEPT ![u] = @ - fund, ![k] = @ + fund]
    /\ UNCHANGED <<clock, config, market, vault, position, treasury>>

RevokeSessionKey(u, k) ==
    /\ grant[u][k] # NoAccount
    /\ grant' = [grant EXCEPT ![u][k] = NoAccount]
    /\ UNCHANGED marketVars

WithinGrant_CapAfter(g, amount) ==   \* mutant: compares before it adds
    /\ g.expiresAt > clock
    /\ g.maxTotalStake > 0 => g.stakedSoFar <= g.maxTotalStake
    /\ amount <= g.maxStakePerMarket
    /\ g.allowsMarket
WithinGrant(g, amount) ==
    /\ g.expiresAt > clock
    /\ g.maxTotalStake > 0 => g.stakedSoFar + amount <= g.maxTotalStake
    /\ amount <= g.maxStakePerMarket
    /\ g.allowsMarket

JoinViaSessionKey(k, u, m, side, amount) ==
    /\ amount > 0
    /\ grant[u][k] # NoAccount
    /\ WithinGrant(grant[u][k], amount)
    /\ AcceptsBets(m)
    /\ ApplyJoin(k, u, m, side, amount)
    /\ grant' = [grant EXCEPT ![u][k].stakedSoFar = @ + amount]
    /\ UNCHANGED <<clock, config, treasury>>

=============================================================================
