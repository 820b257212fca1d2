------------------------------ MODULE SettleTx ------------------------------
(***************************************************************************)
(* Building the transactions of a settlement whose bundle exceeds a packet *)
(* (apps/agent/src/settle.ts): the addresses of the settlement are looked  *)
(* up in an on-chain address lookup table, which the keeper creates, pins  *)
(* in memory and in a file, extends, and replaces when it is full.         *)
(* Several settlements of one process are under way at once; one action is *)
(* the code between two awaits.                                            *)
(*                                                                         *)
(* Slots are not numbered: an address is new in the slot that adds it to a *)
(* table, and usable from the next one on.  SETTLE_ALT_ADDRESS is not set. *)
(***************************************************************************)
EXTENDS Naturals, FiniteSets

CONSTANTS
    Settlements,  \* settlements being built
    Needed,       \* the addresses of each that can be looked up
    MaxTables,    \* bound on the tables created
    Capacity,     \* 256
    Statics,      \* number of SETTLE_ALT_ADDRESSES
    MaxFaults,    \* bound on failures, lost answers, reverts and restarts
    None

VARIABLES
    table,   \* the lookup table at each address, or None
    file,    \* the address in .runtime/settle-alt.json, or None
    pin,     \* pendingAlt
    work,    \* where each settlement is, and the table it has fetched
    minted,  \* history: how many tables were created or asked for
    faults

chainVars == <<table, minted>>
vars == <<chainVars, file, pin, work, faults>>

Tables == 1..MaxTables   \* their addresses, in the order of creation
Addresses == UNION {Needed[s] : s \in Settlements}

(* `others` counts the addresses no modelled settlement needs.             *)
Table == [held: SUBSET Addresses, new: SUBSET Addresses, others: 0..Capacity,
          fresh: BOOLEAN]

ASSUME SettleTxAssumption ==
    /\ IsFiniteSet(Settlements) /\ IsFiniteSet(Addresses)
    /\ None \notin Nat /\ None \notin Table
    /\ {Statics, Capacity, MaxTables, MaxFaults} \subseteq Nat
    /\ Statics + Cardinality(Addresses) <= Capacity /\ MaxTables # 0

TableOf(addresses) == [held |-> addresses, new |-> addresses,
                       others |-> Statics, fresh |-> TRUE]
Size(t) == t.others + Cardinality(t.held)
Extended(t, addresses) ==
    [t EXCEPT !.held = @ \cup addresses,
              !.new = @ \cup (addresses \ t.held), !.fresh = TRUE]
Activated(t) == [t EXCEPT !.new = {}, !.fresh = FALSE]

Idle == [at |-> "idle", address |-> None, lut |-> None]

(* There is no table, or one from earlier settlements that is full.        *)
Init ==
    /\ \/ table = [a \in Tables |-> None] /\ file = None /\ minted = 0
       \/ /\ table = [a \in Tables |-> IF a = 1
                            THEN [held |-> {}, new |-> {}, others |-> Capacity,
                                  fresh |-> FALSE]
                            ELSE None]
          /\ file = 1 /\ minted = 1
    /\ pin = None
    /\ work = [s \in Settlements |-> Idle]
    /\ faults = 0

-----------------------------------------------------------------------------
Fault == faults < MaxFaults /\ faults' = faults + 1

At(s, place) == work[s].at = place
Step(s, r) == work' = [work EXCEPT ![s] = r]
Goto(s, place) == Step(s, [work[s] EXCEPT !.at = place])

(* The build throws; the caller tries again on a later tick.               *)
Throws(s) == Step(s, Idle)

Known_Forgotten == None   \* mutant: every attempt looks for no table
Known == IF file # None THEN file ELSE pin

(* loadSettleAlt: the table of the state file or of the pin, else a new    *)
(* one.                                                                    *)
Discover(s) ==
    /\ At(s, "idle")
    /\ IF Known = None
       THEN Goto(s, "minting") /\ UNCHANGED pin
       ELSE /\ pin' = Known
            /\ Step(s, [Idle EXCEPT !.at = "fetching", !.address = Known])
    /\ UNCHANGED <<chainVars, file, faults>>

Found_Unchecked(a) == TRUE   \* mutant: no test for a table that is not there
Found(a) == table[a] # None

Fetch(s) ==
    /\ At(s, "fetching")
    /\ IF Found(work[s].address)
       THEN Step(s, [work[s] EXCEPT !.at = "fetched",
                                    !.lut = table[work[s].address]])
       ELSE Throws(s)
    /\ UNCHANGED <<chainVars, file, pin, faults>>

(* slot > lastExtendedSlot, of the table as it was fetched.                *)
Usable_SameSlot(lut) == TRUE   \* mutant: >=
Usable(lut) == ~lut.fresh

CheckSlot(s) ==
    /\ At(s, "fetched")
    /\ IF Usable(work[s].lut) THEN Goto(s, "ensuring") ELSE Throws(s)
    /\ UNCHANGED <<chainVars, file, pin, faults>>

(* ensureAltAddresses.                                                     *)
Missing(s) == Needed[s] \ work[s].lut.held

Ensure(s) ==
    /\ At(s, "ensuring")
    /\ \/ /\ Missing(s) = {}
          /\ IF Usable(work[s].lut) THEN Goto(s, "built") ELSE Throws(s)
       \/ /\ Missing(s) # {}
          /\ Goto(s, IF Size(work[s].lut) + Cardinality(Missing(s)) > Capacity
                     THEN "rotating" ELSE "extending")
    /\ UNCHANGED <<chainVars, file, pin, faults>>

-----------------------------------------------------------------------------
(* A table is created with the static addresses, or to replace a full one  *)
(* with those of the settlement as well.                                   *)
Minting(s) == At(s, "minting") \/ At(s, "rotating")

NewTable == minted + 1

Mint(s) ==
    /\ NewTable \in Tables
    /\ minted' = NewTable
    /\ table' = [table EXCEPT ![NewTable] =
                    TableOf(IF At(s, "rotating") THEN Needed[s] ELSE {})]

Remember == pin' = NewTable /\ file' = NewTable

MintLands(s) ==
    /\ Minting(s)
    /\ Mint(s) /\ Remember
    /\ Throws(s)
    /\ UNCHANGED faults

(* The answer to a transaction that took effect is lost.                   *)
MintUnseen(s) ==
    /\ Minting(s) /\ Fault
    /\ Mint(s)
    /\ Throws(s)
    /\ UNCHANGED <<file, pin>>

(* A transaction that was confirmed may have reverted: its error is not    *)
(* read, and the address it was to create is remembered.                   *)
MintReverts(s) ==
    /\ Minting(s) /\ Fault
    /\ NewTable \in Tables /\ minted' = NewTable
    /\ Remember
    /\ Throws(s)
    /\ UNCHANGED table

(* The chain refuses to extend a table beyond its capacity.                *)
Extend(s) ==
    LET a == work[s].address
    IN  /\ At(s, "extending")
        /\ IF Size(Extended(table[a], Missing(s))) <= Capacity
           THEN table' = [table EXCEPT ![a] = Extended(@, Missing(s))]
           ELSE UNCHANGED table
        /\ UNCHANGED <<minted, file, pin>>

ExtendConfirmed(s) == Extend(s) /\ Goto(s, "extended") /\ UNCHANGED faults
ExtendUnseen(s) == Extend(s) /\ Throws(s) /\ Fault

(* A request or a transaction that fails takes no effect.                  *)
Fails(s) ==
    /\ ~At(s, "idle") /\ ~At(s, "built") /\ Fault
    /\ Throws(s)
    /\ UNCHANGED <<chainVars, file, pin>>

FetchAgain(s) ==
    /\ At(s, "extended")
    /\ Step(s, [work[s] EXCEPT !.at = "waiting",
                               !.lut = table[work[s].address]])
    /\ UNCHANGED <<chainVars, file, pin, faults>>

(* It waits for the next slot for a while; then it gives up (Fails).       *)
SlotCame(s) ==
    /\ At(s, "waiting")
    /\ Usable(work[s].lut)
    /\ Goto(s, "built")
    /\ UNCHANGED <<chainVars, file, pin, faults>>

-----------------------------------------------------------------------------
Works(s) ==
    \/ Discover(s)
    \/ Fetch(s)
    \/ CheckSlot(s)
    \/ Ensure(s)
    \/ MintLands(s)
    \/ ExtendConfirmed(s)
    \/ FetchAgain(s)
    \/ SlotCame(s)

GoesWrong(s) ==
    \/ MintUnseen(s)
    \/ MintReverts(s)
    \/ ExtendUnseen(s)
    \/ Fails(s)

SlotPasses ==
    /\ table' = [a \in Tables |-> IF table[a] = None THEN None
                                                    ELSE Activated(table[a])]
    /\ work' = [s \in Settlements |-> IF work[s].lut = None THEN work[s]
                   ELSE [work[s] EXCEPT !.lut = Activated(@)]]
    /\ UNCHANGED <<minted, file, pin, faults>>

Restart ==
    /\ Fault
    /\ pin' = None
    /\ work' = [s \in Settlements |-> IF At(s, "built") THEN work[s] ELSE Idle]
    /\ UNCHANGED <<chainVars, file>>

Next == SlotPasses \/ Restart \/ \E s \in Settlements : Works(s) \/ GoesWrong(s)

Spec == Init /\ [][Next]_vars

(* Ticks and slots go on; failures do not.                                 *)
FairSpec ==
    /\ Spec
    /\ WF_vars(SlotPasses)
    /\ \A s \in Settlements : WF_vars(Works(s))

-----------------------------------------------------------------------------
Places == {"idle", "minting", "fetching", "fetched", "ensuring", "rotating",
           "extending", "extended", "waiting", "built"}

TypeOK ==
    /\ table \in [Tables -> Table \cup {None}]
    /\ \A a \in Tables : table[a] # None => Size(table[a]) <= Capacity
    /\ {file, pin} \subseteq Tables \cup {None}
    /\ minted \in 0..MaxTables /\ faults \in 0..MaxFaults
    /\ work \in [Settlements -> [at: Places, address: Tables \cup {None},
                                lut: Table \cup {None}]]
    /\ \A s \in Settlements :
          ~At(s, "idle") /\ ~Minting(s) /\ ~At(s, "fetching")
             => work[s].lut \in Table

(* Every address a built transaction looks up is in its table on chain,    *)
(* and was there in an earlier slot (settle.ts, the two checks against     *)
(* lastExtendedSlot and the wait after an extension), although other       *)
(* settlements extend and replace the table meanwhile.                     *)
LookupsResolve ==
    \A s \in Settlements : At(s, "built") =>
        LET onChain == table[work[s].address]
        IN  work[s].lut.held \subseteq onChain.held \ onChain.new

(* settle.ts, pendingAlt: the keeper keeps trying one table and does not   *)
(* mint a new one at every attempt.  It mints one for each settlement that *)
(* is under way when there is none or the table is full, and one for each  *)
(* fault, which a lost answer or a restart is.                             *)
FewTablesMinted ==
    minted <= 1 + Cardinality(Settlements) + faults

(* An oversized settlement is built in the end, however the settlements    *)
(* interfere and whatever was lost -- unless the keeper has remembered a   *)
(* table whose creation reverted: nothing ever replaces that one.          *)
EventuallyBuilt ==
    \A s \in Settlements :
        <>(At(s, "built") \/ (file # None /\ table[file] = None))

=============================================================================
