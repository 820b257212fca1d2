--------------------------- MODULE SettleTxProofs ---------------------------
(***************************************************************************)
(* The lookup table of settle.ts, for any number of settlements, addresses *)
(* and faults: what a built transaction looks up is there, and a table is  *)
(* minted only for a settlement that had none with room, or for a fault.   *)
(***************************************************************************)
EXTENDS SettleTx, FiniteSetTheorems, TLAPS

HasLut(s) == work[s].at \in {"fetched", "ensuring", "rotating", "extending",
                             "extended", "waiting", "built"}

(* Tables come into being in the order of their addresses, and nobody has  *)
(* the address of one that was not asked for.                              *)
InOrder ==
    /\ \A a \in Tables : table[a] # None => a <= minted
    /\ file # None => file <= minted
    /\ pin # None => pin <= minted
    /\ \A s \in Settlements : work[s].address # None => work[s].address <= minted

(* New addresses are there, and a table with new ones was extended in this *)
(* slot.                                                                   *)
Marked(t) == t.new \subseteq t.held /\ (~t.fresh => t.new = {})

TablesMarked == \A a \in Tables : table[a] # None => Marked(table[a])

(* What a settlement has fetched is still in the table, and what was not   *)
(* new then is not new now.                                                *)
CopyHolds(s) ==
    /\ work[s].address \in Tables
    /\ work[s].lut \in Table /\ Marked(work[s].lut)
    /\ LET onChain == table[work[s].address]
       IN  /\ onChain # None
           /\ work[s].lut.held \subseteq onChain.held
           /\ work[s].lut.held \cap onChain.new \subseteq work[s].lut.new
    /\ At(s, "built") => work[s].lut.new = {}

CopiesHold ==
    \A s \in Settlements :
        /\ At(s, "fetching") => work[s].address \in Tables
        /\ HasLut(s) => CopyHolds(s)

(* A table with room has it for every settlement, so that nobody replaces  *)
(* it.  A settlement may still mint a table when it has begun to, or when  *)
(* the table it is looking at has no room.                                 *)
Roomy(t) == t.others + Cardinality(Addresses) <= Capacity
RoomyAt(a) == table[a] # None => Roomy(table[a])

FileHasRoom == file # None /\ RoomyAt(file)

MayMint(s) ==
    \/ Minting(s)
    \/ At(s, "fetching") /\ ~RoomyAt(work[s].address)
    \/ work[s].at \in {"fetched", "ensuring"} /\ ~Roomy(work[s].lut)

DoneMinting == {s \in Settlements : ~MayMint(s)}

(* Before a table with room is remembered only faults mint tables (and one *)
(* was there); after that each settlement that may mint does so once more. *)
MintsPaid ==
    minted <= 1 + faults
                + (IF FileHasRoom THEN Cardinality(DoneMinting) ELSE 0)

BuildInv ==
    /\ TypeOK
    /\ InOrder
    /\ TablesMarked
    /\ CopiesHold
    /\ MintsPaid

-----------------------------------------------------------------------------
(* Tables and their sizes.                                                 *)
USE SettleTxAssumption

LEMMA Sizes ==
    ASSUME NEW X \in SUBSET Addresses
    PROVE  /\ IsFiniteSet(X)
           /\ Cardinality(X) \in Nat
           /\ Cardinality(Addresses) \in Nat
           /\ Cardinality(X) <= Cardinality(Addresses)
<1>1. IsFiniteSet(X) /\ Cardinality(X) <= Cardinality(Addresses)
  BY FS_Subset
<1> QED
  BY <1>1, FS_CardinalityType

(* What an extension adds are the addresses that are not there yet.        *)
LEMMA SizeOfUnion ==
    ASSUME NEW t \in Table, NEW X \in SUBSET Addresses
    PROVE  /\ Size(t) \in Nat
           /\ Size(t) + Cardinality(X \ t.held)
                 = t.others + Cardinality(t.held \cup X)
<1>1. t.held \in SUBSET Addresses /\ t.others \in Nat
  <2>1. Capacity \in Nat
    OBVIOUS
  <2> QED
    BY <2>1 DEF Table
<1>2. X \ t.held \in SUBSET Addresses
  OBVIOUS
<1>3. /\ IsFiniteSet(t.held) /\ Cardinality(t.held) \in Nat
      /\ IsFiniteSet(X \ t.held) /\ Cardinality(X \ t.held) \in Nat
  BY <1>1, <1>2, Sizes
<1>4. t.held \cap (X \ t.held) = {} /\ t.held \cup (X \ t.held) = t.held \cup X
  OBVIOUS
<1>5. Cardinality(t.held \cup (X \ t.held))
         = Cardinality(t.held) + Cardinality(X \ t.held)
              - Cardinality(t.held \cap (X \ t.held))
  BY <1>3, FS_Union
<1>6. Cardinality(t.held \cap (X \ t.held)) = 0
  BY <1>4, FS_EmptySet
<1>7. Cardinality(t.held \cup X) = Cardinality(t.held \cup (X \ t.held))
  BY <1>4, Zenon
<1>8. Cardinality(t.held \cup X) = Cardinality(t.held) + Cardinality(X \ t.held)
  BY <1>3, <1>5, <1>6, <1>7
<1> QED
  BY <1>1, <1>3, <1>8 DEF Size

(* Nobody replaces a table with room.                                      *)
LEMMA RoomySuffices ==
    ASSUME NEW t \in Table, NEW X \in SUBSET Addresses, Roomy(t)
    PROVE  Size(t) + Cardinality(X \ t.held) <= Capacity
<1>1. t.held \cup X \in SUBSET Addresses /\ t.others \in Int
  BY DEF Table
<1>2. Cardinality(t.held \cup X) <= Cardinality(Addresses)
      /\ Cardinality(t.held \cup X) \in Nat /\ Cardinality(Addresses) \in Nat
  BY <1>1, Sizes
<1>3. Size(t) + Cardinality(X \ t.held)
         = t.others + Cardinality(t.held \cup X)
  BY SizeOfUnion
<1>4. Capacity \in Nat /\ t.others + Cardinality(Addresses) <= Capacity
  BY DEF Roomy
<1> QED
  BY <1>1, <1>2, <1>3, <1>4

LEMMA NewTableOK ==
    ASSUME NEW X \in SUBSET Addresses
    PROVE  /\ TableOf(X) \in Table /\ Marked(TableOf(X)) /\ Roomy(TableOf(X))
           /\ Size(TableOf(X)) <= Capacity
<1>1. Cardinality(X) \in Nat /\ Cardinality(Addresses) \in Nat
      /\ Cardinality(X) <= Cardinality(Addresses)
  BY Sizes
<1>2. Statics \in Nat /\ Capacity \in Nat
      /\ Statics + Cardinality(Addresses) <= Capacity
  OBVIOUS
<1> QED
  BY <1>1, <1>2 DEF TableOf, Table, Marked, Roomy, Size

LEMMA ExtendedOK ==
    ASSUME NEW t \in Table, NEW X \in SUBSET Addresses, Marked(t)
    PROVE  /\ Extended(t, X) \in Table /\ Marked(Extended(t, X))
           /\ Extended(t, X).others = t.others
           /\ t.held \subseteq Extended(t, X).held
           /\ t.held \cap Extended(t, X).new \subseteq t.new
BY DEF Extended, Table, Marked

LEMMA ActivatedOK ==
    ASSUME NEW t \in Table
    PROVE  /\ Activated(t) \in Table /\ Marked(Activated(t))
           /\ Activated(t).others = t.others
           /\ Activated(t).held = t.held /\ Activated(t).new = {}
           /\ Size(Activated(t)) = Size(t)
BY DEF Activated, Table, Marked, Size

-----------------------------------------------------------------------------
(* What any step does to the tables.                                       *)
TableGrows ==
    /\ table' \in [Tables -> Table \cup {None}]
    /\ minted' \in 0..MaxTables /\ minted <= minted'
    /\ \A a \in Tables : table'[a] # None =>
          a <= minted' /\ Size(table'[a]) <= Capacity /\ Marked(table'[a])
    /\ \A a \in Tables : a <= minted =>
          /\ table[a] = None => table'[a] = None
          /\ table[a] # None =>
                /\ table'[a] # None
                /\ table'[a].others = table[a].others
                /\ table[a].held \subseteq table'[a].held
                /\ table[a].held \cap table'[a].new \subseteq table[a].new

LEMMA Counts ==
    ASSUME TypeOK
    PROVE  minted \in Nat /\ faults \in Nat /\ Tables \subseteq Nat
             /\ \A a \in Tables : a # None
<1>1. MaxTables \in Nat /\ MaxFaults \in Nat /\ None \notin Nat
  OBVIOUS
<1> QED
  BY <1>1 DEF TypeOK, Tables

LEMMA SameTables == ASSUME BuildInv, UNCHANGED chainVars PROVE TableGrows
BY Counts DEF chainVars, BuildInv, TypeOK, InOrder, TablesMarked, TableGrows

(* A creation that reverted uses up an address.                            *)
LEMMA RevertGrows ==
    ASSUME BuildInv, NewTable \in Tables, minted' = NewTable, table' = table
    PROVE  TableGrows
BY Counts
   DEF NewTable, Tables, BuildInv, TypeOK, InOrder, TablesMarked, TableGrows

LEMMA MintGrows ==
    ASSUME BuildInv, NEW s \in Settlements, Mint(s)
    PROVE  TableGrows /\ table'[NewTable] # None /\ Roomy(table'[NewTable])
<1> DEFINE X == IF At(s, "rotating") THEN Needed[s] ELSE {}
<1>1. X \in SUBSET Addresses
  BY DEF Addresses
<1>2. TableOf(X) \in Table /\ Marked(TableOf(X)) /\ Roomy(TableOf(X))
      /\ Size(TableOf(X)) <= Capacity
  BY <1>1, NewTableOK
<1>3. table' = [table EXCEPT ![NewTable] = TableOf(X)]
      /\ NewTable \in Tables /\ minted' = NewTable
  BY DEF Mint
<1>4. TableOf(X) # None
  BY <1>2
<1> HIDE DEF X
<1>5. minted \in Nat /\ minted' = minted + 1 /\ minted' \in 0..MaxTables
  BY <1>3, Counts DEF NewTable, Tables, BuildInv
<1>6. ASSUME NEW a \in Tables
      PROVE  a <= minted <=> (a # NewTable /\ (a <= minted'))
  BY <1>3, <1>5, Counts DEF NewTable, BuildInv
<1>7. \A a \in Tables : table'[a] = IF a = NewTable THEN TableOf(X) ELSE table[a]
  BY <1>3 DEF BuildInv, TypeOK
<1>8. table' \in [Tables -> Table \cup {None}]
  BY <1>2, <1>3 DEF BuildInv, TypeOK
<1>9. ASSUME NEW a \in Tables, table'[a] # None
      PROVE  a <= minted' /\ Size(table'[a]) <= Capacity /\ Marked(table'[a])
  <2>1. CASE a = NewTable
    <3>1. table'[a] = TableOf(X) /\ a = minted'
      BY <1>3, <1>7, <2>1
    <3>2. a <= minted'
      BY <1>5, <3>1
    <3> QED
      BY <1>2, <3>1, <3>2
  <2>2. CASE a # NewTable
    BY <1>6, <1>7, <1>9, <2>2 DEF BuildInv, TypeOK, InOrder, TablesMarked
  <2> QED
    BY <2>1, <2>2
<1>10. \A a \in Tables : a <= minted => table'[a] = table[a]
  BY <1>6, <1>7
<1>11. TableGrows
  BY <1>5, <1>8, <1>9, <1>10 DEF TableGrows
<1> QED
  BY <1>2, <1>3, <1>4, <1>7, <1>11

LEMMA ExtendGrows ==
    ASSUME BuildInv, NEW s \in Settlements, Extend(s)
    PROVE  TableGrows
<1> DEFINE a == work[s].address
           t == Extended(table[a], Missing(s))
<1>1. CASE UNCHANGED table
  BY <1>1, SameTables DEF Extend, chainVars
<1>2. CASE ~UNCHANGED table
  <2>1. a \in Tables /\ table[a] \in Table /\ Marked(table[a])
    BY DEF Extend, HasLut, At, BuildInv, CopiesHold, CopyHolds, TablesMarked, TypeOK
  <2>2. Missing(s) \in SUBSET Addresses
    BY DEF Missing, Addresses
  <2>3. /\ t \in Table /\ Marked(t) /\ t.others = table[a].others
        /\ table[a].held \subseteq t.held
        /\ table[a].held \cap t.new \subseteq table[a].new
    BY <2>1, <2>2, ExtendedOK
  <2>4. Size(t) <= Capacity /\ table' = [table EXCEPT ![a] = t]
    BY <1>2 DEF Extend
  <2>5. minted' = minted
    BY DEF Extend
  <2>6. t # None
    BY <2>3
  <2> HIDE DEF a, t
  <2>7. \A b \in Tables : table'[b] = IF b = a THEN t ELSE table[b]
    BY <2>4 DEF BuildInv, TypeOK
  <2>8. table' \in [Tables -> Table \cup {None}]
    BY <2>3, <2>4 DEF BuildInv, TypeOK
  <2>9. table[a] # None
    BY <2>1
  <2> QED
    BY <2>1, <2>3, <2>4, <2>5, <2>6, <2>7, <2>8, <2>9, Counts
       DEF BuildInv, TypeOK, InOrder, TablesMarked, TableGrows
<1> QED
  BY <1>1, <1>2

LEMMA SlotGrows == ASSUME BuildInv, SlotPasses PROVE TableGrows
<1>1. \A a \in Tables : table[a] # None =>
          table[a] \in Table /\ table'[a] = Activated(table[a])
                             /\ Activated(table[a]) # None
  BY ActivatedOK DEF SlotPasses, BuildInv, TypeOK
<1>2. \A a \in Tables : table[a] = None => table'[a] = None
  BY DEF SlotPasses
<1>3. table' \in [Tables -> Table \cup {None}]
  BY ActivatedOK DEF SlotPasses, BuildInv, TypeOK
<1>4. minted' = minted
  BY DEF SlotPasses
<1> QED
  BY <1>1, <1>2, <1>3, <1>4, ActivatedOK, Counts
     DEF BuildInv, TypeOK, InOrder, TableGrows

-----------------------------------------------------------------------------
(* What a settlement has fetched survives the steps of the others.         *)
LEMMA CopyKept ==
    ASSUME BuildInv, TableGrows, NEW s \in Settlements, HasLut(s),
           work'[s] = work[s]
    PROVE  CopyHolds(s)'
<1>1. CopyHolds(s)
  BY DEF BuildInv, CopiesHold
<1>2. work[s].address \in Tables /\ work[s].address <= minted
  BY <1>1, Counts DEF CopyHolds, BuildInv, InOrder
<1> QED
  BY <1>1, <1>2 DEF CopyHolds, TableGrows, At

(* Whether a table has room does not change.                               *)
LEMMA RoomKept ==
    ASSUME BuildInv, TableGrows, NEW a \in Tables, a <= minted
    PROVE  RoomyAt(a)' <=> RoomyAt(a)
BY DEF TableGrows, RoomyAt, Roomy

LEMMA FileKept ==
    ASSUME BuildInv, TableGrows, file' = file, FileHasRoom
    PROVE  FileHasRoom'
<1>1. file \in Tables /\ file <= minted
  BY DEF FileHasRoom, BuildInv, TypeOK, InOrder
<1>2. RoomyAt(file)' <=> RoomyAt(file)
  BY <1>1, RoomKept
<1> QED
  BY <1>2 DEF FileHasRoom, RoomyAt

LEMMA MayMintKept ==
    ASSUME BuildInv, TableGrows, NEW s \in Settlements, work'[s] = work[s],
           MayMint(s)'
    PROVE  MayMint(s)
<1>1. CASE At(s, "fetching")
  <2>1. work[s].address \in Tables /\ work[s].address <= minted
    BY <1>1, Counts DEF BuildInv, CopiesHold, InOrder
  <2>2. ~RoomyAt(work[s].address)'
    BY <1>1 DEF MayMint, Minting, At
  <2>3. RoomyAt(work[s].address)' <=> RoomyAt(work[s].address)
    BY <2>1, RoomKept DEF RoomyAt
  <2> QED
    BY <1>1, <2>2, <2>3 DEF MayMint
<1>2. CASE ~At(s, "fetching")
  BY <1>2 DEF MayMint, Minting, At, Roomy
<1> QED
  BY <1>1, <1>2

-----------------------------------------------------------------------------
(* The invariant after a step of settlement s, but for what was minted.    *)
LEMMA StepOf ==
    ASSUME BuildInv, TableGrows, NEW s \in Settlements,
           NEW r \in [at: Places, address: Tables \cup {None},
                      lut: Table \cup {None}],
           Step(s, r),
           {file', pin'} \subseteq Tables \cup {None},
           file' # None => file' <= minted',
           pin' # None => pin' <= minted',
           r.address # None => r.address <= minted',
           faults' \in 0..MaxFaults,
           r.at = "fetching" => r.address \in Tables,
           HasLut(s)' => CopyHolds(s)'
    PROVE  TypeOK' /\ InOrder' /\ TablesMarked' /\ CopiesHold'
<1>1. work' = [work EXCEPT ![s] = r]
  BY DEF Step
<1>2. /\ work' \in [Settlements -> [at: Places, address: Tables \cup {None},
                                    lut: Table \cup {None}]]
      /\ work'[s] = r /\ \A n \in Settlements : n # s => work'[n] = work[n]
  BY <1>1 DEF BuildInv, TypeOK
<1>3. minted \in Nat /\ minted' \in Nat /\ minted <= minted'
  <2>1. MaxTables \in Nat
    OBVIOUS
  <2> QED
    BY <2>1, Counts DEF TableGrows, BuildInv
<1>4. InOrder'
  <2>1. ASSUME NEW n \in Settlements, work'[n].address # None
        PROVE  work'[n].address <= minted'
    <3>1. CASE n = s
      BY <1>2, <2>1, <3>1
    <3>2. CASE n # s
      <4>1. work[n].address \in Tables /\ work[n].address <= minted
        BY <1>2, <2>1, <3>2 DEF BuildInv, TypeOK, InOrder
      <4> QED
        BY <1>2, <1>3, <3>2, <4>1, Counts DEF BuildInv
    <3> QED
      BY <3>1, <3>2
  <2> QED
    BY <2>1 DEF InOrder, TableGrows
<1>5. CopiesHold'
  <2> SUFFICES ASSUME NEW n \in Settlements
               PROVE  /\ At(n, "fetching")' => work'[n].address \in Tables
                      /\ HasLut(n)' => CopyHolds(n)'
    BY DEF CopiesHold
  <2>1. CASE n = s
    BY <1>2, <2>1 DEF At
  <2>2. CASE n # s
    BY <1>2, <2>2, CopyKept DEF At, HasLut, BuildInv, CopiesHold
  <2> QED
    BY <2>1, <2>2
<1>6. TablesMarked'
  BY DEF TablesMarked, TableGrows
<1>7. TypeOK'
  <2>1. ASSUME NEW n \in Settlements, ~At(n, "idle")', ~Minting(n)',
               ~At(n, "fetching")'
        PROVE  work'[n].lut \in Table
    <3>1. HasLut(n)'
      BY <1>2, <2>1 DEF HasLut, At, Minting, Places
    <3> QED
      BY <1>5, <3>1 DEF CopiesHold, CopyHolds
  <2> QED
    BY <1>2, <2>1 DEF TypeOK, TableGrows
<1> QED
  BY <1>4, <1>5, <1>6, <1>7

-----------------------------------------------------------------------------
(* What was minted, after the steps that mint nothing and those that do.   *)
HIDE SettleTxAssumption

LEMMA DoneFinite ==
    /\ IsFiniteSet(DoneMinting) /\ Cardinality(DoneMinting) \in Nat
    /\ Cardinality(DoneMinting) <= Cardinality(Settlements)
    /\ Cardinality(Settlements) \in Nat
<1>1. DoneMinting \subseteq Settlements
  BY DEF DoneMinting
<1> QED
  BY <1>1, SettleTxAssumption, FS_Subset, FS_CardinalityType

LEMMA DoneFiniteNext ==
    IsFiniteSet(DoneMinting') /\ Cardinality(DoneMinting') \in Nat
<1>1. DoneMinting' \subseteq Settlements
  BY DEF DoneMinting
<1> QED
  BY <1>1, SettleTxAssumption, FS_Subset, FS_CardinalityType

LEMMA MoreIsPaid ==
    ASSUME NEW m \in Nat, NEW f \in Nat, NEW c \in Nat, m <= 1 + f
    PROVE  m <= 1 + f + c
OBVIOUS

LEMMA FaultsPay ==
    ASSUME NEW m \in Nat, NEW f \in Nat, NEW g \in Nat, m <= 1 + f, f <= g
    PROVE  m <= 1 + g
OBVIOUS

LEMMA BeforeRoom == ASSUME BuildInv, ~FileHasRoom PROVE minted <= 1 + faults
<1>1. minted <= 1 + faults + 0
  BY DEF BuildInv, MintsPaid
<1>2. minted \in Nat /\ faults \in Nat
  BY Counts DEF BuildInv
<1> QED
  BY <1>1, <1>2

LEMMA Paid ==
    ASSUME minted' \in Nat, faults' \in Nat, minted' <= 1 + faults'
    PROVE  MintsPaid'
<1>1. Cardinality(DoneMinting') \in Nat
  BY DoneFiniteNext
<1>2. /\ minted' <= 1 + faults' + Cardinality(DoneMinting')
      /\ minted' <= 1 + faults' + 0
  BY <1>1, MoreIsPaid
<1> QED
  BY <1>2 DEF MintsPaid

LEMMA NothingMinted ==
    ASSUME BuildInv, TableGrows, UNCHANGED <<minted, file>>,
           faults' \in Nat, faults <= faults',
           \A s \in Settlements : FileHasRoom /\ MayMint(s)' => MayMint(s)
    PROVE  MintsPaid'
<1>1. minted \in Nat /\ faults \in Nat
  BY Counts DEF BuildInv
<1>2. CASE FileHasRoom
  <2>1. FileHasRoom'
    BY <1>2, FileKept
  <2>2. DoneMinting \subseteq DoneMinting'
    BY <1>2 DEF DoneMinting
  <2>3. Cardinality(DoneMinting) <= Cardinality(DoneMinting')
    BY <2>2, DoneFiniteNext, FS_Subset
  <2>4. minted <= 1 + faults + Cardinality(DoneMinting)
    BY <1>2 DEF BuildInv, MintsPaid
  <2>5. minted' <= 1 + faults' + Cardinality(DoneMinting')
    BY <1>1, <2>3, <2>4, DoneFinite, DoneFiniteNext
  <2> QED
    BY <2>1, <2>5 DEF MintsPaid
<1>3. CASE ~FileHasRoom
  <2>1. minted' \in Nat /\ minted' = minted /\ minted <= 1 + faults
    BY <1>1, <1>3, BeforeRoom
  <2>2. minted' <= 1 + faults'
    BY <1>1, <2>1, FaultsPay
  <2> QED
    BY <2>1, <2>2, Paid
<1> QED
  BY <1>2, <1>3

(* A settlement that mints a table and has it remembered will not mint     *)
(* another one: the table has room, or nothing is known of it.             *)
LEMMA OneMinted ==
    ASSUME BuildInv, TableGrows, NEW s \in Settlements,
           minted' = minted + 1, faults' \in Nat, faults <= faults',
           MayMint(s), ~MayMint(s)', FileHasRoom',
           \A n \in Settlements : n # s => work'[n] = work[n]
    PROVE  MintsPaid'
<1>1. minted \in Nat /\ faults \in Nat
  BY Counts DEF BuildInv
<1>2. s \in DoneMinting' /\ s \notin DoneMinting
  BY DEF DoneMinting
<1>3. CASE FileHasRoom
  <2>1. DoneMinting \cup {s} \subseteq DoneMinting'
    BY <1>2, MayMintKept DEF DoneMinting
  <2>2. Cardinality(DoneMinting \cup {s}) = Cardinality(DoneMinting) + 1
    BY <1>2, DoneFinite, FS_AddElement
  <2>3. Cardinality(DoneMinting \cup {s}) <= Cardinality(DoneMinting')
    BY <2>1, DoneFiniteNext, FS_Subset
  <2>4. minted <= 1 + faults + Cardinality(DoneMinting)
    BY <1>3 DEF BuildInv, MintsPaid
  <2>5. minted' <= 1 + faults' + Cardinality(DoneMinting')
    BY <1>1, <2>2, <2>3, <2>4, DoneFinite, DoneFiniteNext
  <2> QED
    BY <2>5 DEF MintsPaid
<1>4. CASE ~FileHasRoom
  <2>1. {s} \subseteq DoneMinting' /\ Cardinality({s}) = 1
    BY <1>2, FS_Singleton
  <2>2. 1 <= Cardinality(DoneMinting')
    BY <2>1, DoneFiniteNext, FS_Subset
  <2>3. minted <= 1 + faults
    BY <1>4, BeforeRoom
  <2>4. minted' <= 1 + faults' + Cardinality(DoneMinting')
    BY <1>1, <2>2, <2>3, DoneFiniteNext
  <2> QED
    BY <2>4 DEF MintsPaid
<1> QED
  BY <1>3, <1>4

(* A mint that is not remembered is paid for by its fault.                 *)
LEMMA FaultMinted ==
    ASSUME BuildInv, TableGrows, NEW s \in Settlements,
           minted' = minted + 1, faults' = faults + 1, file' = file,
           ~MayMint(s)',
           \A n \in Settlements : n # s => work'[n] = work[n]
    PROVE  MintsPaid'
<1>1. minted \in Nat /\ faults \in Nat
  BY Counts DEF BuildInv
<1>2. CASE FileHasRoom
  <2>1. FileHasRoom'
    BY <1>2, FileKept
  <2>2. DoneMinting \subseteq DoneMinting'
    BY MayMintKept DEF DoneMinting
  <2>3. Cardinality(DoneMinting) <= Cardinality(DoneMinting')
    BY <2>2, DoneFiniteNext, FS_Subset
  <2>4. minted <= 1 + faults + Cardinality(DoneMinting)
    BY <1>2 DEF BuildInv, MintsPaid
  <2>5. minted' <= 1 + faults' + Cardinality(DoneMinting')
    BY <1>1, <2>3, <2>4, DoneFinite, DoneFiniteNext
  <2> QED
    BY <2>1, <2>5 DEF MintsPaid
<1>3. CASE ~FileHasRoom
  <2>1. minted' \in Nat /\ faults' \in Nat /\ minted' <= 1 + faults'
    BY <1>1, <1>3, BeforeRoom
  <2> QED
    BY <2>1, Paid
<1> QED
  BY <1>2, <1>3

-----------------------------------------------------------------------------
(* The steps of a settlement that mint nothing.                            *)
Rec == [at: Places, address: Tables \cup {None}, lut: Table \cup {None}]

LEMMA Untouched ==
    ASSUME BuildInv, NEW s \in Settlements, NEW r, Step(s, r)
    PROVE  work'[s] = r /\ \A n \in Settlements : n # s => work'[n] = work[n]
BY DEF Step, BuildInv, TypeOK

LEMMA FaultCount ==
    ASSUME BuildInv, Fault
    PROVE  faults' \in 0..MaxFaults /\ faults' \in Nat /\ faults <= faults'
<1>1. MaxFaults \in Nat
  BY SettleTxAssumption
<1> QED
  BY <1>1 DEF BuildInv, TypeOK, Fault

LEMMA QuietStep ==
    ASSUME BuildInv, TableGrows, NEW s \in Settlements, NEW r \in Rec,
           Step(s, r), UNCHANGED <<minted, file>>,
           pin' = pin \/ pin' = file,
           Fault \/ UNCHANGED faults,
           r.address # None => r.address = work[s].address \/ r.address = pin',
           r.at = "fetching" => r.address \in Tables,
           HasLut(s)' => CopyHolds(s)',
           FileHasRoom /\ MayMint(s)' => MayMint(s)
    PROVE  BuildInv'
<1>1. minted \in Nat /\ faults \in 0..MaxFaults /\ faults \in Nat
  BY Counts DEF BuildInv, TypeOK
<1>2. faults' \in 0..MaxFaults /\ faults' \in Nat /\ faults <= faults'
  BY <1>1, FaultCount
<1>3. {file', pin'} \subseteq Tables \cup {None}
  BY DEF BuildInv, TypeOK
<1>4. /\ file' # None => file' <= minted'
      /\ pin' # None => pin' <= minted'
  BY DEF BuildInv, InOrder
<1>5. r.address # None => r.address <= minted'
  BY <1>4 DEF BuildInv, InOrder
<1>6. TypeOK' /\ InOrder' /\ TablesMarked' /\ CopiesHold'
  BY <1>2, <1>3, <1>4, <1>5, StepOf DEF Rec
<1>7. \A n \in Settlements : FileHasRoom /\ MayMint(n)' => MayMint(n)
  BY Untouched, MayMintKept
<1>8. MintsPaid'
  BY <1>2, <1>7, NothingMinted
<1> QED
  BY <1>6, <1>8 DEF BuildInv

LEMMA IdleRec == Idle \in Rec /\ Idle.address = None /\ Idle.at = "idle"
BY DEF Idle, Rec, Places

LEMMA DiscoverStep ==
    ASSUME BuildInv, NEW s \in Settlements, Discover(s) PROVE BuildInv'
<1>1. TableGrows
  BY SameTables DEF Discover
<1>2. work[s] \in Rec
  BY DEF BuildInv, TypeOK, Rec
<1>3. CASE Known = None
  <2> DEFINE r == [work[s] EXCEPT !.at = "minting"]
  <2>1. r \in Rec /\ r.at = "minting" /\ r.address = work[s].address
    BY <1>2 DEF Rec, Places
  <2>2. Step(s, r)
    BY <1>3 DEF Discover, Goto
  <2>3. ~FileHasRoom
    BY <1>3 DEF Known, FileHasRoom
  <2>4. ~HasLut(s)'
    BY <2>1, <2>2, Untouched DEF HasLut
  <2>5. UNCHANGED <<minted, file, faults, pin>>
    BY <1>3 DEF Discover, chainVars
  <2> HIDE DEF r
  <2> QED
    BY <1>1, <2>1, <2>2, <2>3, <2>4, <2>5, QuietStep
<1>4. CASE Known # None
  <2> DEFINE r == [Idle EXCEPT !.at = "fetching", !.address = Known]
  <2>1. Known \in Tables /\ (pin' = pin \/ pin' = file) /\ pin' = Known
    BY <1>4 DEF Known, Discover, BuildInv, TypeOK
  <2>2. r \in Rec /\ r.at = "fetching" /\ r.address = Known
    BY <2>1 DEF Idle, Rec, Places
  <2>3. Step(s, r) /\ UNCHANGED <<minted, file, faults>> /\ UNCHANGED table
    BY <1>4 DEF Discover, chainVars
  <2> HIDE DEF r
  <2>4. work'[s] = r
    BY <2>3, Untouched
  <2>5. ~HasLut(s)'
    BY <2>2, <2>4 DEF HasLut
  <2>6. ~(FileHasRoom /\ MayMint(s)')
    <3> SUFFICES ASSUME FileHasRoom PROVE ~MayMint(s)'
      OBVIOUS
    <3>1. Known = file /\ RoomyAt(file)
      BY DEF Known, FileHasRoom
    <3>2. ~RoomyAt(work[s].address)' => ~RoomyAt(Known)
      BY <2>2, <2>3, <2>4 DEF RoomyAt
    <3> QED
      BY <2>2, <2>4, <3>1, <3>2 DEF MayMint, Minting, At
  <2> QED
    BY <1>1, <2>1, <2>2, <2>3, <2>5, <2>6, QuietStep
<1> QED
  BY <1>3, <1>4

(* The build throws: it has nothing and may mint nothing.                  *)
LEMMA ThrowsStep ==
    ASSUME BuildInv, TableGrows, NEW s \in Settlements, Throws(s),
           UNCHANGED <<minted, file, pin>>, Fault \/ UNCHANGED faults
    PROVE  BuildInv'
<1>1. work'[s] = Idle /\ Step(s, Idle)
  BY Untouched DEF Throws
<1>2. ~HasLut(s)' /\ ~MayMint(s)'
  BY <1>1, IdleRec DEF HasLut, MayMint, Minting, At
<1> QED
  BY <1>1, <1>2, IdleRec, QuietStep

(* It goes on with what it has.                                            *)
LEMMA GoesOn ==
    ASSUME BuildInv, TableGrows, NEW s \in Settlements, NEW place \in Places,
           Goto(s, place), UNCHANGED <<minted, file, pin, faults>>,
           HasLut(s), place # "fetching",
           place = "built" => work[s].lut.new = {},
           place = "rotating" => ~Roomy(work[s].lut) /\ MayMint(s),
           place \in {"fetched", "ensuring"} => MayMint(s) \/ Roomy(work[s].lut),
           place # "minting"
    PROVE  BuildInv'
<1> DEFINE r == [work[s] EXCEPT !.at = place]
<1>1. r \in Rec /\ r.at = place /\ r.address = work[s].address
      /\ r.lut = work[s].lut
  BY DEF BuildInv, TypeOK, Rec
<1>2. Step(s, r)
  BY DEF Goto
<1> HIDE DEF r
<1>3. work'[s] = r
  BY <1>2, Untouched
<1>4. CopyHolds(s)
  BY DEF BuildInv, CopiesHold
<1>5. work[s].address \in Tables /\ work[s].address <= minted
  BY <1>4, Counts DEF CopyHolds, BuildInv, InOrder
<1>6. CopyHolds(s)'
  BY <1>1, <1>3, <1>4, <1>5 DEF CopyHolds, TableGrows, At
<1>7. MayMint(s)' => MayMint(s)
  BY <1>1, <1>3 DEF MayMint, Minting, At, Roomy
<1> QED
  BY <1>1, <1>2, <1>6, <1>7, QuietStep

LEMMA FetchStep ==
    ASSUME BuildInv, NEW s \in Settlements, Fetch(s) PROVE BuildInv'
<1>1. TableGrows /\ UNCHANGED <<minted, file, pin, faults, table>>
  BY SameTables DEF Fetch, chainVars
<1>2. CASE ~Found(work[s].address)
  BY <1>1, <1>2, ThrowsStep DEF Fetch
<1>3. CASE Found(work[s].address)
  <2> DEFINE a == work[s].address
             r == [work[s] EXCEPT !.at = "fetched", !.lut = table[a]]
  <2>1. a \in Tables
    BY DEF Fetch, BuildInv, CopiesHold
  <2>2. table[a] \in Table /\ table[a] # None /\ Marked(table[a])
    BY <1>3, <2>1 DEF Found, BuildInv, TypeOK, TablesMarked
  <2>3. r \in Rec /\ r.at = "fetched" /\ r.address = a /\ r.lut = table[a]
    BY <2>2 DEF BuildInv, TypeOK, Rec, Places
  <2>4. Step(s, r)
    BY <1>3 DEF Fetch
  <2>5. work'[s] = r
    BY <2>4, Untouched
  <2>6. At(s, "fetching")
    BY DEF Fetch
  <2> HIDE DEF a, r
  <2>7. CopyHolds(s)'
    BY <1>1, <2>1, <2>2, <2>3, <2>5 DEF CopyHolds, At
  <2>8. MayMint(s)' => MayMint(s)
    <3>1. MayMint(s)' => ~Roomy(table[a])
      BY <2>3, <2>5 DEF MayMint, Minting, At, Roomy
    <3>2. ~Roomy(table[a]) => MayMint(s)
      BY <2>2, <2>6 DEF MayMint, RoomyAt, a
    <3> QED
      BY <3>1, <3>2
  <2>9. r.address = work[s].address
    BY <2>3 DEF a
  <2> QED
    BY <1>1, <2>3, <2>4, <2>7, <2>8, <2>9, QuietStep
<1> QED
  BY <1>2, <1>3

LEMMA CheckSlotStep ==
    ASSUME BuildInv, NEW s \in Settlements, CheckSlot(s) PROVE BuildInv'
<1>1. TableGrows /\ UNCHANGED <<minted, file, pin, faults>>
  BY SameTables DEF CheckSlot, chainVars
<1>2. HasLut(s) /\ (MayMint(s) \/ Roomy(work[s].lut))
  BY DEF CheckSlot, HasLut, MayMint, At
<1>3. CASE Usable(work[s].lut)
  BY <1>1, <1>2, <1>3, GoesOn DEF CheckSlot, Places
<1>4. CASE ~Usable(work[s].lut)
  BY <1>1, <1>4, ThrowsStep DEF CheckSlot
<1> QED
  BY <1>3, <1>4

LEMMA EnsureStep ==
    ASSUME BuildInv, NEW s \in Settlements, Ensure(s) PROVE BuildInv'
<1>1. TableGrows /\ UNCHANGED <<minted, file, pin, faults>>
  BY SameTables DEF Ensure, chainVars
<1>2. HasLut(s) /\ (MayMint(s) \/ Roomy(work[s].lut))
  BY DEF Ensure, HasLut, MayMint, At
<1>3. work[s].lut \in Table /\ Marked(work[s].lut)
  BY <1>2 DEF BuildInv, CopiesHold, CopyHolds
<1>4. CASE Missing(s) = {} /\ Usable(work[s].lut)
  <2>1. work[s].lut.new = {}
    BY <1>3, <1>4 DEF Usable, Marked
  <2> QED
    BY <1>1, <1>2, <1>4, <2>1, GoesOn DEF Ensure, Places
<1>5. CASE Missing(s) = {} /\ ~Usable(work[s].lut)
  BY <1>1, <1>5, ThrowsStep DEF Ensure
<1>6. CASE /\ Missing(s) # {}
           /\ Size(work[s].lut) + Cardinality(Missing(s)) > Capacity
  <2>1. Goto(s, "rotating")
    BY <1>6 DEF Ensure
  <2>2. ~Roomy(work[s].lut)
    <3> SUFFICES ASSUME Roomy(work[s].lut) PROVE FALSE
      OBVIOUS
    <3>1. Needed[s] \in SUBSET Addresses
      BY DEF Addresses
    <3>2. Size(work[s].lut) + Cardinality(Missing(s)) <= Capacity
      BY <1>3, <3>1, RoomySuffices DEF Missing
    <3>3. /\ Size(work[s].lut) \in Nat /\ Cardinality(Missing(s)) \in Nat
          /\ Capacity \in Nat
      BY <1>3, <3>1, SizeOfUnion, Sizes, SettleTxAssumption DEF Missing
    <3> QED
      BY <1>6, <3>2, <3>3
  <2> QED
    BY <1>1, <1>2, <2>1, <2>2, GoesOn DEF Places
<1>7. CASE /\ Missing(s) # {}
           /\ ~(Size(work[s].lut) + Cardinality(Missing(s)) > Capacity)
  <2>1. Goto(s, "extending")
    BY <1>7 DEF Ensure
  <2> QED
    BY <1>1, <1>2, <2>1, GoesOn DEF Places
<1> QED
  BY <1>4, <1>5, <1>6, <1>7 DEF Ensure

(* The steps that mint a table.                                            *)
LEMMA MintLandsStep ==
    ASSUME BuildInv, NEW s \in Settlements, MintLands(s) PROVE BuildInv'
<1>1. TableGrows /\ table'[NewTable] # None /\ Roomy(table'[NewTable])
  BY MintGrows DEF MintLands
<1>2. /\ NewTable \in Tables /\ minted' = NewTable
      /\ pin' = NewTable /\ file' = NewTable /\ faults' = faults
  BY DEF MintLands, Mint, Remember
<1>3. minted \in Nat /\ faults \in Nat /\ faults \in 0..MaxFaults /\ NewTable # None
  BY <1>2, Counts DEF BuildInv, TypeOK
<1>4. Step(s, Idle) /\ work'[s] = Idle
      /\ \A n \in Settlements : n # s => work'[n] = work[n]
  BY Untouched DEF MintLands, Throws
<1>5. ~HasLut(s)' /\ ~MayMint(s)' /\ MayMint(s)
  BY <1>4, IdleRec DEF HasLut, MayMint, Minting, At, MintLands
<1>6. FileHasRoom'
  BY <1>1, <1>2, <1>3 DEF FileHasRoom, RoomyAt, Roomy
<1>7. TypeOK' /\ InOrder' /\ TablesMarked' /\ CopiesHold'
  <2>1. /\ {file', pin'} \subseteq Tables \cup {None} /\ faults' \in 0..MaxFaults
        /\ file' <= minted' /\ pin' <= minted'
    BY <1>2, <1>3 DEF NewTable
  <2> QED
    BY <1>1, <1>4, <1>5, <2>1, IdleRec, StepOf DEF Rec
<1>8. minted' = minted + 1
  BY <1>2 DEF NewTable
<1>9. MintsPaid'
  BY <1>1, <1>2, <1>3, <1>4, <1>5, <1>6, <1>8, OneMinted
<1> QED
  BY <1>7, <1>9 DEF BuildInv

LEMMA MintRevertsStep ==
    ASSUME BuildInv, NEW s \in Settlements, MintReverts(s) PROVE BuildInv'
<1>1. /\ NewTable \in Tables /\ minted' = NewTable /\ table' = table
      /\ pin' = NewTable /\ file' = NewTable /\ Fault
  BY DEF MintReverts, Remember
<1>2. TableGrows
  BY <1>1, RevertGrows
<1>3. minted \in Nat /\ faults \in Nat /\ NewTable # None
  BY <1>1, Counts DEF BuildInv, TypeOK
<1>4. Step(s, Idle) /\ work'[s] = Idle
      /\ \A n \in Settlements : n # s => work'[n] = work[n]
  BY Untouched DEF MintReverts, Throws
<1>5. ~HasLut(s)' /\ ~MayMint(s)' /\ MayMint(s)
  BY <1>4, IdleRec DEF HasLut, MayMint, Minting, At, MintReverts
<1>6. table[NewTable] = None
  BY <1>1, <1>3 DEF NewTable, BuildInv, InOrder
<1>7. FileHasRoom'
  BY <1>1, <1>3, <1>6 DEF FileHasRoom, RoomyAt
<1>8. TypeOK' /\ InOrder' /\ TablesMarked' /\ CopiesHold'
  <2>1. /\ {file', pin'} \subseteq Tables \cup {None} /\ faults' \in 0..MaxFaults
        /\ file' <= minted' /\ pin' <= minted'
    BY <1>1, <1>3, FaultCount DEF NewTable
  <2> QED
    BY <1>2, <1>4, <1>5, <2>1, IdleRec, StepOf DEF Rec
<1>9. minted' = minted + 1 /\ faults' \in Nat /\ faults <= faults'
  BY <1>1, FaultCount DEF NewTable
<1>10. MintsPaid'
  BY <1>2, <1>4, <1>5, <1>7, <1>9, OneMinted
<1> QED
  BY <1>8, <1>10 DEF BuildInv

LEMMA MintUnseenStep ==
    ASSUME BuildInv, NEW s \in Settlements, MintUnseen(s) PROVE BuildInv'
<1>1. TableGrows
  BY MintGrows DEF MintUnseen
<1>2. /\ NewTable \in Tables /\ minted' = NewTable
      /\ pin' = pin /\ file' = file /\ Fault
  BY DEF MintUnseen, Mint
<1>3. minted \in Nat /\ faults \in Nat
  BY Counts DEF BuildInv
<1>4. Step(s, Idle) /\ work'[s] = Idle
      /\ \A n \in Settlements : n # s => work'[n] = work[n]
  BY Untouched DEF MintUnseen, Throws
<1>5. ~HasLut(s)' /\ ~MayMint(s)'
  BY <1>4, IdleRec DEF HasLut, MayMint, Minting, At
<1>6. minted' = minted + 1 /\ faults' = faults + 1
  BY <1>2 DEF NewTable, Fault
<1>7. TypeOK' /\ InOrder' /\ TablesMarked' /\ CopiesHold'
  <2>1. /\ file' # None => file' \in Nat /\ file' <= minted
        /\ pin' # None => pin' \in Nat /\ pin' <= minted
    BY <1>2, Counts DEF BuildInv, TypeOK, InOrder
  <2>2. /\ file' # None => file' <= minted'
        /\ pin' # None => pin' <= minted'
    BY <1>3, <1>6, <2>1
  <2>3. {file', pin'} \subseteq Tables \cup {None} /\ faults' \in 0..MaxFaults
    BY <1>2, FaultCount DEF BuildInv, TypeOK
  <2> QED
    BY <1>1, <1>4, <1>5, <2>2, <2>3, IdleRec, StepOf DEF Rec
<1>8. MintsPaid'
  BY <1>1, <1>2, <1>4, <1>5, <1>6, FaultMinted
<1> QED
  BY <1>7, <1>8 DEF BuildInv

-----------------------------------------------------------------------------
(* The extension and the wait after it.                                    *)
LEMMA ExtendConfirmedStep ==
    ASSUME BuildInv, NEW s \in Settlements, ExtendConfirmed(s) PROVE BuildInv'
<1>1. TableGrows
  BY ExtendGrows DEF ExtendConfirmed
<1>2. HasLut(s) /\ UNCHANGED <<minted, file, pin, faults>> /\ Goto(s, "extended")
  BY DEF ExtendConfirmed, Extend, HasLut, At
<1> QED
  BY <1>1, <1>2, GoesOn DEF Places

LEMMA ExtendUnseenStep ==
    ASSUME BuildInv, NEW s \in Settlements, ExtendUnseen(s) PROVE BuildInv'
<1>1. TableGrows
  BY ExtendGrows DEF ExtendUnseen
<1>2. Fault /\ UNCHANGED <<minted, file, pin>> /\ Throws(s)
  BY DEF ExtendUnseen, Extend
<1> QED
  BY <1>1, <1>2, ThrowsStep

LEMMA FailsStep ==
    ASSUME BuildInv, NEW s \in Settlements, Fails(s) PROVE BuildInv'
<1>1. TableGrows /\ UNCHANGED <<minted, file, pin>> /\ Fault /\ Throws(s)
  BY SameTables DEF Fails, chainVars
<1> QED
  BY <1>1, ThrowsStep

LEMMA FetchAgainStep ==
    ASSUME BuildInv, NEW s \in Settlements, FetchAgain(s) PROVE BuildInv'
<1> DEFINE a == work[s].address
           r == [work[s] EXCEPT !.at = "waiting", !.lut = table[a]]
<1>1. TableGrows /\ UNCHANGED <<minted, file, pin, faults, table>>
  BY SameTables DEF FetchAgain, chainVars
<1>2. HasLut(s) /\ Step(s, r)
  BY DEF FetchAgain, HasLut, At
<1>3. a \in Tables /\ table[a] # None
  BY <1>2 DEF BuildInv, CopiesHold, CopyHolds
<1>4. table[a] \in Table /\ Marked(table[a])
  BY <1>3 DEF BuildInv, TypeOK, TablesMarked
<1>5. r \in Rec /\ r.at = "waiting" /\ r.address = a /\ r.lut = table[a]
  BY <1>4 DEF BuildInv, TypeOK, Rec, Places
<1>6. r.address = work[s].address
  BY <1>5
<1> HIDE DEF a, r
<1>7. work'[s] = r
  BY <1>2, Untouched
<1>8. CopyHolds(s)' /\ ~MayMint(s)'
  BY <1>1, <1>3, <1>4, <1>5, <1>7 DEF CopyHolds, MayMint, Minting, At
<1> QED
  BY <1>1, <1>2, <1>5, <1>6, <1>8, QuietStep

LEMMA SlotCameStep ==
    ASSUME BuildInv, NEW s \in Settlements, SlotCame(s) PROVE BuildInv'
<1>1. TableGrows /\ UNCHANGED <<minted, file, pin, faults>>
  BY SameTables DEF SlotCame, chainVars
<1>2. HasLut(s) /\ Goto(s, "built")
  BY DEF SlotCame, HasLut, At
<1>3. work[s].lut.new = {}
  BY <1>2 DEF SlotCame, BuildInv, CopiesHold, CopyHolds, Marked, Usable
<1> QED
  BY <1>1, <1>2, <1>3, GoesOn DEF Places

-----------------------------------------------------------------------------
(* The steps of everybody.                                                 *)
LEMMA SlotPassesStep == ASSUME BuildInv, SlotPasses PROVE BuildInv'
<1>1. TableGrows /\ UNCHANGED <<minted, file, pin, faults>>
  BY SlotGrows DEF SlotPasses
<1>2. \A s \in Settlements :
         /\ work[s].lut = None => work'[s] = work[s]
         /\ work[s].lut # None =>
               /\ work[s].lut \in Table /\ Activated(work[s].lut) \in Table
               /\ work'[s] = [work[s] EXCEPT !.lut = Activated(@)]
  BY ActivatedOK DEF SlotPasses, BuildInv, TypeOK
<1>3. work' \in [Settlements -> Rec]
  <2>1. \A s \in Settlements : work[s] \in Rec
    BY DEF BuildInv, TypeOK, Rec
  <2>2. \A s \in Settlements : work'[s] \in Rec
    BY <1>2, <2>1 DEF Rec
  <2> QED
    BY <2>2 DEF SlotPasses
<1>4. \A s \in Settlements : work'[s].at = work[s].at
                          /\ work'[s].address = work[s].address
  BY <1>2 DEF BuildInv, TypeOK
<1>5. ASSUME NEW s \in Settlements, HasLut(s) PROVE CopyHolds(s)'
  <2>1. CopyHolds(s)
    BY <1>5 DEF BuildInv, CopiesHold
  <2>2. /\ work'[s].lut = Activated(work[s].lut)
        /\ work[s].lut \in Table
    <3>1. work[s].lut # None /\ work[s].lut \in Table
      BY <2>1, SettleTxAssumption DEF CopyHolds
    <3>2. work[s] \in Rec
      BY DEF BuildInv, TypeOK, Rec
    <3> QED
      BY <1>2, <3>1, <3>2 DEF Rec
  <2>3. LET t == work[s].lut
        IN  /\ Activated(t) \in Table /\ Marked(Activated(t))
            /\ Activated(t).held = t.held /\ Activated(t).new = {}
    BY <2>2, ActivatedOK
  <2>4. LET t == table[work[s].address]
        IN  /\ t \in Table
            /\ table'[work[s].address] = Activated(t)
            /\ Activated(t) # None /\ Activated(t).held = t.held
            /\ Activated(t).new = {}
    <3>1. table[work[s].address] \in Table
      BY <2>1 DEF CopyHolds, BuildInv, TypeOK
    <3>2. table'[work[s].address] = Activated(table[work[s].address])
      BY <2>1 DEF CopyHolds, SlotPasses
    <3> QED
      BY <3>1, <3>2, ActivatedOK, SettleTxAssumption
  <2> QED
    BY <1>4, <2>1, <2>2, <2>3, <2>4 DEF CopyHolds, At
<1>6. CopiesHold'
  BY <1>4, <1>5 DEF CopiesHold, HasLut, At, BuildInv
<1>7. InOrder'
  BY <1>1, <1>4 DEF InOrder, TableGrows, BuildInv
<1>8. TypeOK'
  <2>1. ASSUME NEW s \in Settlements, ~At(s, "idle")', ~Minting(s)',
               ~At(s, "fetching")'
        PROVE  work'[s].lut \in Table
    <3>1. work[s] \in Rec
      BY DEF BuildInv, TypeOK, Rec
    <3>2. HasLut(s)
      BY <1>4, <2>1, <3>1 DEF HasLut, At, Minting, Rec, Places
    <3> QED
      BY <1>5, <3>2 DEF CopyHolds
  <2> QED
    BY <1>1, <1>3, <2>1 DEF TypeOK, TableGrows, BuildInv, Rec
<1>9. ASSUME NEW s \in Settlements, FileHasRoom, MayMint(s)' PROVE MayMint(s)
  <2>1. CASE At(s, "fetching")
    <3>1. work[s].address \in Tables /\ work[s].address <= minted
      BY <2>1, Counts DEF BuildInv, CopiesHold, InOrder
    <3>2. ~RoomyAt(work[s].address)'
      BY <1>4, <1>9, <2>1 DEF MayMint, Minting, At
    <3>3. RoomyAt(work[s].address)' <=> RoomyAt(work[s].address)
      BY <1>1, <1>4, <3>1, RoomKept DEF RoomyAt
    <3> QED
      BY <2>1, <3>2, <3>3 DEF MayMint
  <2>2. CASE Minting(s)
    BY <2>2 DEF MayMint
  <2>3. CASE ~At(s, "fetching") /\ ~Minting(s)
    <3>1. work[s].at \in {"fetched", "ensuring"} /\ ~Roomy(work'[s].lut)
      BY <1>4, <1>9, <2>3 DEF MayMint, Minting, At, Roomy
    <3>2. work[s].lut \in Table /\ work[s].lut # None
      BY <3>1, SettleTxAssumption
         DEF HasLut, BuildInv, CopiesHold, CopyHolds
    <3>3. work[s] \in Rec
      BY DEF BuildInv, TypeOK, Rec
    <3>4. work'[s].lut = Activated(work[s].lut)
      BY <1>2, <3>2, <3>3 DEF Rec
    <3> QED
      BY <3>1, <3>2, <3>4, ActivatedOK DEF MayMint, Roomy
  <2> QED
    BY <2>1, <2>2, <2>3
<1>10. MintsPaid'
  BY <1>1, <1>9, NothingMinted, Counts DEF BuildInv
<1> QED
  BY <1>1, <1>6, <1>7, <1>8, <1>10 DEF BuildInv, TableGrows, TablesMarked

LEMMA RestartStep == ASSUME BuildInv, Restart PROVE BuildInv'
<1>1. TableGrows /\ UNCHANGED <<minted, file, table>> /\ pin' = None /\ Fault
  BY SameTables DEF Restart, chainVars
<1>2. \A s \in Settlements :
         \/ At(s, "built") /\ work'[s] = work[s]
         \/ work'[s] = Idle
  BY DEF Restart
<1>3. work' \in [Settlements -> Rec]
  <2>1. \A s \in Settlements : work[s] \in Rec
    BY DEF BuildInv, TypeOK, Rec
  <2>2. \A s \in Settlements : work'[s] \in Rec
    BY <1>2, <2>1, IdleRec
  <2> QED
    BY <2>2 DEF Restart
<1>4. \A s \in Settlements : HasLut(s)' => HasLut(s) /\ CopyHolds(s)'
  BY <1>1, <1>2, IdleRec, CopyKept DEF HasLut, At
<1>5. \A s \in Settlements :
         ~At(s, "fetching")' /\ ~Minting(s)' /\ ~MayMint(s)'
  BY <1>2, IdleRec DEF At, Minting, MayMint
<1>6. \A s \in Settlements : ~At(s, "idle")' => HasLut(s)'
  BY <1>2, IdleRec DEF HasLut, At
<1>7. faults' \in 0..MaxFaults /\ faults' \in Nat /\ faults <= faults'
  BY <1>1, FaultCount
<1>8. CopiesHold'
  BY <1>4, <1>5 DEF CopiesHold
<1>9. InOrder'
  BY <1>1, <1>2, IdleRec DEF InOrder, TableGrows, BuildInv
<1>10. TypeOK'
  <2>1. \A s \in Settlements : ~At(s, "idle")' => work'[s].lut \in Table
    BY <1>4, <1>6 DEF CopyHolds
  <2> QED
    BY <1>1, <1>3, <1>7, <2>1 DEF TypeOK, TableGrows, BuildInv, Rec
<1>11. MintsPaid'
  BY <1>1, <1>5, <1>7, NothingMinted
<1> QED
  BY <1>1, <1>8, <1>9, <1>10, <1>11 DEF BuildInv, TableGrows, TablesMarked

-----------------------------------------------------------------------------
LEMMA InitBuilds == Init => BuildInv
<1> SUFFICES ASSUME Init PROVE BuildInv
  OBVIOUS
<1> DEFINE full == [held |-> {}, new |-> {}, others |-> Capacity, fresh |-> FALSE]
<1>1. /\ Capacity \in Nat /\ MaxTables \in Nat \ {0} /\ MaxFaults \in Nat
      /\ None \notin Nat /\ None \notin Table
  BY SettleTxAssumption
<1>2. full \in Table /\ Marked(full) /\ Size(full) <= Capacity
  BY <1>1, FS_EmptySet DEF Table, Marked, Size
<1>3. /\ work \in [Settlements -> Rec]
      /\ \A s \in Settlements : work[s] = Idle /\ ~HasLut(s)
      /\ faults = 0 /\ pin = None
  BY IdleRec DEF Init, HasLut
<1>4. CopiesHold
  BY <1>3, IdleRec DEF CopiesHold, At
<1>5. ASSUME table = [a \in Tables |-> None], file = None, minted = 0
      PROVE  BuildInv
  <2>1. TypeOK
    BY <1>1, <1>3, <1>5 DEF TypeOK, Rec, At, Idle
  <2>2. InOrder /\ TablesMarked
    BY <1>3, <1>5, IdleRec DEF InOrder, TablesMarked
  <2>3. MintsPaid
    BY <1>3, <1>5, DoneFinite DEF MintsPaid
  <2> QED
    BY <1>4, <2>1, <2>2, <2>3 DEF BuildInv
<1>6. ASSUME table = [a \in Tables |-> IF a = 1 THEN full ELSE None],
             file = 1, minted = 1, 1 \in Tables
      PROVE  BuildInv
  <2>1. table \in [Tables -> Table \cup {None}]
        /\ \A a \in Tables : table[a] # None => table[a] = full
    BY <1>2, <1>6
  <2>2. \A s \in Settlements : At(s, "idle")
    BY <1>3, IdleRec DEF At
  <2>3. minted \in 0..MaxTables /\ faults \in 0..MaxFaults
    BY <1>1, <1>3, <1>6
  <2>4. TypeOK
    BY <1>2, <1>3, <1>6, <2>1, <2>2, <2>3 DEF TypeOK, Rec
  <2>5. InOrder /\ TablesMarked
    BY <1>2, <1>3, <1>6, IdleRec DEF InOrder, TablesMarked, Tables
  <2>6. MintsPaid
    BY <1>3, <1>6, DoneFinite DEF MintsPaid
  <2> QED
    BY <1>4, <2>4, <2>5, <2>6 DEF BuildInv
<1>7. 1 \in Tables
  BY <1>1 DEF Tables
<1> QED
  BY <1>5, <1>6, <1>7 DEF Init

LEMMA NextBuilds == BuildInv /\ [Next]_vars => BuildInv'
<1> SUFFICES ASSUME BuildInv, [Next]_vars PROVE BuildInv'
  OBVIOUS
<1>1. CASE SlotPasses
  BY <1>1, SlotPassesStep
<1>2. CASE Restart
  BY <1>2, RestartStep
<1>3. ASSUME NEW s \in Settlements, Works(s) PROVE BuildInv'
  BY <1>3, DiscoverStep, FetchStep, CheckSlotStep, EnsureStep, MintLandsStep,
     ExtendConfirmedStep, FetchAgainStep, SlotCameStep DEF Works
<1>4. ASSUME NEW s \in Settlements, GoesWrong(s) PROVE BuildInv'
  BY <1>4, MintUnseenStep, MintRevertsStep, ExtendUnseenStep, FailsStep
     DEF GoesWrong
<1>5. CASE UNCHANGED vars
  <2>1. UNCHANGED <<table, minted, file, pin, work, faults>>
    BY <1>5 DEF vars, chainVars
  <2>2. TypeOK' /\ InOrder' /\ TablesMarked'
    BY <2>1 DEF BuildInv, TypeOK, InOrder, TablesMarked, At, Minting
  <2>3. CopiesHold'
    BY <2>1 DEF BuildInv, CopiesHold, CopyHolds, HasLut, At
  <2>4. \A s \in Settlements : MayMint(s)' => MayMint(s)
    BY <2>1 DEF MayMint, Minting, At, RoomyAt
  <2>5. TableGrows /\ faults' \in Nat /\ faults <= faults'
    BY <2>1, SameTables, Counts DEF chainVars, BuildInv
  <2>6. MintsPaid'
    BY <2>1, <2>4, <2>5, NothingMinted
  <2> QED
    BY <2>2, <2>3, <2>6 DEF BuildInv
<1> QED
  BY <1>1, <1>2, <1>3, <1>4, <1>5 DEF Next

LEMMA BuildInvAlways == Spec => []BuildInv
BY InitBuilds, NextBuilds, PTL DEF Spec

-----------------------------------------------------------------------------
(* The types; a table never exceeds what the chain allows, and a           *)
(* settlement past its fetch has a table in hand.                          *)
THEOREM BuilderTyped == Spec => []TypeOK
<1>1. BuildInv => TypeOK
  BY DEF BuildInv
<1> QED
  BY <1>1, BuildInvAlways, PTL

(* Every address a built transaction looks up is in its table on chain,    *)
(* and was there in an earlier slot: what was fetched stays in the table,  *)
(* and nothing becomes new in it again (settle.ts, the two checks against  *)
(* lastExtendedSlot).                                                      *)
THEOREM BuiltLookupsResolve == Spec => []LookupsResolve
<1>1. BuildInv => LookupsResolve
  <2> SUFFICES ASSUME BuildInv, NEW s \in Settlements, At(s, "built")
               PROVE  work[s].lut.held \subseteq table[work[s].address].held
                                              \ table[work[s].address].new
    BY DEF LookupsResolve
  <2>1. CopyHolds(s) /\ work[s].lut.new = {}
    BY DEF BuildInv, CopiesHold, CopyHolds, HasLut, At
  <2> QED
    BY <2>1 DEF CopyHolds
<1> QED
  BY <1>1, BuildInvAlways, PTL

(* The keeper mints at most a table for each settlement and each fault,    *)
(* whatever it forgets or loses (settle.ts, pendingAlt and the state       *)
(* file): once a table with room is remembered, nobody who looks for one   *)
(* mints another.                                                          *)
THEOREM MintsAreFew == Spec => []FewTablesMinted
<1>1. BuildInv => FewTablesMinted
  <2> SUFFICES ASSUME BuildInv PROVE FewTablesMinted
    OBVIOUS
  <2>1. /\ minted \in Nat /\ faults \in Nat
        /\ Cardinality(DoneMinting) \in Nat /\ Cardinality(Settlements) \in Nat
        /\ Cardinality(DoneMinting) <= Cardinality(Settlements)
    BY Counts, DoneFinite DEF BuildInv
  <2>2. CASE FileHasRoom
    <3>1. minted <= 1 + faults + Cardinality(DoneMinting)
      BY <2>2 DEF BuildInv, MintsPaid
    <3> QED
      BY <2>1, <3>1 DEF FewTablesMinted
  <2>3. CASE ~FileHasRoom
    <3>1. minted <= 1 + faults
      BY <2>3, BeforeRoom
    <3> QED
      BY <2>1, <3>1 DEF FewTablesMinted
  <2> QED
    BY <2>2, <2>3
<1> QED
  BY <1>1, BuildInvAlways, PTL

=============================================================================
