-------------------------- MODULE SpendLedger_proofs --------------------------
(***************************************************************************)
(* The promises of the spend ledger hold for every reserve and every set   *)
(* of limits.  Both invariants are inductive together with the types.      *)
(***************************************************************************)
EXTENDS SpendLedger, TLAPS

\* The types, the coverage of charges and the limit hold together.
LedgerInv == LedgerTypeOK /\ Solvent /\ WithinCeiling

\* The initial ledger is empty: nothing is spent and no limit is selected.
LEMMA LedgerInit == ASSUME LedgerAssumption, Init PROVE LedgerInv
<1>1. LedgerTypeOK
  BY DEF Init, LedgerTypeOK, NoCeiling
<1>2. Solvent
  BY DEF Init, Solvent
<1>3. WithinCeiling
  BY DEF Init, WithinCeiling
<1> QED
  BY <1>1, <1>2, <1>3 DEF LedgerInv

\* Every step of the ledger keeps the types, and what may be charged covered.
LEMMA LedgerStep ==
  ASSUME LedgerAssumption, LedgerInv, [Next]_ledgerVars
  PROVE  LedgerInv'
<1> USE DEF LedgerAssumption, LedgerInv, LedgerTypeOK, Solvent, WithinCeiling, NoCeiling
<1>1. CASE Hold
  BY <1>1 DEF Hold
<1>2. ASSUME NEW price \in 0..Reserve, Settle(price)
      PROVE  LedgerInv'
  BY <1>2 DEF Settle
<1>3. CASE Doubt
  BY <1>3 DEF Doubt
<1>4. CASE Retain
  BY <1>4 DEF Retain
<1>5. ASSUME NEW price \in 0..Reserve, LateBill(price)
      PROVE  LedgerInv'
  BY <1>5 DEF LateBill
<1>6. ASSUME NEW limit \in Ceilings \union {NoCeiling}, SetCeiling(limit)
      PROVE  LedgerInv'
  BY <1>6 DEF SetCeiling
<1>7. CASE UNCHANGED ledgerVars
  BY <1>7 DEF ledgerVars
<1> QED
  BY <1>1, <1>2, <1>3, <1>4, <1>5, <1>6, <1>7 DEF Next

\* The three hold in every state of every behaviour.
LEMMA LedgerInductive ==
  ASSUME LedgerAssumption
  PROVE  Spec => []LedgerInv
<1>1. Init => LedgerInv
  BY LedgerInit
<1>2. LedgerInv /\ [Next]_ledgerVars => LedgerInv'
  BY LedgerStep
<1> QED
  BY <1>1, <1>2, PTL DEF Spec

\* The ledger's variables always have their types.
THEOREM LedgerTypes ==
  ASSUME LedgerAssumption
  PROVE  Spec => []LedgerTypeOK
<1>1. LedgerInv => LedgerTypeOK
  BY DEF LedgerInv
<1> QED
  BY <1>1, LedgerInductive, PTL

\* The recorded spend always covers every charge made or still possible.
THEOREM LedgerSolvent ==
  ASSUME LedgerAssumption
  PROVE  Spec => []Solvent
<1>1. LedgerInv => Solvent
  BY DEF LedgerInv
<1> QED
  BY <1>1, LedgerInductive, PTL

\* The recorded spend never exceeds the selected limit.
THEOREM LedgerWithinCeiling ==
  ASSUME LedgerAssumption
  PROVE  Spec => []WithinCeiling
<1>1. LedgerInv => WithinCeiling
  BY DEF LedgerInv
<1> QED
  BY <1>1, LedgerInductive, PTL
===============================================================================
