----------------------------- MODULE SpendLedger -----------------------------
(***************************************************************************)
(* What the provider spend record promises, apart from who asks and when.  *)
(*                                                                         *)
(* Every priced request is reserved at its highest possible price before   *)
(* it leaves the computer.  A reply with usage turns the reservation into  *)
(* the price of that usage.  A request whose reply never arrives keeps its *)
(* whole reservation and leaves the ledger in doubt until a person retains *)
(* it.  The provider may still bill such a request, once, later.           *)
(*                                                                         *)
(* DesignWorkspace implements this specification; the promise itself is    *)
(* stated here once: Solvent and WithinCeiling.                            *)
(***************************************************************************)
EXTENDS Integers

CONSTANTS
    Reserve,    \* price reserved for one request, request_reserve_nano
    Ceilings    \* spend limits a person may select

\* What the theorems assume of the constants.
LedgerAssumption ==
    /\ Reserve \in Nat \ {0}
    /\ Ceilings \subseteq Nat \ {0}

NoCeiling == 0

VARIABLES
    ceiling,    \* selected spend limit, NoCeiling when no priced provider is selected
    spent,      \* recorded spend, reservations included
    held,       \* reservation of the request in flight, 0 when there is none
    doubtful,   \* the cost of an earlier request is not known
    billed,     \* what the provider has really charged
    exposed     \* what the provider may still charge for requests already sent

ledgerVars == <<ceiling, spent, held, doubtful, billed, exposed>>

Init ==
    /\ ceiling = NoCeiling
    /\ spent = 0
    /\ held = 0
    /\ doubtful = FALSE
    /\ billed = 0
    /\ exposed = 0

\* Reserve the highest price of one request and send it.
Hold ==
    /\ held = 0
    /\ ~doubtful
    /\ ceiling # NoCeiling
    /\ spent + Reserve <= ceiling
    /\ spent' = spent + Reserve
    /\ held' = Reserve
    /\ exposed' = exposed + Reserve
    /\ UNCHANGED <<ceiling, doubtful, billed>>

\* The reply reports a price within the reservation; the rest is released.
Settle(price) ==
    /\ held > 0
    /\ exposed >= held
    /\ spent' = spent - (held - price)
    /\ held' = 0
    /\ billed' = billed + price
    /\ exposed' = exposed - held
    /\ UNCHANGED <<ceiling, doubtful>>

\* The request is given up without a reply: its reservation stays spent.
Doubt ==
    /\ held > 0
    /\ held' = 0
    /\ doubtful' = TRUE
    /\ UNCHANGED <<ceiling, spent, billed, exposed>>

\* A person accepts the full reservation as the recorded cost.
Retain ==
    /\ doubtful
    /\ doubtful' = FALSE
    /\ UNCHANGED <<ceiling, spent, held, billed, exposed>>

\* The provider charges a request whose reply was lost.
LateBill(price) ==
    /\ exposed >= Reserve
    /\ billed' = billed + price
    /\ exposed' = exposed - Reserve
    /\ UNCHANGED <<ceiling, spent, held, doubtful>>

\* A person selects another limit, or a provider without one.
SetCeiling(limit) ==
    /\ held = 0
    /\ ~doubtful
    /\ limit # NoCeiling => limit >= spent
    /\ ceiling' = limit
    /\ UNCHANGED <<spent, held, doubtful, billed, exposed>>

Next ==
    \/ Hold
    \/ \E price \in 0..Reserve : Settle(price) \/ LateBill(price)
    \/ Doubt
    \/ Retain
    \/ \E limit \in Ceilings \union {NoCeiling} : SetCeiling(limit)

Spec == Init /\ [][Next]_ledgerVars

-----------------------------------------------------------------------------

\* The variables keep their types: one reservation at most is held at a time.
LedgerTypeOK ==
    /\ ceiling \in Ceilings \union {NoCeiling}
    /\ spent \in Nat
    /\ held \in {0, Reserve}
    /\ doubtful \in BOOLEAN
    /\ billed \in Nat
    /\ exposed \in Nat

\* The recorded spend covers every charge made and every charge still possible:
\* no lost reply, restart or abandonment makes the record understate the bill.
Solvent == billed + exposed <= spent

\* The recorded spend never exceeds the selected limit, so with Solvent the
\* provider never charges more than the limit.
WithinCeiling == ceiling # NoCeiling => spent <= ceiling
==============================================================================
