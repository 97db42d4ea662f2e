----------------------------- MODULE GateLedger -----------------------------
(***************************************************************************)
(* What the dungeon gate promises about a gate, whatever seasons, ranks,   *)
(* keys, prices and rewards do: it belongs for good to the hunter who      *)
(* entered it, gates are numbered in the order of entry, and an open gate  *)
(* is cleared at most once, by its hunter, and never opens again.          *)
(* DungeonGate implements this specification.                              *)
(***************************************************************************)
EXTENDS Naturals, Sequences

CONSTANT Hunters

VARIABLES
    owner,      \* the hunters of the gates, in the order of entry
    open        \* hunter -> the gates not cleared yet

ledgerVars == <<owner, open>>

LedgerInit ==
    /\ owner = <<>>
    /\ open = [h \in Hunters |-> {}]

Enter(h) ==
    /\ owner' = Append(owner, h)
    /\ open' = [open EXCEPT ![h] = @ \union {Len(owner) + 1}]

Clear(h, g) ==
    /\ g \in open[h]
    /\ open' = [open EXCEPT ![h] = @ \ {g}]
    /\ UNCHANGED owner

LedgerNext ==
    \E h \in Hunters :
        \/ Enter(h)
        \/ \E g \in open[h] : Clear(h, g)

LedgerSpec == LedgerInit /\ [][LedgerNext]_ledgerVars
=============================================================================
