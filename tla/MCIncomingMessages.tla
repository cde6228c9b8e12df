------------------------- MODULE MCIncomingMessages -------------------------
EXTENDS IncomingMessages, TLC

CONSTANTS a1, a2, c1, c2, m1, m2, s1, s2, k1, k2

\* m1 is a message of a group both accounts are in.
MCRecipients == [m \in Messages |-> IF m = m1 THEN {a1, a2} ELSE {a1}]
MCText       == [m \in Messages |-> IF m = m1 THEN "price" ELSE "ok"]
MCKind       == [t \in Texts |-> IF t = "ok" THEN "short" ELSE "plain"]
MCMatch      == [t \in Texts |-> k1 :> "word" @@ k2 :> "part"]
MCRuleLists  == {<<>>, <<<<k2>>, <<k1, k2>>, <<k2, k1>>>>}
Symmetry == Permutations(Slots) \cup Permutations(Clients)
=============================================================================
