------------------------------ MODULE MCSupply ------------------------------
(* One part line of a whole unit and one of a unit and a half, which takes *)
(* two; the stock holds at most two of a part.                             *)
EXTENDS Supply, TLC

CONSTANTS p1, p2

MCKeys ==
    {DispatchKey(o, v, p) : o \in Orders, v \in 1..MaxVersion, p \in Parts}
        \cup {ReceiptKey(u, i) : u \in Purchases, i \in Items}
        \cup {ManualKey(p) : p \in Parts}

MCContents == {<<[part |-> p1, quantity |-> 100], [part |-> p2, quantity |-> 150]>>}
TwiceThePart == {<<[part |-> p1, quantity |-> 100], [part |-> p1, quantity |-> 100]>>}
MCEntries == {[part |-> p1, quantity |-> 1], [part |-> p2, quantity |-> 2]}
MCShortages == {<<[part |-> p1, quantity |-> 1]>>}

Symmetry == Permutations(Orders) \cup Permutations(Requests)
              \cup Permutations(Purchases) \cup Permutations(Items)
=============================================================================
