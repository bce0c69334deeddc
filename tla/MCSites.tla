------------------------------- MODULE MCSites -------------------------------
EXTENDS Sites, TLC
CONSTANTS A, B, a1, a2, b1, w1, w2, d, l1, l2, l3
MCSiteOf == [t \in Tokens |-> IF t = b1 THEN B ELSE A]
MCSiteFor == [c \in Commands |-> IF c = d THEN None ELSE A]
Old == {{}, {A}, {B}}
MCCasts ==
    {[who |-> {w1, d, l1}, ops |-> {"sync", "read"}, creds |-> {a1}, held |-> {{}}],
     [who |-> {w1, w2, d}, ops |-> {"sync"}, creds |-> {None}, held |-> {{}}],
     [who |-> {w1, w2}, ops |-> {"sync", "read"}, creds |-> {None, b1}, held |-> {{}, {B}}],
     [who |-> {w1, d}, ops |-> {"sync", "read"}, creds |-> {None, a1, a2, b1}, held |-> Old],
     [who |-> {d, l1}, ops |-> {"sync", "read"}, creds |-> {None, a1, a2, b1}, held |-> Old],
     [who |-> {w1}, ops |-> {"import"}, creds |-> {None, b1}, held |-> {{}}],
     [who |-> {l1, l2, l3}, ops |-> {}, creds |-> {None, a1, a2, b1}, held |-> {{}}]}
MCSymmetry == Permutations({a1, a2}) \cup Permutations({w1, w2}) \cup Permutations({l1, l2, l3})
=============================================================================
