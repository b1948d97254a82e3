--------------------------- MODULE MCProductStore ---------------------------
EXTENDS ProductStore, TLC
CONSTANTS p1, p2, u1, u2
Symmetry == Permutations({p1, p2}) \cup Permutations({u1, u2})

\* GG.deals tells official stores and key shops apart and no regular price;
\* CheapShark tells no classes of stores.
Quoted(what, class, amount) == [kind |-> what, class |-> class, amount |-> amount, regular |-> 0]
Shop(amount) == [Quoted("offer", "unknown", amount) EXCEPT !.regular = 22]
MCQuotes == [p \in {"gg-deals", "cheapshark"} |->
    IF p = "gg-deals"
    THEN {{Quoted("offer", "official", n), Quoted("low", "official", 20)} : n \in 20 .. 22}
         \cup {{Quoted("offer", "official", 21), Quoted("low", "official", 0)},
               {Quoted("low", "official", 20)}, {Quoted("offer", "keyshop", 21)}}
    ELSE {{Shop(21), Shop(22)}, {Shop(21), Quoted("low", "unknown", 20)},
          {Quoted("low", "unknown", 20)}}]
=============================================================================
