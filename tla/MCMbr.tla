------------------------------- MODULE MCMbr -------------------------------
(* Tables of three entries; an extended partition with up to three EMBRs. *)
EXTENDS Mbr, TLC

Free == [kind |-> "free", flags |-> "off", start |-> 0]
Data == [kind |-> "data", flags |-> "off", start |-> 1]
To(s) == [kind |-> "extended", flags |-> "off", start |-> s]

\* The table with no active entry, with one, and with one that is not understood.
Flagged(t) ==
  {t} \cup { [t EXCEPT ![i].flags = f] : i \in { j \in 1 .. 3 : t[j].kind # "free" }, f \in {"on", "bad"} }

SignedTables(T) == { [signed |-> TRUE, table |-> t] : t \in UNION { Flagged(u) : u \in T } }

\* The extended partition starts at sector 2; its EMBRs are at 2, 3 and 4.
Mbrs == SignedTables({ <<Data, To(2), Free>>, <<To(2), Data, Data>> })
Embrs1 == SignedTables({ <<Data, To(1), Data>>, <<Data, Data, To(1)>>, <<To(1), Data, Free>> })
Embrs2 == SignedTables({ <<Data, To(2), Free>>, <<Data, Free, To(2)>> })
            \cup { [signed |-> FALSE, table |-> <<Free, Free, Free>>] }
Embrs3 == SignedTables({ <<Data, Free, Free>> })
            \cup { [signed |-> TRUE, table |-> <<Data, Data, Data>>] }

Laid(M) ==
  { 0 :> m @@ 2 :> e1 @@ 3 :> e2 @@ 4 :> e3 :
      m \in M, e1 \in Embrs1, e2 \in Embrs2, e3 \in Embrs3 }

MCDisks == Laid(Mbrs)
=============================================================================
