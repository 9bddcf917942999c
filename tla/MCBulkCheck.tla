---------------------------- MODULE MCBulkCheck ----------------------------
(* Model-checking instance of BulkCheck: one Confluent and one Unity       *)
(* registry, two subjects, two schema contents.                            *)
EXTENDS BulkCheck

CONSTANTS rc, ru, rx, s1, s2, c1, c2

\* c2 can read data written with c1 (a backward-compatible addition);
\* c1 cannot read c2.
MCCompat == {<<c1, c1>>, <<c2, c2>>, <<c2, c1>>}

MCKind == [r \in {rc, ru, rx} |-> IF r = ru THEN Unity ELSE Confluent]

V(n, c) == [ver |-> n, content |-> c]

\* s1 at rc evolved compatibly (v1 c1, v2 c2); s2 went back from c2 to c1.
MCInitHist ==
    [r \in {rc, ru, rx} |->
        [s \in {s1, s2} |->
            CASE r = rc /\ s = s1 -> <<V(1, c1), V(2, c2)>>
              [] r = rc /\ s = s2 -> <<V(1, c1), V(2, c2), V(3, c1)>>
              [] r = ru /\ s = s1 -> <<V(1, c1)>>
              [] OTHER            -> <<>>]]

\* registry_ids names an unknown registry between the two active ones.
MCRequested == <<rc, rx, ru>>
=============================================================================
