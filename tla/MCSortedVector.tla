--------------------------- MODULE MCSortedVector ---------------------------
(* Keys for TLC: 10 and 11 are equivalent, 0 is an empty key. *)
EXTENDS SortedVector

MCKey == {0, 10, 11, 20}
MCRank == [k \in MCKey |-> k \div 10]
Reversed == [k \in MCKey |-> -MCRank[k]]
Copied == [k \in MCKey |-> k]
Emptied == [k \in MCKey |-> 0]
=============================================================================
