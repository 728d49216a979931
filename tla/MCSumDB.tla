------------------------------ MODULE MCSumDB ------------------------------
(***************************************************************************)
(* SumDB with a log that may sign a second history.                        *)
(***************************************************************************)

EXTENDS SumDB, TLC

CONSTANTS l1, l2, l3, l4, l5, h1, h2, d1

\* The second history leaves the first one after one entry. It has an entry that
\* parseEntry rejects, and one that is in it twice behind the first index looked at.
Growing  == (0 :> l1) @@ (1 :> l2) @@ (2 :> l4) @@ (3 :> l5)
Split    == (0 :> l1) @@ (1 :> l4) @@ (2 :> l3) @@ (3 :> l4)
BothLogs == {Growing, Split}

\* Two host names under one eTLD+1.
LeafHosts   == (l1 :> h1) @@ (l2 :> h2) @@ (l3 :> h2) @@ (l4 :> h1) @@ (l5 :> h2)
HostDomains == (h1 :> d1) @@ (h2 :> d1)

=============================================================================
