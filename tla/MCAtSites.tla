------------------------------ MODULE MCAtSites ------------------------------
(* Records do not touch each other: one document, among messages without a *)
(* record. What happens to a publication happens to a document as well.    *)
EXTENDS AtSites

CONSTANT doc
=============================================================================
