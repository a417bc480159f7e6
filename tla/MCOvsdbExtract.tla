--------------------------- MODULE MCOvsdbExtract ---------------------------
(***************************************************************************)
(* Instances of OvsdbExtract for TLC: two callers and an archive with its  *)
(* directory entry, two northbound databases and, between them, a          *)
(* southbound one, whose pod has no node.                                  *)
(***************************************************************************)
EXTENDS OvsdbExtract

CONSTANTS c1, c2, n1, n2, b1

MCCallers    == {c1, c2}
MCFiles      == {n1, n2, b1}
MCNorthbound == {n1, n2}
MCSouthbound == {b1}
MCAssigned   == {n1, n2}
MCArchive    == <<Dir, n1, b1, n2>>
MCStores     == {"none", "file"}
=============================================================================
