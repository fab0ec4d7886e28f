----------------------------- MODULE BlockStore -----------------------------
(***************************************************************************)
(* What the indexer's database promises its readers about the table        *)
(* "blocks": it is a stack.  A row is only ever added above every row that *)
(* is there, and rows only ever leave from the top, all at once.  No row   *)
(* is rewritten in place and no row is slipped in below another.           *)
(***************************************************************************)
EXTENDS Naturals

CONSTANTS Heights,   \* the block heights
          Blocks,    \* the block identities
          NoBlock    \* there is no row for a height

VARIABLE rows        \* rows[h] is the block stored at height h, or NoBlock

Init == rows = [h \in Heights |-> NoBlock]

Push(h, b) ==
    /\ \A k \in Heights : k >= h => rows[k] = NoBlock
    /\ rows' = [rows EXCEPT ![h] = b]

CutAbove(p) == rows' = [h \in Heights |-> IF h > p THEN NoBlock ELSE rows[h]]

Next ==
    \/ \E h \in Heights, b \in Blocks : Push(h, b)
    \/ \E p \in Heights \cup {0} : CutAbove(p)

Spec == Init /\ [][Next]_rows
=============================================================================
