----------------------------- MODULE MCSizing -----------------------------
(***************************************************************************)
(* int64 is scaled to 14 bits: every number that fits it, and some that do *)
(* not, is tried as a block size, with and without a suffix; every range   *)
(* around the bounds of the smallest and of the largest block size.        *)
(***************************************************************************)
EXTENDS SizingCalls

NoRange == [required |-> 0, limit |-> 0]
Blank   == [text |-> "blank", value |-> 0, kibi |-> FALSE]
Number(n, kibi) == [text |-> "number", value |-> n, kibi |-> kibi]

BlockSizeTexts ==
    {Number(n, kibi) : n \in -IntLimit - 2 .. IntLimit + 2, kibi \in BOOLEAN}
    \cup {Blank, [Blank EXCEPT !.text = "garbage"]}

Bounds == (-1 .. MinimumBlockSize + 2) \cup (MaximumBlockSize - 1 .. MaximumBlockSize + 1)

Ranges == {[required |-> r, limit |-> l] : r \in Bounds, l \in Bounds}

TriedCalls ==
    (BlockSizeTexts \X {NoRange})
    \cup ({Blank, Number(MaximumBlockSize, FALSE)} \X Ranges)

=============================================================================
