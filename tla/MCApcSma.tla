------------------------------ MODULE MCApcSma ------------------------------
(***************************************************************************)
(* Instances of ApcSma for TLC.                                             *)
(***************************************************************************)
EXTENDS ApcSma

\* Headers that were joined to a neighbour are written before they are read.
Live == <<{<<b, size[b], prev_size[b], list.fnext[b], list.fprev[b]>> :
              b \in Blocks \cup {First, Last}}, free, avail>>
=============================================================================
