------------------------------ MODULE MCShreds ------------------------------
(* An instance of Shreds for TLC. *)
EXTENDS Shreds

Shred == [len |-> 40, version |-> 4, udp |-> TRUE, offset |-> 0, more |-> FALSE,
          to_group |-> TRUE, ihl |-> 20, total_len |-> 40, port |-> TRUE]

\* A shred, the same with one field wrong, and every mix of lengths that meets
\* a boundary: options in the header, padding, a truncated read.
Crossing ==
  {[Shred EXCEPT !.version = 6], [Shred EXCEPT !.udp = FALSE],
   [Shred EXCEPT !.offset = 1], [Shred EXCEPT !.more = TRUE],
   [Shred EXCEPT !.offset = 1, !.more = TRUE],
   [Shred EXCEPT !.to_group = FALSE], [Shred EXCEPT !.port = FALSE]}
  \cup {[Shred EXCEPT !.len = l, !.ihl = h, !.total_len = t] :
          l \in {19, 27, 28, 40}, h \in {16, 20, 24}, t \in {20, 28, 31, 40}}
=============================================================================
