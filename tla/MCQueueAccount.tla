---------------------------- MODULE MCQueueAccount ----------------------------
\* The code's sizes. Two request shapes share an aligned span (112) with
\* different ends, two have spans of their own, one has too many accounts. The
\* account holds three of the larger requests or four small ones and its length
\* is no multiple of the alignment.
EXTENDS QueueAccount, TLC

MCShapes ==
  {[disc |-> 8, metas |-> 0, args |-> 0],
   [disc |-> 8, metas |-> 0, args |-> 3],
   [disc |-> 8, metas |-> 0, args |-> 8],
   [disc |-> 8, metas |-> 1, args |-> 4],
   [disc |-> 8, metas |-> MaxMetas + 1, args |-> 0]}

Symmetry == Permutations(Ids)

=============================================================================
