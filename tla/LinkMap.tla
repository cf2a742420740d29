------------------------------- MODULE LinkMap -------------------------------
(***************************************************************************)
(* The cluster link map table of FatFs (source/libs/fatfs/ff.c), which     *)
(* f_expand_cltbl builds once for a file and the transfers look clusters   *)
(* up in.  A chain is the sequence of the file's clusters; the table is    *)
(* the sequence of its fragments [ncl, tcl], ncl clusters from tcl on.     *)
(***************************************************************************)
EXTENDS Naturals, SequencesExt

\* cl == pcl + 1: the cluster goes on the last fragment.
Follows(table, cl) ==
  table # <<>> /\ cl = Last(table).tcl + Last(table).ncl

Extend(table, cl) ==
  IF Follows(table, cl)
  THEN Front(table) \o <<[Last(table) EXCEPT !.ncl = @ + 1]>>
  ELSE Append(table, [ncl |-> 1, tcl |-> cl])

\* The cluster of number cl in the file, 0 past the end of the table.
clmt_clust(table, cl) ==
  LET find[i \in 1..(Len(table) + 1)] ==
        [c \in Nat |-> IF i > Len(table) THEN 0
                       ELSE IF c < table[i].ncl THEN c + table[i].tcl
                       ELSE find[i + 1][c - table[i].ncl]]
  IN find[1][cl]
=============================================================================
