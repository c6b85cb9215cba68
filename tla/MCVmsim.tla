------------------------------ MODULE MCVmsim ------------------------------
EXTENDS Vmsim, Sequences

\* The pages of opt's trace are numbered in the order of their first use: any
\* other trace is one of these with other names for the pages.
NumberedByFirstUse ==
  algorithm = "opt" =>
    \A k \in DOMAIN trace :
      \A p \in Page : p < trace[k].page => \E j \in 1..k : trace[j].page = p

=============================================================================
