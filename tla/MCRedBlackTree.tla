---------------------------- MODULE MCRedBlackTree ----------------------------
(* A small instance of RedBlackTree for TLC. *)
EXTENDS RedBlackTree

Ten == 1 .. 10

\* Every run of the first seven prices, and of nine and ten levels, with all of
\* the first eight between them.  The loop of an insert goes a second round from
\* eight levels on, that of a delete from ten on: a black node must lose a black
\* child below a black grandparent.
Few == Keys \subseteq 1 .. 7 \/ Keys = 1 .. 8
Many == Cardinality(Keys) >= 9

MCSpec == Init /\ [][Next /\ (Few \/ Many)']_vars /\ WF_vars(Fixup)
=============================================================================
