--------------------------- MODULE MCIndexAdvice ---------------------------
(***************************************************************************)
(* Catalogs for TLC.  Up to three indexes of one table, of every kind the  *)
(* rules tell apart, and four plain ones for chains of advice: a copy of   *)
(* an index that is itself redundant to a third that has a copy.           *)
(***************************************************************************)
EXTENDS IndexAdvice

Plain(n, key, size) ==
  [name |-> n, access |-> "t", key |-> key, all_columns |-> {key[p][1] : p \in DOMAIN key},
   unique |-> FALSE, replident |-> FALSE, constrains |-> FALSE, valid |-> TRUE, size |-> size]

A == <<"a", "asc">>
B == <<"b", "asc">>
C == <<"c", "asc">>

Kinds(n) ==
  LET a == Plain(n, <<A>>, 1)
      ab == Plain(n, <<A, B>>, 2)
  IN {a, ab, Plain(n, <<A>>, 2), Plain(n, <<<<"a", "desc">>>>, 1),
      [a EXCEPT !.all_columns = {"a", "b"}],
      [a EXCEPT !.all_columns = {"a", "c"}],
      [a EXCEPT !.access = "u"],
      [a EXCEPT !.unique = TRUE],
      [a EXCEPT !.unique = TRUE, !.replident = TRUE],
      [a EXCEPT !.unique = TRUE, !.constrains = TRUE],
      [ab EXCEPT !.unique = TRUE, !.constrains = TRUE],
      [a EXCEPT !.unique = TRUE, !.valid = FALSE],
      [ab EXCEPT !.valid = FALSE]}

Chains(n) == {Plain(n, <<A>>, 1), Plain(n, <<A, B>>, 2), Plain(n, <<A, B, C>>, 1)}

MCCatalogs ==
  {{i, j, k} : i \in Kinds(1), j \in Kinds(2), k \in Kinds(3)}
    \cup {{i, j, k, l} : i \in Chains(1), j \in Chains(2), k \in Chains(3), l \in Chains(4)}

AllChecks == {"index.invalid", "index.duplicate", "index.redundant", "index.unused"}
=============================================================================
