--------------------------- MODULE MCMaintenance ---------------------------
(***************************************************************************)
(* Tables for TLC.  Row sizes are those PostgreSQL gives to columns of the *)
(* widths that pg_stats would report.                                      *)
(***************************************************************************)
EXTENDS Maintenance

Own(threshold, scale) == [threshold |-> threshold, scale |-> scale]

\* 180 bytes of data: 4 + 24 + 184.  A key of 100 bytes: 4 + 8 + 104.
Usual ==
  [columns |-> 4, nullable |-> FALSE, width |-> 180, padding |-> 0, tuple |-> 212,
   iwidth |-> 100, ipadding |-> 0, ituple |-> 116, fillfactor |-> 100, ifillfactor |-> 90,
   options |-> [threshold |-> Unset, scale |-> Unset, enabled |-> "unset"], enabled |-> "unset",
   live |-> 3, analyzed |-> TRUE, frozen |-> 1, mxid_age |-> 0, autovacuum |-> TRUE,
   asked |-> {"vacuum", "bloat", "exact"}]

Wide == [Usual EXCEPT !.width = 1500, !.tuple = 1532, !.live = 2, !.asked = {"bloat"}]

\* Eight pairs of a boolean and a bigint, with seven bytes between the two: 72 bytes of
\* data that take 128.  Four of the pairs are the key: 36 bytes that take 64.
Pairs ==
  [Usual EXCEPT !.columns = 16, !.width = 72, !.padding = 56, !.tuple = 156,
                !.iwidth = 36, !.ipadding = 28, !.ituple = 76, !.asked = {"bloat", "exact"}]

MCProfiles ==
  {Usual,
   \* somebody turned autovacuum off, it was never analyzed, rows are small
   [Usual EXCEPT !.enabled = "false", !.columns = 9, !.nullable = TRUE, !.width = 12,
                 !.tuple = 52, !.mxid_age = 2, !.analyzed = FALSE],
   \* turned off in another word, in the cluster too, long ago
   [Usual EXCEPT !.enabled = "off", !.autovacuum = FALSE, !.frozen = 0, !.asked = {"vacuum"}],
   \* pages kept half empty on purpose
   [Usual EXCEPT !.fillfactor = 50, !.options.threshold = 2000, !.options.scale = 0],
   \* five rows to a page, or two
   Wide, [Wide EXCEPT !.fillfactor = 50],
   \* half as long again as the statistics say
   Pairs}

MCPadded == {[Pairs EXCEPT !.live = 2, !.asked = {"bloat"}]}

MCCluster ==
  [vacuum_threshold |-> 50, vacuum_scale_percent |-> 20, freeze_max_age |-> 3,
   multixact_freeze_max_age |-> 4, autovacuum_on |-> TRUE]
=============================================================================
