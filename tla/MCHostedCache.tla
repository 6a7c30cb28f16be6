---------------------------- MODULE MCHostedCache ----------------------------
(* Drawings of one to three ranges. The channel reads two at a time and     *)
(* queues one, so that the third of three may be refused.                   *)
EXTENDS HostedCache

MCRanges == {<<0, 1>>, <<1, 1>>, <<2, 1>>}
Leading(n) == {range \in MCRanges : range[1] < n}

Setting(n, retried, hidden, rebuilt, faults) ==
  [ranges |-> Leading(n), retries |-> retried, hides |-> hidden, rebuilt |-> rebuilt,
   faults |-> faults]

MCSettings == {
  \* Any step may fail.
  Setting(3, 0, 0, TRUE, TRUE), Setting(1, 1, 0, TRUE, TRUE),
  \* The user retries: the cache is built again, or is the same.
  Setting(2, 1, 0, TRUE, FALSE), Setting(2, 1, 0, FALSE, FALSE), Setting(1, 2, 0, TRUE, FALSE),
  \* The editor is hidden and shown again.
  Setting(2, 0, 1, FALSE, FALSE), Setting(1, 0, 1, FALSE, TRUE)}
==============================================================================
