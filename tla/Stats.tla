------------------------------- MODULE Stats -------------------------------
(***************************************************************************)
(* The probe statistics of stats.c: counters and latency accumulators with *)
(* saturating uint64_t arithmetic, as operators on the statistics record.  *)
(* Averages and rates are left as fractions <<numerator, denominator>>:    *)
(* the code divides only to print them.                                    *)
(***************************************************************************)
EXTENDS Base

CONSTANTS NS_PER_US, MS_PER_SEC   \* 1000 and 1000

ASSUME UnitsAssumption == NS_PER_US \in Nat \ {0} /\ MS_PER_SEC \in Nat \ {0}

NO_SAMPLE == UINT64_MAX

ls_stats_t == [ok : Uint64, failed : Uint64, latency_sum_us : Uint64,
               latency_min_us : Uint64, latency_max_us : Uint64,
               started_at_ms : Uint64]

ls_stats_init(now_ms) ==
  [ok |-> 0, failed |-> 0, latency_sum_us |-> 0, latency_min_us |-> NO_SAMPLE,
   latency_max_us |-> NO_SAMPLE, started_at_ms |-> now_ms]

\* The whole microseconds that (uint64_t)((double)ns / 1e6 * 1e3) yields: the
\* two roundings may push an exact number of microseconds just below itself.
Microseconds(ns) ==
  {ns \div NS_PER_US} \cup
  {us \in {(ns \div NS_PER_US) - 1} : us >= 0 /\ ns % NS_PER_US = 0}

\* Mutant: the first success does not clear the sentinel of the maximum.
ls_stats_add_ok_sentinel(s, us) ==
  [s EXCEPT !.ok = ls_add_sat(@, 1),
            !.latency_sum_us = ls_add_sat(@, us),
            !.latency_min_us = IF us < @ THEN us ELSE @,
            !.latency_max_us = IF us > @ THEN us ELSE @]

ls_stats_add_ok(s, us) ==
  [s EXCEPT !.ok = ls_add_sat(@, 1),
            !.latency_sum_us = ls_add_sat(@, us),
            !.latency_min_us = IF us < @ THEN us ELSE @,
            !.latency_max_us = IF @ = NO_SAMPLE \/ us > @ THEN us ELSE @]

ls_stats_add_fail(s) == [s EXCEPT !.failed = ls_add_sat(@, 1)]

ls_stats_total(s) == ls_add_sat(s.ok, s.failed)

ls_stats_success_rate(s) ==
  IF ls_stats_total(s) = 0 THEN <<0, 1>> ELSE <<s.ok, ls_stats_total(s)>>

ls_stats_avg_latency(s) ==
  IF s.ok = 0 THEN <<0, 1>> ELSE <<s.latency_sum_us, s.ok>>

ls_stats_min_latency(s) ==
  IF s.latency_min_us = NO_SAMPLE THEN 0 ELSE s.latency_min_us

ls_stats_max_latency(s) ==
  IF s.latency_max_us = NO_SAMPLE THEN 0 ELSE s.latency_max_us

\* now_ms is UINT64_MAX when the clock cannot be read.
ls_stats_uptime_sec(s, now_ms) ==
  IF now_ms = UINT64_MAX \/ s.started_at_ms = UINT64_MAX
     \/ now_ms < s.started_at_ms
  THEN 0 ELSE (now_ms - s.started_at_ms) \div MS_PER_SEC
=============================================================================
