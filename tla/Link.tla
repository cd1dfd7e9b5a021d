-------------------------------- MODULE Link -------------------------------
(***************************************************************************)
(* Monitor with a history of its link.  healthy says that, so far, no send *)
(* was refused and the reply to every probe was in the socket buffer       *)
(* before its timeout was over.  first is the loop's time at which it sent *)
(* the first of the probes that no accepted reply has followed.            *)
(***************************************************************************)
EXTENDS MonitorInvariant

VARIABLES healthy, first

HealthyStep ==
  /\ probes' # probes => \E r \in net' : r.probe = probes'
  /\ clock' # clock /\ clock' - probe_sent_ns >= timeout_ms =>
       \A r \in net : r.probe # probes \/ Outstanding = 0

LinkNext ==
  /\ Next
  /\ healthy' = (healthy /\ HealthyStep)
  /\ first' = IF probes' # probes /\ probes = credited THEN now_ms ELSE first

linkVars == <<vars, healthy, first>>

LinkSpec == Init /\ healthy = TRUE /\ first = 0 /\ [][LinkNext]_linkVars

\* On a link that has been healthy no probe is counted as failed, however late
\* the loop wakes up and however many unrelated packets it has to read.
HealthyLink == healthy => stats.failed = 0

\* The probes sent or refused since the last accepted reply.
Unanswered == probes - credited

\* Catching up with missed periods sends no burst of probes.  A probe that is sent
\* late may be followed by the next one early, at once when it is exactly a period
\* late; but ls_timer_step makes up for no more than that, so a streak of n probes
\* takes n - 2 whole periods or more, wherever in it and for however long the loop
\* was held up.
NoBurst ==
  Unanswered >= 2 => now_ms >= first + (Unanswered - 2) * interval_ms

\* Why: the next probe is due n - 1 periods after the first one, or later.
Pace ==
  Unanswered >= 1 => deadline["ping"] >= first + (Unanswered - 1) * interval_ms

\* Why HealthyLink: the reply to the outstanding probe is on its way or in the socket buffer,
\* and no longer on its way once the reply timer is due.
InReach ==
  \/ \E r \in net : r.probe = probes
  \/ \E i \in 1 .. Len(sockbuf) : sockbuf[i].probe = probes

Reach ==
  ~stopping =>
    /\ WholeTimeouts
    /\ Outstanding = 1 =>
         InReach /\ (clock >= deadline["reply"] => \A r \in net : r.probe # probes)

ReplyInReach == healthy => Reach
=============================================================================
