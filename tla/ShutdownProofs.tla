--------------------------- MODULE ShutdownProofs ---------------------------
(***************************************************************************)
(* Proofs about the threshold action, for every grace period, retry window *)
(* and number of calls, whatever system calls fail and however long the    *)
(* process is held up.                                                     *)
(***************************************************************************)
EXTENDS Shutdown, FiniteSetTheorems, TLAPS

\* A call that has not returned has a child, and has been counted; no call
\* follows one that triggered the shutdown.
Calling ==
  /\ pc # "idle" => children # <<>> /\ faults < calls /\ result # "TRIGGERED"
  /\ pc = "idle" /\ result = "none" => children = <<>>

\* A command that exited with code 0 has asked for the poweroff.
Asked ==
  \A c \in DOMAIN children : children[c].status = "success" => children[c].asked

\* How far the clock has got at each control point.
Progress ==
  /\ pc = "start" => clock <= began + held
  /\ pc \in {"waitpid", "now", "sleep", "kill"} =>
       /\ deadline_ms <= began + LS_STARTUP_GRACE_MS + held
       /\ clock <= began + LS_STARTUP_GRACE_MS + LS_SHUTDOWN_RETRY_MS + held
  /\ pc = "sleep" =>
       wake <= began + LS_STARTUP_GRACE_MS + LS_SHUTDOWN_RETRY_MS + held
  /\ pc = "reap" => /\ wake <= began + MaxAction + held
                    /\ clock <= began + MaxAction + held

\* The children that nobody waits for any more are left by failing calls.
Left ==
  IF pc = "idle" THEN Cardinality(Unreaped) <= faults
  ELSE Cardinality(Unreaped \ {child_pid}) <= faults

\* When nothing fails and nothing is held up, a child that had not ended at the
\* last waitpid(WNOHANG) of the observation ends at the deadline or later.
EndedLate ==
  faults = 0 /\ held = 0 =>
    /\ pc = "now" /\ children[child_pid].state = "zombie" => ended = clock
    /\ pc \in {"kill", "reap"} =>
         /\ clock >= deadline_ms
         /\ children[child_pid].state = "zombie" => ended >= deadline_ms

Inductive ==
  TypeOK /\ Calling /\ Asked /\ Progress /\ Left /\ EndedLate
    /\ NotOptimistic /\ InTimeIsTriggered

-----------------------------------------------------------------------------
(* The table of children.                                                  *)

\* The table is a function on 1 .. child_pid, whose last entry exists during a
\* call.
LEMMA Table ==
  ASSUME TypeOK
  PROVE  /\ DOMAIN children = 1 .. child_pid
         /\ child_pid \in Nat
         /\ children # <<>> => child_pid \in DOMAIN children
         /\ \A c \in DOMAIN children : children[c] \in Child
BY DEF TypeOK, child_pid

\* Changing one entry of the table (waitpid, kill, or the child itself) leaves
\* the others alone.
LEMMA Updated ==
  ASSUME NEW s \in Seq(Child), NEW c \in DOMAIN s, NEW r \in Child,
         NEW t, t = [s EXCEPT ![c] = r]
  PROVE  /\ t \in Seq(Child)
         /\ Len(t) = Len(s)
         /\ DOMAIN t = DOMAIN s
         /\ t[c] = r
         /\ \A d \in DOMAIN s : d # c => t[d] = s[d]
<1>1. s \in [1 .. Len(s) -> Child] /\ DOMAIN s = 1 .. Len(s) /\ Len(s) \in Nat
  OBVIOUS
<1>2. t \in [1 .. Len(s) -> Child]
  BY <1>1
<1>3. t \in Seq(Child) /\ Len(t) = Len(s)
  BY <1>1, <1>2
<1>. QED  BY <1>1, <1>3

\* Spawning adds an entry (spawn_shutdown_command).
LEMMA Spawned ==
  ASSUME NEW s \in Seq(Child), NEW r \in Child, NEW t, t = Append(s, r)
  PROVE  /\ t \in Seq(Child)
         /\ Len(t) = Len(s) + 1
         /\ DOMAIN s = 1 .. Len(s)
         /\ DOMAIN t = 1 .. Len(s) + 1
         /\ t # <<>>
         /\ t[Len(s) + 1] = r
         /\ \A d \in 1 .. Len(s) : t[d] = s[d]
OBVIOUS

\* What a step may do to the table: nothing, one new entry, or a change of one
\* entry, the last one unless it is the child's own doing.
LEMMA TableStep ==
  ASSUME TypeOK, Calling, [Next]_vars
  PROVE  \/ UNCHANGED children
         \/ \E r \in Child : /\ r.state = "running" /\ r.status = "none"
                             /\ children' = Append(children, r)
         \/ \E c \in DOMAIN children, r \in Child :
              /\ children' = [children EXCEPT ![c] = r]
              /\ r.status = "success" => children[c].status = "success" \/ r.asked
              /\ children[c].asked => r.asked
<1>. USE Table
<1>1. CASE spawn_shutdown_command
  <2>1. [state |-> "running", status |-> "none", asked |-> FALSE] \in Child
    BY DEF Child
  <2>. QED  BY <1>1, <2>1 DEF spawn_shutdown_command
<1>2. CASE waitpid_reaps \/ reap
  <2>. DEFINE r == [children[child_pid] EXCEPT !.state = "gone"]
  <2>1. child_pid \in DOMAIN children
    BY <1>2 DEF waitpid_reaps, reap, Calling
  <2>2. children[child_pid] \in Child
    BY <2>1
  <2>3. r \in Child /\ r.status = children[child_pid].status
                    /\ r.asked = children[child_pid].asked
    BY <2>2 DEF Child
  <2>4. children' = [children EXCEPT ![child_pid] = r]
    BY <1>2 DEF waitpid_reaps, reap, Reap
  <2>. QED  BY <2>1, <2>3, <2>4
<1>3. CASE kill_child
  <2>. DEFINE st == children[child_pid].state
              r == [children[child_pid] EXCEPT !.state =
                      IF st = "running" THEN "killed" ELSE st]
  <2>1. child_pid \in DOMAIN children
    BY <1>3 DEF kill_child, Calling
  <2>2. children[child_pid] \in Child
    BY <2>1
  <2>3. r \in Child /\ r.status = children[child_pid].status
                    /\ r.asked = children[child_pid].asked
    BY <2>2 DEF Child
  <2>4. children' = [children EXCEPT ![child_pid] = r]
    BY <1>3 DEF kill_child
  <2>. QED  BY <2>1, <2>3, <2>4
<1>4. CASE ChildAsks
  <2>1. PICK c \in DOMAIN children :
          children' = [children EXCEPT ![c].asked = TRUE]
    BY <1>4 DEF ChildAsks
  <2>. DEFINE r == [children[c] EXCEPT !.asked = TRUE]
  <2>2. children[c] \in Child
    OBVIOUS
  <2>3. r \in Child /\ r.asked
    BY <2>2 DEF Child
  <2>. QED  BY <2>1, <2>3
<1>5. CASE ChildEnds \/ ChildDies
  <2>1. PICK c \in DOMAIN children, status \in {"success", "error", "signal"} :
          /\ Ends(c, status)
          /\ status = "success" => children[c].asked
    BY <1>5 DEF ChildEnds, ChildDies
  <2>. DEFINE r == [children[c] EXCEPT !.state = "zombie", !.status = status]
  <2>2. children[c] \in Child
    OBVIOUS
  <2>3. r \in Child /\ r.status = status /\ r.asked = children[c].asked
    BY <2>2 DEF Child
  <2>4. children' = [children EXCEPT ![c] = r]
    BY <2>1 DEF Ends
  <2>. QED  BY <2>1, <2>3, <2>4
<1>6. CASE \/ spawn_fails \/ observe_startup \/ waitpid_running
           \/ sleep_retry_window \/ sleep_ends \/ grace_over
           \/ observation_fails \/ Tick \/ Done \/ UNCHANGED vars
  BY <1>6 DEF spawn_fails, observe_startup, waitpid_running, sleep_retry_window,
     sleep_ends, grace_over, observation_fails, Tick, Done, vars
<1>. QED  BY <1>1, <1>2, <1>3, <1>4, <1>5, <1>6 DEF Next, Action, Observe

-----------------------------------------------------------------------------
(* The parts of the invariant.                                             *)

\* A deadline computed from the clock stays in the type, and is at most the
\* grace period away.
LEMMA Deadline ==
  ASSUME TypeOK, NEW d, d = ls_add_sat(clock, LS_STARTUP_GRACE_MS)
  PROVE  d \in Uint64 /\ d <= clock + LS_STARTUP_GRACE_MS
BY ShutdownAssumption, Uint64Assumption DEF TypeOK, ls_add_sat, Uint64

\* The table keeps its type.
LEMMA TableTyped ==
  ASSUME TypeOK, Calling, [Next]_vars
  PROVE  children' \in Seq(Child)
<1>1. CASE UNCHANGED children
  BY <1>1 DEF TypeOK
<1>2. CASE \E r \in Child : children' = Append(children, r)
  BY <1>2, Spawned DEF TypeOK
<1>3. CASE \E c \in DOMAIN children, r \in Child :
             children' = [children EXCEPT ![c] = r]
  BY <1>3, Updated DEF TypeOK
<1>. QED  BY <1>1, <1>2, <1>3, TableStep

\* What the kill does besides changing the table.
LEMMA KillStep ==
  ASSUME kill_child
  PROVE  /\ wake' = clock + KillTime /\ pc' = "reap"
         /\ UNCHANGED <<clock, result, calls, deadline_ms, began, ended, held,
                        faults>>
BY Zenon DEF kill_child

\* Every step keeps the types.
LEMMA TypesKept ==
  ASSUME TypeOK, Calling, [Next]_vars
  PROVE  TypeOK'
<1>. USE ShutdownAssumption, TableTyped DEF TypeOK, Calling
<1>1. CASE spawn_fails
  BY <1>1 DEF spawn_fails, Call, Return, PCs
<1>2. CASE spawn_shutdown_command
  BY <1>2 DEF spawn_shutdown_command, Call, PCs
<1>3. CASE observe_startup
  BY <1>3, Deadline DEF observe_startup, PCs
<1>4. CASE waitpid_reaps
  BY <1>4 DEF waitpid_reaps, Return, consume_child_status, PCs
<1>5. CASE waitpid_running \/ sleep_ends \/ grace_over
  BY <1>5 DEF waitpid_running, sleep_ends, grace_over, PCs
<1>6. CASE sleep_retry_window
  BY <1>6 DEF sleep_retry_window, PCs
<1>7. CASE kill_child
  BY <1>7, KillStep DEF PCs
<1>8. CASE reap
  BY <1>8 DEF reap, Return, PCs
<1>9. CASE observation_fails
  BY <1>9 DEF observation_fails, Return, PCs
<1>10. CASE ChildAsks
  BY <1>10 DEF ChildAsks
<1>11. CASE ChildEnds \/ ChildDies
  BY <1>11 DEF ChildEnds, ChildDies, Ends
<1>12. CASE Tick
  BY <1>12 DEF Tick
<1>13. CASE Done \/ UNCHANGED vars
  BY <1>13 DEF Done, vars
<1>. QED
  BY <1>1, <1>2, <1>3, <1>4, <1>5, <1>6, <1>7, <1>8, <1>9, <1>10, <1>11, <1>12,
     <1>13 DEF Next, Action, Observe

\* The table never gets empty again.
LEMMA TableGrows ==
  ASSUME TypeOK, Calling, [Next]_vars, children # <<>>
  PROVE  children' # <<>>
<1>1. CASE UNCHANGED children
  BY <1>1
<1>2. CASE \E r \in Child : children' = Append(children, r)
  BY <1>2, Spawned DEF TypeOK
<1>3. CASE \E c \in DOMAIN children, r \in Child :
             children' = [children EXCEPT ![c] = r]
  BY <1>3, Updated DEF TypeOK
<1>. QED  BY <1>1, <1>2, <1>3, TableStep

\* Calls are counted, and none follows one that triggered the shutdown.
LEMMA CallingKept ==
  ASSUME TypeOK, Calling, [Next]_vars
  PROVE  Calling'
<1>. USE DEF TypeOK, Calling
<1>1. CASE spawn_fails
  BY <1>1 DEF spawn_fails, Call, Return
<1>2. CASE spawn_shutdown_command
  <2>1. children' # <<>>
    BY <1>2, Spawned DEF spawn_shutdown_command, Child
  <2>. QED  BY <1>2, <2>1 DEF spawn_shutdown_command, Call
<1>3. CASE \/ observe_startup \/ waitpid_running \/ sleep_retry_window
           \/ sleep_ends \/ grace_over \/ kill_child
  <2>1. /\ pc # "idle" /\ pc' # "idle"
        /\ UNCHANGED <<faults, calls, result>>
    BY <1>3 DEF observe_startup, waitpid_running, sleep_retry_window, sleep_ends,
       grace_over, kill_child
  <2>. QED  BY <2>1, TableGrows
<1>4. CASE waitpid_reaps \/ reap \/ observation_fails
  BY <1>4 DEF waitpid_reaps, reap, observation_fails, Return, consume_child_status
<1>5. CASE ChildAsks \/ ChildEnds \/ ChildDies
  <2>1. /\ UNCHANGED <<pc, faults, calls, result>>
        /\ children # <<>>
    BY <1>5 DEF ChildAsks, ChildEnds, ChildDies
  <2>. QED  BY <2>1, TableGrows
<1>6. CASE Tick \/ Done \/ UNCHANGED vars
  BY <1>6 DEF Tick, Done, vars
<1>. QED  BY <1>1, <1>2, <1>3, <1>4, <1>5, <1>6 DEF Next, Action, Observe

\* A command exits with code 0 only after it has asked.
LEMMA AskedKept ==
  ASSUME TypeOK, Calling, Asked, [Next]_vars
  PROVE  Asked'
<1>1. CASE UNCHANGED children
  BY <1>1 DEF Asked
<1>2. CASE \E r \in Child : r.status = "none" /\ children' = Append(children, r)
  <2>1. PICK r \in Child : r.status = "none" /\ children' = Append(children, r)
    BY <1>2
  <2>2. children \in Seq(Child)
    BY DEF TypeOK
  <2>3. /\ DOMAIN children = 1 .. Len(children)
        /\ DOMAIN children' = 1 .. Len(children) + 1
        /\ children'[Len(children) + 1] = r
        /\ \A d \in 1 .. Len(children) : children'[d] = children[d]
    BY <2>1, <2>2, Spawned
  <2>4. \A d \in 1 .. Len(children) + 1 :
          d = Len(children) + 1 \/ d \in 1 .. Len(children)
    BY <2>2
  <2>. QED  BY <2>1, <2>3, <2>4 DEF Asked
<1>3. CASE \E c \in DOMAIN children, r \in Child :
              /\ children' = [children EXCEPT ![c] = r]
              /\ r.status = "success" => children[c].status = "success" \/ r.asked
              /\ children[c].asked => r.asked
  BY <1>3, Updated DEF Asked, TypeOK
<1>. QED  BY <1>1, <1>2, <1>3, TableStep

\* The clock stays within the bounds of its control point.
LEMMA ProgressKept ==
  ASSUME TypeOK, Progress, [Next]_vars
  PROVE  Progress'
<1>. USE ShutdownAssumption DEF TypeOK, Progress, MaxAction
<1>1. CASE spawn_fails
  BY <1>1 DEF spawn_fails, Return
<1>2. CASE spawn_shutdown_command
  BY <1>2 DEF spawn_shutdown_command, Call
<1>3. CASE observe_startup
  BY <1>3, Deadline DEF observe_startup, Uint64
<1>4. CASE waitpid_reaps \/ reap \/ observation_fails
  BY <1>4 DEF waitpid_reaps, reap, observation_fails, Return
<1>5. CASE waitpid_running \/ sleep_ends \/ grace_over
  BY <1>5 DEF waitpid_running, sleep_ends, grace_over
<1>6. CASE sleep_retry_window
  BY <1>6, Uint64Assumption DEF sleep_retry_window, overrun, Uint64
<1>7. CASE kill_child
  <2>1. /\ pc = "kill" /\ pc' = "reap"
        /\ wake' = clock + KillTime
        /\ UNCHANGED <<clock, began, held>>
    BY <1>7 DEF kill_child
  <2>. QED  BY <2>1
<1>8. CASE ChildAsks \/ ChildEnds \/ ChildDies
  BY <1>8 DEF ChildAsks, ChildEnds, ChildDies
<1>9. CASE Tick
  <2>1. /\ clock' = clock + 1
        /\ UNCHANGED <<pc, deadline_ms, wake, began>>
    BY <1>9 DEF Tick
  <2>2. CASE pc = "idle"
    BY <2>1, <2>2
  <2>3. CASE pc \in {"sleep", "reap"} /\ clock < wake /\ UNCHANGED held
    BY <2>1, <2>3
  <2>4. CASE pc # "idle" /\ held' = held + 1
    BY <2>1, <2>4 DEF Uint64
  <2>. QED  BY <1>9, <2>2, <2>3, <2>4 DEF Tick
<1>10. CASE Done \/ UNCHANGED vars
  BY <1>10 DEF Done, vars
<1>. QED
  BY <1>1, <1>2, <1>3, <1>4, <1>5, <1>6, <1>7, <1>8, <1>9, <1>10 DEF Next, Action, Observe

\* The children that are not yet reaped are finitely many.
LEMMA UnreapedFinite ==
  ASSUME TypeOK
  PROVE  IsFiniteSet(Unreaped) /\ Cardinality(Unreaped) \in Nat
<1>1. IsFiniteSet(1 .. child_pid)
  BY Table, FS_Interval
<1>2. Unreaped \subseteq 1 .. child_pid
  BY Table DEF Unreaped
<1>. QED  BY <1>1, <1>2, FS_Subset, FS_CardinalityType

\* Changing an entry keeps the unreaped children, unless the entry is now gone.
LEMMA UnreapedUpdated ==
  ASSUME TypeOK, NEW c \in DOMAIN children, NEW r \in Child,
         children' = [children EXCEPT ![c] = r]
  PROVE  /\ child_pid' = child_pid
         /\ (r.state = "gone" <=> children[c].state = "gone") => Unreaped' = Unreaped
         /\ r.state = "gone" => Unreaped' = Unreaped \ {c}
<1>1. /\ Len(children') = Len(children)
      /\ DOMAIN children' = DOMAIN children
      /\ children'[c] = r
      /\ \A d \in DOMAIN children : d # c => children'[d] = children[d]
  BY Updated DEF TypeOK
<1>. QED  BY <1>1 DEF Unreaped, child_pid

\* The entries that a child or a kill changes.
LEMMA StillUnreaped ==
  ASSUME TypeOK, Calling, kill_child \/ ChildAsks \/ ChildEnds \/ ChildDies
  PROVE  child_pid' = child_pid /\ Unreaped' = Unreaped
<1>. USE Table
<1>1. CASE kill_child
  <2>. DEFINE st == children[child_pid].state
              r == [children[child_pid] EXCEPT !.state =
                      IF st = "running" THEN "killed" ELSE st]
  <2>1. child_pid \in DOMAIN children
    BY <1>1 DEF kill_child, Calling
  <2>2. r \in Child /\ (r.state = "gone" <=> st = "gone")
    BY <2>1 DEF Child
  <2>3. children' = [children EXCEPT ![child_pid] = r]
    BY <1>1 DEF kill_child
  <2>. HIDE DEF r
  <2>. QED  BY <2>1, <2>2, <2>3, UnreapedUpdated
<1>2. CASE ChildAsks
  <2>1. PICK c \in DOMAIN children :
          /\ children[c].state = "running"
          /\ children' = [children EXCEPT ![c].asked = TRUE]
    BY <1>2 DEF ChildAsks
  <2>. DEFINE r == [children[c] EXCEPT !.asked = TRUE]
  <2>2. r \in Child /\ r.state # "gone"
    BY <2>1 DEF Child
  <2>3. children' = [children EXCEPT ![c] = r]
    BY <2>1
  <2>. HIDE DEF r
  <2>. QED  BY <2>1, <2>2, <2>3, UnreapedUpdated
<1>3. CASE ChildEnds \/ ChildDies
  <2>1. PICK c \in DOMAIN children, status \in {"success", "error", "signal"} :
          children[c].state # "gone" /\ Ends(c, status)
    BY <1>3 DEF ChildEnds, ChildDies
  <2>. DEFINE r == [children[c] EXCEPT !.state = "zombie", !.status = status]
  <2>2. r \in Child /\ r.state # "gone"
    BY <2>1 DEF Child
  <2>3. children' = [children EXCEPT ![c] = r]
    BY <2>1 DEF Ends
  <2>. HIDE DEF r
  <2>. QED  BY <2>1, <2>2, <2>3, UnreapedUpdated
<1>. QED  BY <1>1, <1>2, <1>3

\* A reap takes the child out of the unreaped ones.
LEMMA Reaped ==
  ASSUME TypeOK, Calling, pc # "idle", Reap
  PROVE  /\ child_pid \in DOMAIN children
         /\ child_pid' = child_pid
         /\ Unreaped' = Unreaped \ {child_pid}
         /\ children'[child_pid].state = "gone"
         /\ children'[child_pid].status = children[child_pid].status
         /\ children'[child_pid].asked = children[child_pid].asked
<1>. DEFINE r == [children[child_pid] EXCEPT !.state = "gone"]
<1>1. child_pid \in DOMAIN children
  BY Table DEF Calling
<1>2. /\ r \in Child /\ r.state = "gone"
      /\ r.status = children[child_pid].status
      /\ r.asked = children[child_pid].asked
  BY <1>1, Table DEF Child
<1>3. children' = [children EXCEPT ![child_pid] = r]
  BY DEF Reap
<1>. HIDE DEF r
<1>4. child_pid' = child_pid /\ Unreaped' = Unreaped \ {child_pid}
  BY <1>1, <1>2, <1>3, UnreapedUpdated
<1>5. children'[child_pid] = r
  BY <1>1, <1>2, <1>3, Updated DEF TypeOK
<1>. QED  BY <1>1, <1>2, <1>4, <1>5

\* One element more or less.
LEMMA OneLess ==
  ASSUME NEW S, NEW x, IsFiniteSet(S)
  PROVE  /\ Cardinality(S \ {x}) \in Nat
         /\ Cardinality(S) <= Cardinality(S \ {x}) + 1
<1>1. /\ IsFiniteSet(S \ {x})
      /\ Cardinality(S \ {x}) =
           IF x \in S THEN Cardinality(S) - 1 ELSE Cardinality(S)
  BY FS_RemoveElement
<1>2. Cardinality(S) \in Nat /\ Cardinality(S \ {x}) \in Nat
  BY <1>1, FS_CardinalityType
<1>. QED  BY <1>1, <1>2

\* Only a failing system call leaves a child behind.
LEMMA LeftKept ==
  ASSUME TypeOK, Calling, Left, [Next]_vars
  PROVE  Left'
<1>1. CASE spawn_shutdown_command
  <2>. DEFINE r == [state |-> "running", status |-> "none", asked |-> FALSE]
  <2>1. r \in Child
    BY DEF Child
  <2>2. children' = Append(children, r)
    BY <1>1 DEF spawn_shutdown_command
  <2>3. pc = "idle" /\ pc' = "start" /\ UNCHANGED faults
    BY <1>1 DEF spawn_shutdown_command, Call
  <2>. HIDE DEF r
  <2>4. /\ child_pid \in Nat
        /\ child_pid' = child_pid + 1
        /\ DOMAIN children = 1 .. child_pid
        /\ DOMAIN children' = 1 .. child_pid + 1
        /\ \A d \in 1 .. child_pid : children'[d] = children[d]
    BY <2>1, <2>2, Spawned DEF TypeOK, child_pid
  <2>5. Unreaped' \ {child_pid'} = Unreaped
    BY <2>4 DEF Unreaped
  <2>. QED  BY <2>3, <2>5 DEF Left
<1>2. CASE waitpid_reaps \/ reap
  <2>1. pc # "idle" /\ Reap /\ pc' = "idle" /\ UNCHANGED faults
    BY <1>2 DEF waitpid_reaps, reap, Return
  <2>. QED  BY <2>1, Reaped DEF Left
<1>3. CASE kill_child \/ ChildAsks \/ ChildEnds \/ ChildDies
  <2>1. UNCHANGED faults /\ (pc = "idle" <=> pc' = "idle")
    BY <1>3 DEF kill_child, ChildAsks, ChildEnds, ChildDies
  <2>. QED  BY <1>3, <2>1, StillUnreaped DEF Left
<1>4. CASE observation_fails
  <2>1. /\ pc # "idle" /\ pc' = "idle" /\ faults' = faults + 1
        /\ UNCHANGED children
    BY <1>4 DEF observation_fails, Return
  <2>2. Unreaped' = Unreaped
    BY <2>1 DEF Unreaped
  <2>3. Cardinality(Unreaped) <= Cardinality(Unreaped \ {child_pid}) + 1
    BY UnreapedFinite, OneLess
  <2>4. Cardinality(Unreaped \ {child_pid}) \in Nat
    BY UnreapedFinite, OneLess
  <2>5. Cardinality(Unreaped \ {child_pid}) <= faults
    BY <2>1 DEF Left
  <2>6. Cardinality(Unreaped) <= faults'
    BY <2>1, <2>3, <2>4, <2>5, UnreapedFinite DEF TypeOK
  <2>. QED  BY <2>1, <2>2, <2>6 DEF Left
<1>5. CASE \/ spawn_fails \/ observe_startup \/ waitpid_running
           \/ sleep_retry_window \/ sleep_ends \/ grace_over
           \/ Tick \/ Done \/ UNCHANGED vars
  <2>1. UNCHANGED <<children, faults>> /\ (pc = "idle" <=> pc' = "idle")
    BY <1>5 DEF spawn_fails, Call, Return, observe_startup, waitpid_running,
       sleep_retry_window, sleep_ends, grace_over, Tick, Done, vars
  <2>. QED  BY <2>1 DEF Left, Unreaped, child_pid
<1>. QED  BY <1>1, <1>2, <1>3, <1>4, <1>5 DEF Next, Action, Observe

\* With no failing call, no child outlives its call.
LEMMA NoneLeft ==
  ASSUME TypeOK, Left, pc = "idle", faults = 0
  PROVE  Unreaped = {}
BY UnreapedFinite, FS_EmptySet DEF Left

\* An end of the last child is noted, and one that has been reaped is left alone.
LEMMA LastChild ==
  ASSUME TypeOK, Calling, kill_child \/ ChildAsks \/ ChildEnds \/ ChildDies,
         children # <<>>
  PROVE  LET old == children[child_pid]
             new == children'[child_pid']
         IN  /\ old.state = "gone" /\ pc # "kill" => new = old /\ UNCHANGED ended
             /\ new.state = "zombie" =>
                  ended' = clock \/ (old.state = "zombie" /\ UNCHANGED ended)
<1>. USE Table
<1>1. child_pid \in DOMAIN children /\ child_pid' = child_pid
  BY StillUnreaped
<1>2. CASE kill_child
  <2>1. children' = [children EXCEPT ![child_pid] = [children[child_pid] EXCEPT
          !.state = IF children[child_pid].state = "running" THEN "killed"
                    ELSE children[child_pid].state]]
    BY <1>2 DEF kill_child
  <2>2. children'[child_pid].state = "zombie" => children[child_pid].state = "zombie"
    BY <1>1, <2>1 DEF Child
  <2>. QED  BY <1>1, <1>2, <2>2 DEF kill_child
<1>3. CASE ChildAsks
  <2>1. PICK c \in DOMAIN children :
          /\ children[c].state = "running"
          /\ children' = [children EXCEPT ![c] = [children[c] EXCEPT !.asked = TRUE]]
    BY <1>3 DEF ChildAsks
  <2>2. children'[child_pid].state = children[child_pid].state
    BY <1>1, <2>1 DEF Child
  <2>3. c # child_pid => children'[child_pid] = children[child_pid]
    BY <1>1, <2>1
  <2>4. UNCHANGED ended
    BY <1>3 DEF ChildAsks
  <2>. QED  BY <1>1, <2>1, <2>2, <2>3, <2>4
<1>4. CASE ChildEnds \/ ChildDies
  <2>1. PICK c \in DOMAIN children, status \in {"success", "error", "signal"} :
          /\ children[c].state # "gone"
          /\ Ends(c, status)
    BY <1>4 DEF ChildEnds, ChildDies
  <2>2. CASE c = child_pid
    <3>1. ended' = clock
      BY <2>1, <2>2 DEF Ends
    <3>2. children[child_pid].state # "gone"
      BY <2>1, <2>2
    <3>. QED  BY <3>1, <3>2
  <2>3. CASE c # child_pid
    BY <1>1, <2>1, <2>3 DEF Ends
  <2>. QED  BY <2>2, <2>3
<1>. QED  BY <1>2, <1>3, <1>4

\* A late end is an end at the deadline or later.
LEMMA EndedLateKept ==
  ASSUME TypeOK, TypeOK', Calling, EndedLate, [Next]_vars
  PROVE  EndedLate'
<1>. USE DEF EndedLate
<1>1. CASE spawn_fails \/ waitpid_reaps \/ reap \/ observation_fails
  BY <1>1 DEF spawn_fails, waitpid_reaps, reap, observation_fails, Call, Return
<1>2. CASE \/ spawn_shutdown_command \/ observe_startup \/ sleep_retry_window
           \/ sleep_ends
  BY <1>2 DEF spawn_shutdown_command, observe_startup, sleep_retry_window, sleep_ends
<1>3. CASE waitpid_running
  BY <1>3 DEF waitpid_running, child_pid
<1>4. CASE grace_over
  BY <1>4 DEF grace_over, overrun, child_pid
<1>5. CASE kill_child \/ ChildAsks \/ ChildEnds \/ ChildDies
  <2>1. /\ pc' = pc \/ (pc = "kill" /\ pc' = "reap")
        /\ UNCHANGED <<clock, deadline_ms, held, faults>>
    <3>1. CASE kill_child
      BY <3>1 DEF kill_child
    <3>2. CASE ChildAsks \/ ChildEnds \/ ChildDies
      BY <3>2 DEF ChildAsks, ChildEnds, ChildDies
    <3>. QED  BY <1>5, <3>1, <3>2
  <2>2. CASE pc = "idle"
    BY <2>1, <2>2
  <2>3. CASE pc # "idle"
    <3>1. children'[child_pid'].state = "zombie" =>
            \/ ended' = clock
            \/ children[child_pid].state = "zombie" /\ UNCHANGED ended
      BY <1>5, <2>3, LastChild DEF Calling
    <3>. QED  BY <2>1, <3>1
  <2>. QED  BY <2>2, <2>3
<1>6. CASE Tick
  <2>1. /\ clock' = clock + 1
        /\ UNCHANGED <<pc, deadline_ms, children, ended, faults>>
    BY <1>6 DEF Tick
  <2>2. child_pid' = child_pid
    BY <2>1 DEF child_pid
  <2>3. held' # 0 \/ (UNCHANGED held /\ pc \in {"idle", "sleep", "reap"})
    <3>1. held \in Nat
      BY ShutdownAssumption DEF TypeOK
    <3>. QED  BY <1>6, <3>1 DEF Tick
  <2>. QED  BY <2>1, <2>2, <2>3 DEF TypeOK, Uint64
<1>7. CASE Done \/ UNCHANGED vars
  BY <1>7 DEF Done, vars, child_pid
<1>. QED  BY <1>1, <1>2, <1>3, <1>4, <1>5, <1>6, <1>7 DEF Next, Action, Observe

\* TRIGGERED is returned only for a command that asked and has been reaped.
LEMMA NotOptimisticKept ==
  ASSUME TypeOK, Calling, Asked, NotOptimistic, [Next]_vars
  PROVE  NotOptimistic'
<1>. USE DEF NotOptimistic
<1>1. CASE spawn_fails \/ reap \/ observation_fails
  BY <1>1 DEF spawn_fails, reap, observation_fails, Return
<1>2. CASE spawn_shutdown_command
  BY <1>2 DEF spawn_shutdown_command, Call
<1>3. CASE waitpid_reaps
  <2>1. /\ pc # "idle" /\ Reap
        /\ result' = "TRIGGERED" => children[child_pid].status = "success"
    BY <1>3 DEF waitpid_reaps, Return, consume_child_status
  <2>. QED  BY <2>1, Reaped DEF Asked
<1>4. CASE \/ observe_startup \/ waitpid_running \/ sleep_retry_window
           \/ sleep_ends \/ grace_over \/ kill_child
  <2>1. pc # "idle" /\ UNCHANGED result
    BY <1>4 DEF observe_startup, waitpid_running, sleep_retry_window, sleep_ends,
       grace_over, kill_child
  <2>. QED  BY <2>1 DEF Calling
<1>5. CASE ChildAsks \/ ChildEnds \/ ChildDies
  <2>1. UNCHANGED <<pc, result>> /\ children # <<>>
    BY <1>5 DEF ChildAsks, ChildEnds, ChildDies
  <2>2. children[child_pid].state = "gone" /\ pc # "kill" =>
          children'[child_pid'] = children[child_pid]
    BY <1>5, <2>1, LastChild
  <2>. QED  BY <2>1, <2>2 DEF Calling
<1>6. CASE Tick \/ Done \/ UNCHANGED vars
  BY <1>6 DEF Tick, Done, vars, child_pid
<1>. QED  BY <1>1, <1>2, <1>3, <1>4, <1>5, <1>6 DEF Next, Action, Observe

\* FAILED is not returned for a command that succeeded in time.
LEMMA InTimeKept ==
  ASSUME TypeOK, Calling, Left, EndedLate, InTimeIsTriggered, [Next]_vars
  PROVE  InTimeIsTriggered'
<1>. USE DEF InTimeIsTriggered
<1>1. CASE spawn_fails
  BY <1>1 DEF spawn_fails, Call, Return, Calling, child_pid
<1>2. CASE \/ spawn_shutdown_command \/ observe_startup \/ waitpid_running
           \/ sleep_retry_window \/ sleep_ends \/ grace_over \/ kill_child
  BY <1>2 DEF spawn_shutdown_command, observe_startup, waitpid_running,
     sleep_retry_window, sleep_ends, grace_over, kill_child
<1>3. CASE waitpid_reaps
  <2>1. /\ pc # "idle" /\ Reap
        /\ children[child_pid].status = "success" => result' # "FAILED"
    BY <1>3 DEF waitpid_reaps, Return, consume_child_status
  <2>. QED  BY <2>1, Reaped
<1>4. CASE reap
  <2>1. /\ pc = "reap" /\ children[child_pid].state = "zombie"
        /\ UNCHANGED <<ended, deadline_ms, faults, held>>
    BY <1>4 DEF reap
  <2>. QED  BY <2>1 DEF EndedLate
<1>5. CASE observation_fails
  BY <1>5 DEF observation_fails, TypeOK
<1>6. CASE ChildAsks \/ ChildEnds \/ ChildDies
  <2>1. UNCHANGED <<pc, result, deadline_ms, held, faults>> /\ children # <<>>
    BY <1>6 DEF ChildAsks, ChildEnds, ChildDies
  <2>2. CASE pc = "idle" /\ faults = 0
    <3>1. children[child_pid].state = "gone"
      BY <2>1, <2>2, NoneLeft, Table DEF Unreaped
    <3>2. children'[child_pid'] = children[child_pid] /\ UNCHANGED ended
      BY <1>6, <2>1, <2>2, <3>1, LastChild
    <3>. QED  BY <2>1, <3>2
  <2>. QED  BY <2>1, <2>2
<1>7. CASE Tick
  BY <1>7 DEF Tick, child_pid
<1>8. CASE Done \/ UNCHANGED vars
  BY <1>8 DEF Done, vars, child_pid
<1>. QED  BY <1>1, <1>2, <1>3, <1>4, <1>5, <1>6, <1>7, <1>8 DEF Next, Action, Observe

-----------------------------------------------------------------------------
(* The theorems.                                                           *)

\* Every reachable state of the threshold action satisfies the invariant.
THEOREM ShutdownInvariance == Spec => []Inductive
<1>1. Init => Inductive
  <2>. SUFFICES ASSUME Init PROVE Inductive
    OBVIOUS
  <2>1. TypeOK
    BY ShutdownAssumption, Uint64Assumption DEF Init, TypeOK, PCs, Uint64
  <2>2. Calling /\ Asked /\ Progress /\ EndedLate /\ NotOptimistic
    BY DEF Init, Calling, Asked, Progress, EndedLate, NotOptimistic
  <2>3. InTimeIsTriggered
    BY DEF Init, InTimeIsTriggered
  <2>4. Unreaped = {}
    BY DEF Init, Unreaped
  <2>5. Left
    BY <2>4, FS_EmptySet DEF Init, Left
  <2>. QED  BY <2>1, <2>2, <2>3, <2>5 DEF Inductive
<1>2. Inductive /\ [Next]_vars => Inductive'
  <2>. SUFFICES ASSUME Inductive, [Next]_vars PROVE Inductive'
    OBVIOUS
  <2>. USE DEF Inductive
  <2>1. TypeOK' /\ Calling' /\ Asked'
    BY TypesKept, CallingKept, AskedKept
  <2>2. Progress' /\ Left'
    BY ProgressKept, LeftKept
  <2>3. EndedLate' /\ NotOptimistic' /\ InTimeIsTriggered'
    BY <2>1, EndedLateKept, NotOptimisticKept, InTimeKept
  <2>. QED  BY <2>1, <2>2, <2>3
<1>. QED  BY <1>1, <1>2, PTL DEF Spec

\* Type correctness of the threshold action.
THEOREM ShutdownTypes == Spec => []TypeOK
<1>1. Inductive => TypeOK
  BY DEF Inductive
<1>. QED  BY <1>1, ShutdownInvariance, PTL

\* observe_startup reports a hand-off only if there was one.
THEOREM NeverOptimistic == Spec => []NotOptimistic
<1>1. Inductive => NotOptimistic
  BY DEF Inductive
<1>. QED  BY <1>1, ShutdownInvariance, PTL

\* However often the action is retried, it leaves no more children behind than
\* system calls have failed.
THEOREM NoChildIsLeft == Spec => []NothingLeftBehind
<1>1. Inductive => NothingLeftBehind
  BY DEF Inductive, Left, NothingLeftBehind
<1>. QED  BY <1>1, ShutdownInvariance, PTL

\* A command that succeeds within the grace period is reported as a success.
THEOREM SuccessIsSeen == Spec => []InTimeIsTriggered
<1>1. Inductive => InTimeIsTriggered
  BY DEF Inductive
<1>. QED  BY <1>1, ShutdownInvariance, PTL

\* A call blocks the event loop for a bounded time.
THEOREM ActionIsBounded == Spec => []WithinMaxAction
<1>1. Inductive => WithinMaxAction
  BY ShutdownAssumption DEF Inductive, Progress, WithinMaxAction, TypeOK, PCs,
     MaxAction
<1>. QED  BY <1>1, ShutdownInvariance, PTL
=============================================================================
