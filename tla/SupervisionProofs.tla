------------------------- MODULE SupervisionProofs -------------------------
(***************************************************************************)
(* Proofs about the life of the process, for every set of signals sent and *)
(* of calls that fail, and about the process under systemd, for every      *)
(* threshold, start limit and number of failures.  Inductive says what     *)
(* holds at each control point of the process.                             *)
(***************************************************************************)
EXTENDS Supervision, SequenceTheorems, TLAPS

-----------------------------------------------------------------------------
(* The process.                                                            *)

\* While the loop is wired no watched signal can be delivered: signals are
\* blocked before the signalfd is opened and until it is closed.
LEMMA WiredIsSafe ==
  ASSUME TypeOK, Mask,
         pc \in {"signalfd", "clock", "ready", "loop", "log_shutdown", "close",
                 "restore"}
  PROVE  Deliverable = {}
BY ServiceAssumption DEF TypeOK, Mask, Deliverable

\* The two messages in the order in which they are sent.
LEMMA Messages ==
  /\ Append(<<>>, "READY") = <<"READY">>
  /\ Append(<<"READY">>, "STOPPING") = <<"READY", "STOPPING">>
<1>1. Append(<<>>, "READY") = <<"READY">>
  OBVIOUS
<1>2. Append(<<"READY">>, "STOPPING") = <<"READY", "STOPPING">>
  <2> DEFINE M == {"READY", "STOPPING"}
             s == Append(<<"READY">>, "STOPPING")
             t == <<"READY", "STOPPING">>
  <2>1. s \in Seq(M) /\ t \in Seq(M) /\ Len(s) = 2 /\ Len(t) = 2
    OBVIOUS
  <2>2. s[1] = t[1] /\ s[2] = t[2]
    OBVIOUS
  <2>3. \A i \in 1 .. 2 : s[i] = t[i]
    BY <2>2
  <2>. QED
    BY <2>1, <2>3, SeqEqual
<1>. QED
  BY <1>1, <1>2

\* The process starts with nothing open, nothing told and its inherited mask.
LEMMA InitInductive == Init => Inductive
BY ServiceAssumption
   DEF Init, Inductive, TypeOK, Descriptors, Mask, Verdict, Over, Dead, Watched

\* Every step of the startup, failing or not, preserves the invariant.
LEMMA StartupInductive == Inductive /\ Startup => Inductive'
<1> SUFFICES ASSUME Inductive, Startup PROVE Inductive'
  OBVIOUS
<1> USE DEF Inductive, TypeOK, Descriptors, Mask, Verdict, Over, Dead, Watched, Step,
            Fails, LS_EXIT_SUCCESS, LS_EXIT_FAILURE
<1>1. CASE ls_config_resolve
  BY <1>1 DEF ls_config_resolve
<1>2. CASE ls_notify_init
  <2>1. TypeOK'
    BY <1>2, ServiceAssumption DEF ls_notify_init
  <2>2. Descriptors'
    BY <1>2 DEF ls_notify_init
  <2>3. Mask'
    BY <1>2, ServiceAssumption DEF ls_notify_init
  <2>4. Verdict'
    BY <1>2 DEF ls_notify_init
  <2>. QED
    BY <2>1, <2>2, <2>3, <2>4
<1>3. CASE ls_icmp_open
  BY <1>3 DEF ls_icmp_open
<1>4. CASE block_signals
  <2>1. TypeOK'
    BY <1>4, ServiceAssumption DEF block_signals
  <2>2. Descriptors'
    BY <1>4 DEF block_signals
  <2>3. Mask'
    BY <1>4, ServiceAssumption DEF block_signals
  <2>4. Verdict'
    BY <1>4 DEF block_signals
  <2>. QED
    BY <2>1, <2>2, <2>3, <2>4
<1>5. CASE open_signalfd
  <2>1. TypeOK'
    BY <1>5, ServiceAssumption DEF open_signalfd
  <2>2. Descriptors'
    BY <1>5 DEF open_signalfd
  <2>3. Mask'
    BY <1>5, ServiceAssumption DEF open_signalfd
  <2>4. Verdict'
    BY <1>5 DEF open_signalfd
  <2>. QED
    BY <2>1, <2>2, <2>3, <2>4
<1>6. CASE arm_timers
  BY <1>6 DEF arm_timers
<1>7. CASE log_startup
  <2>0. told' \in {<<>>, <<"READY">>}
    BY <1>7, Messages, Zenon DEF log_startup
  <2>1. TypeOK'
    BY <1>7, <2>0, ServiceAssumption DEF log_startup
  <2>2. Descriptors'
    BY <1>7 DEF log_startup
  <2>3. Mask'
    BY <1>7, ServiceAssumption DEF log_startup
  <2>4. Verdict'
    BY <1>7, <2>0 DEF log_startup
  <2>. QED
    BY <2>1, <2>2, <2>3, <2>4
<1>. QED
  BY <1>1, <1>2, <1>3, <1>4, <1>5, <1>6, <1>7 DEF Startup

\* Every way in which the loop goes on or ends preserves the invariant.
LEMMA RunInductive == Inductive /\ Run => Inductive'
<1> SUFFICES ASSUME Inductive, Run PROVE Inductive'
  OBVIOUS
<1> USE DEF Inductive, TypeOK, Descriptors, Mask, Verdict, Over, Dead, Watched, Step,
            LoopEnds, LS_EXIT_SUCCESS, LS_EXIT_FAILURE
<1>1. CASE on_signal
  <2>1. pending' \subseteq pending
    BY <1>1 DEF on_signal
  <2>2. CASE LoopEnds("signal", LS_EXIT_SUCCESS)
    BY <1>1, <2>1, <2>2 DEF on_signal
  <2>3. CASE Step("loop", "loop") /\ UNCHANGED <<rc, cause>>
    BY <1>1, <2>1, <2>3 DEF on_signal
  <2>. QED
    BY <1>1, <2>2, <2>3 DEF on_signal
<1>2. CASE threshold
  BY <1>2 DEF threshold
<1>3. CASE loop_fails
  BY <1>3 DEF loop_fails
<1>. QED
  BY <1>1, <1>2, <1>3 DEF Run

\* Every step of the unwinding preserves the invariant.
LEMMA UnwindInductive == Inductive /\ Unwind => Inductive'
<1> SUFFICES ASSUME Inductive, Unwind PROVE Inductive'
  OBVIOUS
<1> USE DEF Inductive, TypeOK, Descriptors, Mask, Verdict, Over, Dead, Watched, Step,
            LS_EXIT_SUCCESS, LS_EXIT_FAILURE
<1>1. CASE log_shutdown
  <2>0. told' = <<"READY", "STOPPING">>
    BY <1>1, Messages, Zenon DEF log_shutdown
  <2>1. TypeOK'
    BY <1>1, <2>0, ServiceAssumption DEF log_shutdown
  <2>2. Descriptors'
    BY <1>1 DEF log_shutdown
  <2>3. Mask'
    BY <1>1, ServiceAssumption DEF log_shutdown
  <2>4. Verdict'
    BY <1>1, <2>0 DEF log_shutdown
  <2>. QED
    BY <2>1, <2>2, <2>3, <2>4
<1>2. CASE close_signalfd
  <2>1. TypeOK'
    BY <1>2, ServiceAssumption DEF close_signalfd
  <2>2. Descriptors'
    BY <1>2 DEF close_signalfd
  <2>3. Mask'
    BY <1>2, ServiceAssumption DEF close_signalfd
  <2>4. Verdict'
    BY <1>2 DEF close_signalfd
  <2>. QED
    BY <2>1, <2>2, <2>3, <2>4
<1>3. CASE restore_mask
  BY <1>3, ServiceAssumption DEF restore_mask
<1>4. CASE app_destroy
  BY <1>4 DEF app_destroy
<1>. QED
  BY <1>1, <1>2, <1>3, <1>4 DEF Unwind

\* A crash preserves the invariant, and so does a signal, whether it stays
\* pending or kills: it can kill only where WiredIsSafe does not apply.
LEMMA SignalInductive ==
  ASSUME Inductive, SignalKills \/ Crash \/ \E s \in Signals : SignalArrives(s)
  PROVE  Inductive'
<1>1. CASE SignalKills
  <2>1. pc \notin {"signalfd", "clock", "ready", "loop", "log_shutdown",
                   "close", "restore"}
    BY <1>1, WiredIsSafe DEF SignalKills, Inductive
  <2>2. pc' = "killed" /\ open' = {} /\ told' \in {<<>>, <<"READY", "STOPPING">>}
    BY <1>1, <2>1 DEF SignalKills, Inductive, Verdict, TypeOK, Over, Dead
  <2>. QED
    BY <1>1, <2>1, <2>2 DEF SignalKills, Inductive, TypeOK, Descriptors, Mask,
                            Verdict, Over, Dead
<1>2. ASSUME NEW s \in Signals, SignalArrives(s) PROVE Inductive'
  BY <1>2 DEF SignalArrives, Inductive, TypeOK, Descriptors, Mask, Verdict, Over, Dead
<1>3. CASE Crash
  BY <1>3 DEF Crash, Inductive, TypeOK, Descriptors, Mask, Verdict, Over, Dead
<1>. QED
  BY <1>1, <1>2, <1>3

\* Every step preserves the invariant.
LEMMA StepInductive ==
  ASSUME Inductive, [Next]_vars
  PROVE  Inductive'
<1>1. CASE UNCHANGED vars
  BY <1>1 DEF vars, Inductive, TypeOK, Descriptors, Mask, Verdict, Over, Dead
<1>2. CASE Terminated
  BY <1>1, <1>2 DEF Terminated
<1>. QED
  BY <1>1, <1>2, StartupInductive, RunInductive, UnwindInductive,
     SignalInductive DEF Next

\* The invariant holds throughout the life of the process.
THEOREM ServiceInvariance == Spec => []Inductive
<1>1. Inductive /\ [Next]_vars => Inductive'
  BY StepInductive
<1>. QED
  BY InitInductive, <1>1, PTL DEF Spec

\* Every variable of the process keeps its type.
THEOREM ServiceTypes == Spec => []TypeOK
<1>1. Inductive => TypeOK
  BY DEF Inductive
<1>. QED
  BY <1>1, ServiceInvariance, PTL

\* Whichever call fails, main returns with nothing left open and with the mask
\* the process was started with.
THEOREM AllIsReleased == Spec => []ResourcesReleased
<1>1. Inductive => ResourcesReleased
  BY DEF Inductive, Descriptors, Mask, ResourcesReleased, Over, Dead
<1>. QED
  BY <1>1, ServiceInvariance, PTL

\* READY=1 and STOPPING=1 are sent as a pair or not at all, however the process
\* ends.
THEOREM StopsAreAnnounced == Spec => []EveryStopAnnounced
<1>1. Inductive => EveryStopAnnounced
  BY DEF Inductive, Verdict, EveryStopAnnounced, Over
<1>. QED
  BY <1>1, ServiceInvariance, PTL

\* main returns 0 exactly after a stop signal or the threshold action.
THEOREM ExitCodesAreRight == Spec => []ExitCodes
<1>1. Inductive => ExitCodes
  BY DEF Inductive, Verdict, ExitCodes
<1>. QED
  BY <1>1, ServiceInvariance, PTL

-----------------------------------------------------------------------------
(* The process under systemd.                                              *)

\* A process whose loop has ended has told systemd of its start, a killed one
\* died of a signal that was pending, and systemd restarts only failures.
Ending ==
  /\ cause # "none" => told # <<>>
  /\ pc = "killed" => Deliverable # {}
  /\ unit # "active" => pc \in Dead
  /\ unit = "auto-restart" => Failure

UnitInductive == Inductive /\ Ending

-----------------------------------------------------------------------------
\* What a step of the unit is to the process: one of its own, none, or the
\* start of another process.
LEMMA UnitStep ==
  ASSUME UnitNext
  PROVE  [Next]_vars \/ Restart
<1>1. CASE ProcessStep
  BY <1>1 DEF ProcessStep, Next, Run
<1>2. CASE ReplyArrives
  BY <1>2 DEF ReplyArrives, Step, vars
<1>3. CASE ProbeFails
  BY <1>3 DEF ProbeFails, Step, vars, Next, Run
<1>4. CASE ProcessFails
  BY <1>4 DEF ProcessFails, Next, Run
<1>5. CASE Manager
  BY <1>5 DEF Manager, ProcessEnds, StartLimitHit
<1>6. CASE WindowExpires \/ OutageBegins
  BY <1>6 DEF WindowExpires, OutageBegins
<1>7. CASE StopRequested
  BY <1>7, SupervisionAssumption DEF StopRequested, Next
<1>8. CASE \E s \in Signals : RequestArrives(s)
  BY <1>8 DEF RequestArrives, Next
<1>. QED
  BY <1>1, <1>2, <1>3, <1>4, <1>5, <1>6, <1>7, <1>8 DEF UnitNext

\* A restarted process satisfies the invariant of a new one.
LEMMA RestartInductive ==
  ASSUME Inductive, Restart
  PROVE  Inductive'
BY ServiceAssumption
   DEF Restart, Started, Inductive, TypeOK, Descriptors, Mask, Verdict, Over, Dead,
       Watched

\* A dead process does nothing.
LEMMA DeadIsDead ==
  ASSUME pc \in Dead, [Next]_vars
  PROVE  UNCHANGED vars
BY DEF Dead, Over, Next, Startup, ls_config_resolve, ls_notify_init, ls_icmp_open,
   block_signals, open_signalfd, arm_timers, log_startup, Run, on_signal, threshold,
   loop_fails, LoopEnds, Unwind, log_shutdown, close_signalfd, restore_mask,
   app_destroy, Step, Fails, SignalArrives, SignalKills, Crash, Terminated

\* A step of the process that is not its death does not make it dead or killed,
\* and what it has told stays told.
LEMMA ProcessEnding ==
  ASSUME Inductive, cause # "none" => told # <<>>, pc \notin Dead, [Next]_vars
  PROVE  /\ cause' # "none" => told' # <<>>
         /\ pc' = "killed" => Deliverable' # {}
<1>1. CASE Startup
  <2>1. UNCHANGED cause /\ cause = "none"
    BY <1>1 DEF Startup, ls_config_resolve, ls_notify_init, ls_icmp_open,
       block_signals, open_signalfd, arm_timers, log_startup, Step, Fails,
       Inductive, Verdict
  <2>2. pc' # "killed"
    BY <1>1 DEF Startup, ls_config_resolve, ls_notify_init, ls_icmp_open,
       block_signals, open_signalfd, arm_timers, log_startup, Step, Fails
  <2>. QED  BY <2>1, <2>2
<1>2. CASE Run
  <2>1. pc = "loop" /\ UNCHANGED told /\ pc' # "killed"
    BY <1>2 DEF Run, on_signal, threshold, loop_fails, LoopEnds, Step
  <2>2. told = <<"READY">>
    BY <2>1 DEF Inductive, Verdict
  <2>3. <<"READY">> # <<>>
    OBVIOUS
  <2>. QED  BY <2>1, <2>2, <2>3
<1>3. CASE log_shutdown
  <2>1. told' = <<"READY", "STOPPING">> /\ pc' # "killed"
    BY <1>3, Messages, Zenon DEF log_shutdown, Step, Inductive, Verdict
  <2>2. <<"READY", "STOPPING">> # <<>>
    OBVIOUS
  <2>. QED  BY <2>1, <2>2
<1>4. CASE close_signalfd \/ restore_mask \/ app_destroy
  BY <1>4 DEF close_signalfd, restore_mask, app_destroy, Step
<1>5. CASE \E s \in Signals : SignalArrives(s)
  BY <1>5 DEF SignalArrives, Dead, Over
<1>6. CASE SignalKills
  BY <1>6 DEF SignalKills, Deliverable
<1>7. CASE Crash
  BY <1>7 DEF Crash
<1>8. CASE Terminated \/ UNCHANGED vars
  BY <1>8 DEF Terminated, vars, Dead, Over
<1>. QED
  BY <1>1, <1>2, <1>3, <1>4, <1>5, <1>6, <1>7, <1>8 DEF Next, Unwind

\* Only the manager changes the state of the unit.
LEMMA UnitKept ==
  ASSUME [UnitNext]_allVars
  PROVE  \/ UNCHANGED unit
         \/ ProcessEnds
         \/ Restart
         \/ unit = "auto-restart" /\ UNCHANGED vars /\ unit' \in {"failed", "inactive"}
BY DEF UnitNext, ProcessStep, ReplyArrives, ProbeFails, ProcessFails, Manager,
   StartLimitHit, WindowExpires, StopRequested, RequestArrives, OutageBegins, allVars,
   manager

\* Ends are reported and reasons for restarts stay.
LEMMA EndingKept ==
  ASSUME Inductive, Ending, [UnitNext]_allVars
  PROVE  Ending'
<1>1. CASE Restart
  BY <1>1 DEF Ending, Restart, Started, Dead, Over
<1>2. CASE [Next]_vars /\ ~Restart
  <2>1. CASE pc \in Dead
    <3>1. UNCHANGED <<pc, rc, blocked, pending, told, cause>>
      BY <1>2, <2>1, DeadIsDead DEF vars
    <3>2. Deliverable' = Deliverable /\ Killer' = Killer /\ Failure' = Failure
      BY <3>1 DEF Deliverable, Killer, Failure
    <3>3. unit' = "auto-restart" => unit = "auto-restart" \/ Failure
      BY <1>2, UnitKept DEF ProcessEnds
    <3>. QED  BY <2>1, <3>1, <3>2, <3>3 DEF Ending
  <2>2. CASE pc \notin Dead
    <3>1. unit = "active"
      BY <2>2 DEF Ending
    <3>2. unit' = "active"
      BY <1>2, <2>2, <3>1, UnitKept DEF ProcessEnds
    <3>3. /\ cause' # "none" => told' # <<>>
          /\ pc' = "killed" => Deliverable' # {}
      BY <1>2, <2>2, ProcessEnding DEF Ending
    <3>. QED  BY <3>2, <3>3 DEF Ending
  <2>. QED  BY <2>1, <2>2
<1>. QED  BY <1>1, <1>2, UnitStep DEF allVars

-----------------------------------------------------------------------------
(* The theorems.                                                           *)

\* Every reachable state of the unit satisfies the invariant.
THEOREM UnitInvariance == UnitSpec => []UnitInductive
<1>1. UnitInit => UnitInductive
  BY InitInductive, ServiceAssumption
     DEF UnitInit, Init, UnitInductive, Ending
<1>2. UnitInductive /\ [UnitNext]_allVars => UnitInductive'
  <2>. SUFFICES ASSUME UnitInductive, [UnitNext]_allVars PROVE UnitInductive'
    OBVIOUS
  <2>1. [Next]_vars \/ Restart
    BY UnitStep DEF allVars
  <2>2. Inductive'
    BY <2>1, StepInductive, RestartInductive DEF UnitInductive
  <2>. QED  BY <2>2, EndingKept DEF UnitInductive
<1>. QED  BY <1>1, <1>2, PTL DEF UnitSpec

\* A process that systemd restarts after the threshold action was killed by a
\* statistics request or crashed.
LEMMA RestartedAfterAction ==
  ASSUME UnitInductive, cause = "threshold", Failure, pc \in Dead
  PROVE  pc = "crashed" \/ (pc = "killed" /\ "SIGUSR1" \in pending)
<1>1. CASE pc = "exited"
  BY <1>1 DEF UnitInductive, Ending, Inductive, Verdict, Failure
<1>2. CASE pc = "killed"
  <2>1. Deliverable # {} /\ Deliverable \subseteq Watched
    BY <1>2, ServiceAssumption DEF UnitInductive, Ending, Inductive, TypeOK, Deliverable
  <2>2. \E s \in Deliverable : \A t \in Deliverable : Signo[s] <= Signo[t]
    <3>1. /\ Signo["SIGINT"] = 2 /\ Signo["SIGUSR1"] = 10
          /\ Signo["SIGTERM"] = 15
      BY DEF Signo
    <3>2. \A t \in Deliverable : t \in {"SIGINT", "SIGUSR1", "SIGTERM"}
      BY <2>1 DEF Watched
    <3>3. CASE "SIGINT" \in Deliverable
      BY <3>1, <3>2, <3>3
    <3>4. CASE "SIGINT" \notin Deliverable /\ "SIGUSR1" \in Deliverable
      BY <3>1, <3>2, <3>4
    <3>5. CASE "SIGINT" \notin Deliverable /\ "SIGUSR1" \notin Deliverable
      BY <2>1, <3>1, <3>2, <3>5
    <3>. QED  BY <3>3, <3>4, <3>5
  <2>3. Killer \in Deliverable
    BY <2>2 DEF Killer
  <2>4. Killer = "SIGUSR1"
    BY <1>2 DEF UnitInductive, Ending, Failure
  <2>. QED  BY <1>2, <2>3, <2>4 DEF Deliverable
<1>. QED  BY <1>1, <1>2 DEF Dead, Over

\* After the threshold action systemd does not start the process again, unless
\* it crashes or an unread SIGUSR1 kills it on its way out.
THEOREM ActionsAreFinal == UnitSpec => ActionIsFinal
<1>1. UnitInductive /\ [UnitNext]_allVars =>
        (cause = "threshold" /\ cause' = "none" =>
           pc = "crashed" \/ (pc = "killed" /\ "SIGUSR1" \in pending))
  <2>. SUFFICES ASSUME UnitInductive, [UnitNext]_allVars, cause = "threshold",
                       cause' = "none"
                PROVE  pc = "crashed" \/ (pc = "killed" /\ "SIGUSR1" \in pending)
    OBVIOUS
  <2>1. CASE Restart
    BY <2>1, RestartedAfterAction DEF Restart, UnitInductive, Ending
  <2>2. CASE [Next]_vars
    <3>1. pc \notin {"config", "notify", "icmp", "mask", "signalfd", "clock",
                     "ready", "loop"}
      BY DEF UnitInductive, Inductive, Verdict
    <3>2. UNCHANGED cause
      BY <2>2, <3>1 DEF Next, Startup, ls_config_resolve, ls_notify_init,
         ls_icmp_open, block_signals, open_signalfd, arm_timers, log_startup, Run,
         on_signal, threshold, loop_fails, LoopEnds, Unwind, log_shutdown,
         close_signalfd, restore_mask, app_destroy, Step, Fails, SignalArrives,
         SignalKills, Crash, Terminated, vars
    <3>. QED  BY <3>2
  <2>. QED  BY <2>1, <2>2, UnitStep DEF allVars
<1>. QED  BY <1>1, UnitInvariance, PTL DEF UnitSpec, ActionIsFinal
=============================================================================
