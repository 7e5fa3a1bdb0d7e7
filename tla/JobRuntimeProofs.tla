-------------------------- MODULE JobRuntimeProofs --------------------------
(***************************************************************************)
(* JobRuntime for any jobs, replicas and bounds, then the output log its   *)
(* jobs write to and its pollers read, JobOutputStore; at the end the      *)
(* sandbox of an embedded daemon, for any files, contents and modes.       *)
(*                                                                         *)
(* ReportsAgree and FinishedTold are not inductive: they say nothing of an *)
(* activity between its transition and its push.  RuntimeInv adds that     *)
(* such an activity's verdict is the row's status, that a device report    *)
(* being processed can no longer change, and that a terminal row without   *)
(* its finished event still has an activity that will push it.             *)
(***************************************************************************)
EXTENDS JobRuntime, JobOutputStore, Sandbox, TLAPS

Late == {"record", "push"}
Reporting == {"begin", "check", "transition", "record", "push"}

(* The verdict of an activity past its transition is the row's status.     *)
Decided ==
    \A j \in Jobs, a \in Acts :
        act[j][a] \in Late => StatusOf(Cause(j, a)) = status[j]

(* A frame being processed to the end of its job carries a report.         *)
Reported ==
    \A j \in Jobs, a \in Acts :
        a[1] = "frame" /\ act[j][a] \in Reporting => dev[j] \in AllReports

(* A terminal row has its exit fields and event, or they are on their way. *)
OnTheWay(j) ==
    \/ result[j] # "none" /\ pushed[j] # {}
    \/ \E a \in Acts : act[j][a] = "record"
    \/ result[j] # "none" /\ \E a \in Acts : act[j][a] = "push"

Told == \A j \in Jobs : faults = 0 /\ status[j] \in Terminal => OnTheWay(j)

RuntimeInv == TypeOK /\ ReportsAgree /\ Decided /\ Reported /\ Told

(* What a step that neither decides, records nor pushes leaves alone:      *)
(* terminal rows, reports, exit fields and events ...                      *)
RowsQuiet ==
    /\ \A j \in Jobs : status[j] \in Terminal => status'[j] = status[j]
    /\ \A j \in Jobs : status'[j] \in Terminal => status[j] \in Terminal
    /\ \A j \in Jobs : dev[j] \in AllReports => dev'[j] = dev[j]
    /\ result' = result
    /\ pushed' = pushed
    /\ faults' = faults

(* ... and activities past their transition; a frame starts to finish a    *)
(* job only with a report.                                                 *)
ActsQuiet ==
    /\ \A j \in Jobs, a \in Acts : act[j][a] \in Late => act'[j][a] = act[j][a]
    /\ \A j \in Jobs, a \in Acts : act'[j][a] \in Late => act[j][a] \in Late
    /\ \A j \in Jobs, a \in Acts :
          a[1] = "frame" /\ act'[j][a] \in Reporting
             => act[j][a] \in Reporting \/ dev'[j] \in AllReports

Quiet == RowsQuiet /\ ActsQuiet

(* Every cause asks for a terminal status.                                 *)
LEMMA StatusOfTerminal == \A c : StatusOf(c) \in Terminal
BY Zenon DEF StatusOf, Terminal

(* A cause is one of Causes once a frame carries a report.                 *)
LEMMA CauseTyped ==
    ASSUME TypeOK, NEW j \in Jobs, NEW a \in Acts,
           a[1] = "frame" => dev[j] \in AllReports
    PROVE  Cause(j, a) \in Causes
BY Zenon DEF TypeOK, Cause, Causes, Acts, Kinds, AllReports

(* The cause of an activity does not change while reports do not.          *)
LEMMA CauseStable ==
    ASSUME TypeOK, NEW j \in Jobs, NEW a \in Acts,
           a[1] = "frame" => dev[j] \in AllReports,
           dev[j] \in AllReports => dev'[j] = dev[j]
    PROVE  Cause(j, a)' = Cause(j, a)
<1>1. CASE a[1] = "frame"
  BY <1>1, Zenon DEF Cause
<1>2. CASE a[1] # "frame"
  <2>1. a[1] \in Kinds
    BY Zenon DEF Acts
  <2> QED BY <1>2, <2>1, Zenon DEF Cause, Kinds
<1> QED BY <1>1, <1>2, Zenon

(* A quiet step keeps the invariant.                                       *)
LEMMA QuietStep == RuntimeInv /\ TypeOK' /\ Quiet => RuntimeInv'
<1> SUFFICES ASSUME RuntimeInv, TypeOK', Quiet
             PROVE  RuntimeInv'
  BY Zenon
<1>1. ReportsAgree'
  BY StatusOfTerminal, Zenon DEF RuntimeInv, ReportsAgree, Quiet, RowsQuiet
<1>2. Decided'
  <2> SUFFICES ASSUME NEW j \in Jobs, NEW a \in Acts, act'[j][a] \in Late
               PROVE  StatusOf(Cause(j, a)') = status'[j]
    BY Zenon DEF Decided
  <2>1. act[j][a] \in Late
    BY Zenon DEF Quiet, ActsQuiet
  <2>2. StatusOf(Cause(j, a)) = status[j] /\ status'[j] = status[j]
    BY <2>1, StatusOfTerminal DEF RuntimeInv, Decided, Quiet, RowsQuiet
  <2>3. a[1] = "frame" => dev[j] \in AllReports
    BY <2>1, Zenon DEF RuntimeInv, Reported, Late, Reporting
  <2>4. Cause(j, a)' = Cause(j, a)
    BY <2>3, CauseStable, Zenon DEF RuntimeInv, Quiet, RowsQuiet
  <2> QED BY <2>2, <2>4, Zenon
<1>3. Reported'
  BY Zenon DEF RuntimeInv, Reported, Quiet, RowsQuiet, ActsQuiet
<1>4. Told'
  <2> SUFFICES ASSUME NEW j \in Jobs, faults' = 0, status'[j] \in Terminal
               PROVE  OnTheWay(j)'
    BY Zenon DEF Told
  <2>1. OnTheWay(j)
    BY Zenon DEF RuntimeInv, Told, Quiet, RowsQuiet
  <2> QED BY <2>1 DEF OnTheWay, Quiet, RowsQuiet, ActsQuiet, Late
<1> QED BY <1>1, <1>2, <1>3, <1>4, Zenon DEF RuntimeInv

----------------------------------------------------------------------------
(* Two maps of activities differ in no activity past its transition and in *)
(* no frame.                                                               *)
Spares(f, g) ==
    /\ g \in [Acts -> Points]
    /\ \A a \in Acts : f[a] \in Late \/ g[a] \in Late \/ a[1] = "frame" => g[a] = f[a]

(* Clearing a task spares activities past their transition and frames.     *)
LEMMA ClearSpares ==
    ASSUME NEW f \in [Acts -> Points], NEW r \in Replicas
    PROVE  /\ Spares(f, ClearTimeout(f, r))
           /\ Spares(f, ClearDisconnect(f, r))
           /\ Spares(f, ClearTasks(f, r))
<1> DEFINE g == ClearTimeout(f, r)
<1>1. Spares(f, g)
  BY DEF Spares, ClearTimeout, Acts, Points, Late, Kinds
<1>2. ASSUME NEW h \in [Acts -> Points]
      PROVE  Spares(h, ClearDisconnect(h, r))
  BY DEF Spares, ClearDisconnect, Acts, Points, Late, Kinds
<1>3. g \in [Acts -> Points]
  BY <1>1, Zenon DEF Spares
<1>4. Spares(g, ClearDisconnect(g, r))
  BY <1>2, <1>3, Zenon
<1>5. Spares(f, ClearDisconnect(g, r))
  <2> HIDE DEF g
  <2> QED BY <1>1, <1>4, Zenon DEF Spares
<1> QED BY <1>1, <1>2, <1>5, Zenon DEF ClearTasks

(* The replica's activities are among Acts.                                *)
LEMMA ActsOf ==
    ASSUME NEW k \in Kinds, NEW r \in Replicas
    PROVE  <<k, r>> \in Acts
BY Zenon DEF Acts

(* A step that gives one job new activities is quiet on activities if the  *)
(* new ones are.                                                           *)
LEMMA MapQuiet ==
    ASSUME TypeOK, NEW j \in Jobs, NEW g \in [Acts -> Points],
           act' = [act EXCEPT ![j] = g],
           \A a \in Acts : act[j][a] \in Late \/ g[a] \in Late => g[a] = act[j][a],
           \A a \in Acts : a[1] = "frame" /\ g[a] \in Reporting
                             => act[j][a] \in Reporting \/ dev'[j] \in AllReports
    PROVE  act' \in [Jobs -> [Acts -> Points]] /\ ActsQuiet
BY Zenon DEF TypeOK, ActsQuiet

(* The same for one activity that moves, neither from nor to a point past  *)
(* the transition, once tasks are cleared.                                 *)
LEMMA ClearGoQuiet ==
    ASSUME TypeOK, NEW j \in Jobs, NEW a \in Acts, NEW p \in Points \ Late,
           NEW h, Spares(act[j], h), act' = [act EXCEPT ![j] = [h EXCEPT ![a] = p]],
           act[j][a] \notin Late,
           a[1] = "frame" /\ p \in Reporting
              => act[j][a] \in Reporting \/ dev'[j] \in AllReports
    PROVE  act' \in [Jobs -> [Acts -> Points]] /\ ActsQuiet
<1> DEFINE g == [h EXCEPT ![a] = p]
<1>1. act[j] \in [Acts -> Points] /\ h \in [Acts -> Points]
  BY Zenon DEF TypeOK, Spares
<1>2. g \in [Acts -> Points]
  BY <1>1, Zenon
<1>3. \A b \in Acts : g[b] = IF b = a THEN p ELSE h[b]
  BY <1>1, Zenon
<1>4. \A b \in Acts : act[j][b] \in Late \/ g[b] \in Late => g[b] = act[j][b]
  BY <1>3, Zenon DEF Spares
<1>5. \A b \in Acts : b[1] = "frame" /\ g[b] \in Reporting
                         => act[j][b] \in Reporting \/ dev'[j] \in AllReports
  BY <1>3, Zenon DEF Spares
<1>6. act' = [act EXCEPT ![j] = g]
  BY Zenon
<1> HIDE DEF g
<1> QED BY <1>2, <1>4, <1>5, <1>6, MapQuiet, Zenon

(* The same when no task is cleared.                                       *)
LEMMA GoQuiet ==
    ASSUME TypeOK, NEW j \in Jobs, NEW a \in Acts, NEW p \in Points \ Late,
           Go(j, a, p), act[j][a] \notin Late,
           a[1] = "frame" /\ p \in Reporting
              => act[j][a] \in Reporting \/ dev'[j] \in AllReports
    PROVE  act' \in [Jobs -> [Acts -> Points]] /\ ActsQuiet
<1>1. Spares(act[j], act[j])
  BY Zenon DEF Spares, TypeOK
<1>2. act' = [act EXCEPT ![j] = [act[j] EXCEPT ![a] = p]]
  BY Zenon DEF Go
<1> QED BY <1>1, <1>2, ClearGoQuiet, Zenon

(* create_job and cancel_job keep the types and are quiet.                 *)
LEMMA RequestStep ==
    ASSUME RuntimeInv, NEW j \in Jobs, NEW r \in Replicas, Create(j, r) \/ Cancel(j, r)
    PROVE  TypeOK' /\ Quiet
<1>0. TypeOK
  BY Zenon DEF RuntimeInv
<1>a. /\ {<<"create", r>>, <<"cancel", r>>, <<"timeout", r>>} \subseteq Acts
      /\ {"idle", "mark", "send", "arm", "check", "sleep", "transition"} \subseteq Points \ Late
  BY DEF Acts, Kinds, Points, Late
<1>1. CASE CreateJob(j, r)
  <2>1. act' \in [Jobs -> [Acts -> Points]] /\ ActsQuiet
    BY <1>0, <1>1, <1>a, GoQuiet, Zenon DEF CreateJob, At, Late
  <2>2. TypeOK'
    BY <1>0, <1>1, <2>1, Zenon DEF CreateJob, TypeOK, rowVars, linkVars, Statuses
  <2>3. RowsQuiet
    BY <1>0, <1>1, Zenon DEF CreateJob, TypeOK, RowsQuiet, rowVars, linkVars, Terminal
  <2> QED BY <2>1, <2>2, <2>3, Zenon DEF Quiet
<1>2. CASE MarkSent(j, r)
  <2>1. act' \in [Jobs -> [Acts -> Points]] /\ ActsQuiet
    BY <1>0, <1>2, <1>a, GoQuiet, Zenon DEF MarkSent, At, Late
  <2>2. TypeOK'
    BY <1>0, <1>2, <2>1, Zenon DEF MarkSent, TypeOK, rowVars, linkVars, Statuses
  <2>3. RowsQuiet
    BY <1>0, <1>2, Zenon DEF MarkSent, TypeOK, RowsQuiet, rowVars, linkVars, Terminal, Legal
  <2> QED BY <2>1, <2>2, <2>3, Zenon DEF Quiet
<1>3. CASE Dispatch(j, r)
  <2>1. act' \in [Jobs -> [Acts -> Points]] /\ ActsQuiet
    BY <1>0, <1>3, <1>a, GoQuiet, Zenon DEF Dispatch, At, Late
  <2>2. TypeOK'
    BY <1>0, <1>3, <2>1, Zenon DEF Dispatch, TypeOK, rowVars, linkVars, Received
  <2>3. RowsQuiet
    BY <1>0, <1>3, Zenon DEF Dispatch, TypeOK, RowsQuiet, rowVars, linkVars, AllReports, Received
  <2> QED BY <2>1, <2>2, <2>3, Zenon DEF Quiet
<1>4. CASE ScheduleTimeout(j, r)
  <2>1. act' \in [Jobs -> [Acts -> Points]] /\ ActsQuiet
    <3> DEFINE g == ReplaceTask([act[j] EXCEPT ![<<"create", r>>] = "idle"], <<"timeout", r>>)
    <3>1. act[j] \in [Acts -> Points]
      BY <1>0, Zenon DEF TypeOK
    <3>2. g \in [Acts -> Points]
      BY <1>a, <3>1, Zenon DEF Spares, Points, ReplaceTask
    <3>3. act' = [act EXCEPT ![j] = g]
      BY <1>4, Zenon DEF ScheduleTimeout, At
    <3>4. \A a \in Acts : act[j][a] \in Late \/ g[a] \in Late => g[a] = act[j][a]
      BY <1>4, <1>a, <3>1, Zenon DEF ScheduleTimeout, At, Spares, Late, ReplaceTask
    <3>5. \A a \in Acts : a[1] = "frame" /\ g[a] \in Reporting
                             => act[j][a] \in Reporting \/ dev'[j] \in AllReports
      BY <1>4, <1>a, <3>1, Zenon DEF ScheduleTimeout, At, Spares, Reporting, ReplaceTask
    <3> HIDE DEF g
    <3> QED BY <1>0, <3>2, <3>3, <3>4, <3>5, MapQuiet, Zenon
  <2>2. TypeOK'
    BY <1>0, <1>4, <2>1, Zenon DEF ScheduleTimeout, TypeOK, rowVars, linkVars
  <2>3. RowsQuiet
    BY <1>0, <1>4, Zenon DEF ScheduleTimeout, TypeOK, RowsQuiet, rowVars, linkVars
  <2> QED BY <2>1, <2>2, <2>3, Zenon DEF Quiet
<1>5. CASE CancelJob(j, r)
  <2>1. act' \in [Jobs -> [Acts -> Points]] /\ ActsQuiet
    BY <1>0, <1>5, <1>a, GoQuiet, Zenon DEF CancelJob, At, Late
  <2>2. TypeOK'
    BY <1>0, <1>5, <2>1, Zenon DEF CancelJob, TypeOK, rowVars, linkVars
  <2>3. RowsQuiet
    BY <1>0, <1>5, Zenon DEF CancelJob, TypeOK, RowsQuiet, rowVars, linkVars
  <2> QED BY <2>1, <2>2, <2>3, Zenon DEF Quiet
<1>6. CASE SendCancel(j, r)
  <2>1. act' \in [Jobs -> [Acts -> Points]] /\ ActsQuiet
    BY <1>0, <1>6, <1>a, GoQuiet, Zenon DEF SendCancel, At, Late
  <2>2. TypeOK'
    BY <1>0, <1>6, <2>1, Zenon DEF SendCancel, TypeOK, rowVars, linkVars, ToldToCancel
  <2>3. RowsQuiet
    BY <1>0, <1>6, Zenon DEF SendCancel, TypeOK, RowsQuiet, rowVars, linkVars, ToldToCancel, AllReports
  <2> QED BY <2>1, <2>2, <2>3, Zenon DEF Quiet
<1> QED BY <1>1, <1>2, <1>3, <1>4, <1>5, <1>6, Zenon DEF Create, Cancel

(* Frames, up to the common steps, keep the types and are quiet.           *)
LEMMA FrameStep ==
    ASSUME RuntimeInv, NEW j \in Jobs, NEW r \in Replicas, Frame(j, r)
    PROVE  TypeOK' /\ Quiet
<1>0. TypeOK
  BY Zenon DEF RuntimeInv
<1>a. /\ <<"frame", r>> \in Acts
      /\ {"idle", "running", "check", "begin"} \subseteq Points \ Late
  BY Zenon DEF Acts, Kinds, Points, Late
<1>1. CASE JobEvent(j, r)
  <2>1. act' \in [Jobs -> [Acts -> Points]] /\ ActsQuiet
    <3>1. Spares(act[j], ClearDisconnect(act[j], r))
      BY <1>0, ClearSpares, Zenon DEF TypeOK
    <3>2. PICK p \in {"idle", "running"} :
             act' = [act EXCEPT ![j] = [ClearDisconnect(@, r) EXCEPT ![<<"frame", r>>] = p]]
      BY <1>1, Zenon DEF JobEvent
    <3>3. act[j][<<"frame", r>>] = "idle"
      BY <1>1, Zenon DEF JobEvent, FrameIdle
    <3> QED BY <1>0, <1>a, <3>1, <3>2, <3>3, ClearGoQuiet, Zenon DEF Late, Reporting
  <2>2. TypeOK'
    BY <1>0, <1>1, <2>1, Zenon DEF JobEvent, TypeOK, rowVars, linkVars
  <2>3. RowsQuiet
    BY <1>0, <1>1, Zenon DEF JobEvent, TypeOK, RowsQuiet, rowVars, linkVars
  <2> QED BY <2>1, <2>2, <2>3, Zenon DEF Quiet
<1>2. CASE JobFinished(j, r)
  <2>0. dev'[j] \in AllReports /\ dev' \in [Jobs -> {"none", "has", "cancelling"} \cup AllReports]
    BY <1>0, <1>2, RuntimeAssumption DEF JobFinished, TypeOK
  <2>1. act' \in [Jobs -> [Acts -> Points]] /\ ActsQuiet
    <3>1. Spares(act[j], ClearDisconnect(act[j], r))
      BY <1>0, ClearSpares, Zenon DEF TypeOK
    <3>2. PICK p \in {"idle", "check", "begin"} :
             act' = [act EXCEPT ![j] = [ClearDisconnect(@, r) EXCEPT ![<<"frame", r>>] = p]]
      <4>1. PICK o \in Reports :
               act' = [act EXCEPT ![j] = [ClearDisconnect(@, r) EXCEPT ![<<"frame", r>>] =
                         IF status[j] \in Terminal THEN "idle"
                         ELSE IF o = "rejected" \/ status[j] = "running"
                         THEN "check" ELSE "begin"]]
        BY <1>2, Zenon DEF JobFinished
      <4> QED BY <4>1, Zenon
    <3>3. act[j][<<"frame", r>>] = "idle"
      BY <1>2, Zenon DEF JobFinished, FrameIdle
    <3> QED BY <1>0, <1>a, <2>0, <3>1, <3>2, <3>3, ClearGoQuiet, Zenon DEF Late
  <2>2. TypeOK'
    BY <1>0, <1>2, <2>0, <2>1, Zenon DEF JobFinished, TypeOK, rowVars, linkVars
  <2>3. RowsQuiet
    BY <1>0, <1>2, Zenon DEF JobFinished, TypeOK, RowsQuiet, rowVars, linkVars, AllReports
  <2> QED BY <2>1, <2>2, <2>3, Zenon DEF Quiet
<1>3. CASE MarkRunning(j, r)
  <2>1. act' \in [Jobs -> [Acts -> Points]] /\ ActsQuiet
    BY <1>0, <1>3, <1>a, GoQuiet, Zenon DEF MarkRunning, At, Late, Reporting
  <2>2. TypeOK'
    BY <1>0, <1>3, <2>1, Zenon DEF MarkRunning, TypeOK, rowVars, linkVars, Statuses
  <2>3. RowsQuiet
    BY <1>0, <1>3, Zenon DEF MarkRunning, TypeOK, RowsQuiet, rowVars, linkVars, Terminal, Legal
  <2> QED BY <2>1, <2>2, <2>3, Zenon DEF Quiet
<1> QED BY <1>1, <1>2, <1>3, Zenon DEF Frame

(* The timers, up to the common steps, keep the types and are quiet.       *)
LEMMA TimerStep ==
    ASSUME RuntimeInv, NEW j \in Jobs, NEW r \in Replicas, Timers(j, r)
    PROVE  TypeOK' /\ Quiet
<1>0. TypeOK
  BY Zenon DEF RuntimeInv
<1>a. /\ {<<"timeout", r>>, <<"disconnect", r>>} \subseteq Acts
      /\ {"idle", "notify", "grace", "expired", "transition"} \subseteq Points \ Late
  BY DEF Acts, Kinds, Points, Late
<1>1. CASE TimeoutFires(j, r)
  <2>1. act' \in [Jobs -> [Acts -> Points]] /\ ActsQuiet
    BY <1>0, <1>1, <1>a, GoQuiet, Zenon DEF TimeoutFires, At, Late
  <2>2. TypeOK'
    BY <1>0, <1>1, <2>1, Zenon DEF TimeoutFires, TypeOK, rowVars, linkVars
  <2>3. RowsQuiet
    BY <1>0, <1>1, Zenon DEF TimeoutFires, TypeOK, RowsQuiet, rowVars, linkVars
  <2> QED BY <2>1, <2>2, <2>3, Zenon DEF Quiet
<1>2. CASE TimeoutNotifies(j, r)
  <2>1. act' \in [Jobs -> [Acts -> Points]] /\ ActsQuiet
    BY <1>0, <1>2, <1>a, GoQuiet, Zenon DEF TimeoutNotifies, At, Late
  <2>2. TypeOK'
    BY <1>0, <1>2, <2>1, Zenon DEF TimeoutNotifies, TypeOK, rowVars, linkVars, ToldToCancel
  <2>3. RowsQuiet
    BY <1>0, <1>2, Zenon DEF TimeoutNotifies, TypeOK, RowsQuiet, rowVars, linkVars, ToldToCancel, AllReports
  <2> QED BY <2>1, <2>2, <2>3, Zenon DEF Quiet
<1>3. CASE TimeoutGraceEnds(j, r)
  <2>1. act' \in [Jobs -> [Acts -> Points]] /\ ActsQuiet
    <3>1. Spares(act[j], ClearDisconnect(act[j], r))
      BY <1>0, ClearSpares, Zenon DEF TypeOK
    <3>2. CASE status[j] \in Terminal
      BY <1>0, <1>3, <1>a, <3>2, GoQuiet, Zenon DEF TimeoutGraceEnds, At, Go, Late
    <3>3. CASE ~(status[j] \in Terminal)
      BY <1>0, <1>3, <1>a, <3>1, <3>3, ClearGoQuiet, Zenon DEF TimeoutGraceEnds, At, Late
    <3> QED BY <3>2, <3>3, Zenon
  <2>2. TypeOK'
    BY <1>0, <1>3, <2>1, Zenon DEF TimeoutGraceEnds, TypeOK, rowVars, linkVars
  <2>3. RowsQuiet
    BY <1>0, <1>3, Zenon DEF TimeoutGraceEnds, TypeOK, RowsQuiet, rowVars, linkVars
  <2> QED BY <2>1, <2>2, <2>3, Zenon DEF Quiet
<1>4. CASE DisconnectFires(j, r)
  <2>1. act' \in [Jobs -> [Acts -> Points]] /\ ActsQuiet
    BY <1>0, <1>4, <1>a, GoQuiet, Zenon DEF DisconnectFires, At, Late
  <2>2. TypeOK'
    BY <1>0, <1>4, <2>1, Zenon DEF DisconnectFires, TypeOK, rowVars, linkVars
  <2>3. RowsQuiet
    BY <1>0, <1>4, Zenon DEF DisconnectFires, TypeOK, RowsQuiet, rowVars, linkVars
  <2> QED BY <2>1, <2>2, <2>3, Zenon DEF Quiet
<1>5. CASE DisconnectExpires(j, r)
  <2>1. act' \in [Jobs -> [Acts -> Points]] /\ ActsQuiet
    <3>1. Spares(act[j], ClearTimeout(act[j], r))
      BY <1>0, ClearSpares, Zenon DEF TypeOK
    <3>2. CASE status[j] \notin {"sent", "running"}
      BY <1>0, <1>5, <1>a, <3>2, GoQuiet, Zenon DEF DisconnectExpires, At, Go, Late
    <3>3. CASE ~(status[j] \notin {"sent", "running"})
      BY <1>0, <1>5, <1>a, <3>1, <3>3, ClearGoQuiet, Zenon DEF DisconnectExpires, At, Late
    <3> QED BY <3>2, <3>3, Zenon
  <2>2. TypeOK'
    BY <1>0, <1>5, <2>1, Zenon DEF DisconnectExpires, TypeOK, rowVars, linkVars
  <2>3. RowsQuiet
    BY <1>0, <1>5, Zenon DEF DisconnectExpires, TypeOK, RowsQuiet, rowVars, linkVars
  <2> QED BY <2>1, <2>2, <2>3, Zenon DEF Quiet
<1> QED BY <1>1, <1>2, <1>3, <1>4, <1>5, Zenon DEF Timers

(* The connection and its handlers keep the types and are quiet.           *)
LEMMA ConnectionStep ==
    ASSUME RuntimeInv, NEW r \in Replicas, Connection(r) \/ Disconnect
    PROVE  TypeOK' /\ Quiet
<1>0. TypeOK
  BY Zenon DEF RuntimeInv
<1>1. CASE Connect(r) \/ Disconnect \/ ListJobs(r)
  <2>1. /\ link' \in Replicas \cup {None}
        /\ joining' \in SUBSET Replicas
        /\ leaving' \in SUBSET Replicas
        /\ links' \in 0..MaxLinks
    BY <1>0, <1>1, RuntimeAssumption DEF Connect, Disconnect, ListJobs, TypeOK
  <2>2. scan' \in [Replicas -> SUBSET (Jobs \X Statuses)]
    BY <1>0, <1>1 DEF Connect, Disconnect, ListJobs, TypeOK
  <2>3. UNCHANGED <<status, result, pushed, act, dev, faults>>
    BY <1>1, Zenon DEF Connect, Disconnect, ListJobs, rowVars
  <2>4. TypeOK'
    BY <1>0, <2>1, <2>2, <2>3, Zenon DEF TypeOK
  <2> QED BY <2>3, <2>4, Zenon DEF Quiet, RowsQuiet, ActsQuiet
<1>2. CASE HandleConnected(r)
  <2>1. \A j \in Jobs : act'[j] = act[j] \/ act'[j] = ClearDisconnect(act[j], r)
    BY <1>2, Zenon DEF HandleConnected
  <2>2. \A j \in Jobs : act[j] \in [Acts -> Points] /\ Spares(act[j], act'[j])
    <3> SUFFICES ASSUME NEW j \in Jobs
                 PROVE  act[j] \in [Acts -> Points] /\ Spares(act[j], act'[j])
      BY Zenon
    <3>1. act[j] \in [Acts -> Points]
      BY <1>0, Zenon DEF TypeOK
    <3>2. Spares(act[j], ClearDisconnect(act[j], r)) /\ Spares(act[j], act[j])
      BY <3>1, ClearSpares, Zenon DEF Spares
    <3> QED BY <2>1, <3>1, <3>2, Zenon
  <2>3. act' \in [Jobs -> [Acts -> Points]]
    <3>1. act' = [j \in Jobs |-> act'[j]]
      BY <1>2, Zenon DEF HandleConnected
    <3>2. \A j \in Jobs : act'[j] \in [Acts -> Points]
      BY <2>2, Zenon DEF Spares
    <3> QED BY <3>1, <3>2, Zenon
  <2>4. ActsQuiet
    BY <2>2, Zenon DEF ActsQuiet, Spares
  <2>5. TypeOK' /\ RowsQuiet
    BY <1>0, <1>2, <2>3, Zenon DEF HandleConnected, TypeOK, RowsQuiet, rowVars
  <2> QED BY <2>4, <2>5, Zenon DEF Quiet
<1>3. CASE HandleDisconnected(r)
  <2>1. PICK e \in scan[r] :
           /\ scan' = [scan EXCEPT ![r] = @ \ {e}]
           /\ CASE e[2] = "pending" -> Go(e[1], <<"cleanup", r>>, "check")
                [] e[2] \in {"sent", "running"} ->
                      act' = [act EXCEPT ![e[1]] = ReplaceTask(@, <<"disconnect", r>>)]
                [] OTHER -> UNCHANGED act
    BY <1>3, Zenon DEF HandleDisconnected
  <2>2. e[1] \in Jobs /\ act[e[1]] \in [Acts -> Points]
    BY <1>0 DEF TypeOK
  <2>a. /\ {<<"cleanup", r>>, <<"disconnect", r>>} \subseteq Acts
        /\ "check" \in Points \ Late
        /\ "sleep" \in Points \ Late
    BY DEF Acts, Kinds, Points, Late
  <2>3. act' \in [Jobs -> [Acts -> Points]] /\ ActsQuiet
    <3>1. CASE e[2] = "pending"
      <4>1. act[e[1]][<<"cleanup", r>>] = "idle"
        BY <1>3, <2>2, Zenon DEF HandleDisconnected, At
      <4>2. Go(e[1], <<"cleanup", r>>, "check")
        BY <2>1, <3>1, Zenon
      <4> QED BY <1>0, <2>2, <2>a, <4>1, <4>2, GoQuiet, Zenon DEF Late
    <3>2. CASE e[2] \in {"sent", "running"}
      <4> DEFINE b == <<"disconnect", r>>
      <4>1. act' = [act EXCEPT ![e[1]] = ReplaceTask(@, b)]
        BY <2>1, <3>2, Zenon
      <4>2. CASE act[e[1]][b] \in {"transition", "record", "push"}
        <5>1. act' = act
          BY <1>0, <2>2, <2>a, <4>1, <4>2, Zenon DEF ReplaceTask, TypeOK
        <5> QED BY <1>0, <5>1, Zenon DEF TypeOK, ActsQuiet
      <4>3. CASE act[e[1]][b] \notin {"transition", "record", "push"}
        <5>1. Go(e[1], b, "sleep")
          BY <1>0, <2>2, <2>a, <4>1, <4>3, Zenon DEF ReplaceTask, Go
        <5> QED BY <1>0, <2>2, <2>a, <4>3, <5>1, GoQuiet, Zenon DEF Late
      <4> QED BY <4>2, <4>3, Zenon
    <3>3. CASE e[2] \notin {"pending", "sent", "running"}
      <4>1. UNCHANGED act
        BY <2>1, <3>3, Zenon
      <4> QED BY <1>0, <4>1, Zenon DEF TypeOK, ActsQuiet
    <3> QED BY <3>1, <3>2, <3>3, Zenon
  <2>4. scan' \in [Replicas -> SUBSET (Jobs \X Statuses)]
    BY <1>0, <2>1, Zenon DEF TypeOK
  <2>5. TypeOK' /\ RowsQuiet
    BY <1>0, <1>3, <2>3, <2>4, Zenon DEF HandleDisconnected, TypeOK, RowsQuiet, rowVars
  <2> QED BY <2>3, <2>5, Zenon DEF Quiet
<1> QED BY <1>1, <1>2, <1>3, Zenon DEF Connection

(* A step at one point of one activity gives exactly that activity a new   *)
(* point.                                                                  *)
LEMMA GoTo ==
    ASSUME TypeOK, NEW j \in Jobs, NEW a \in Acts, NEW p \in Points, Go(j, a, p)
    PROVE  /\ act' \in [Jobs -> [Acts -> Points]]
           /\ \A i \in Jobs, b \in Acts :
                 act'[i][b] = IF i = j /\ b = a THEN p ELSE act[i][b]
BY Zenon DEF TypeOK, Go

(* finish_job's check, the transition, the record and the push keep the    *)
(* invariant: the transition is legal for one verdict only, and the row    *)
(* then stays with it.                                                     *)
LEMMA FinishingStep ==
    ASSUME RuntimeInv, NEW j \in Jobs, NEW a \in Acts, Finishing(j, a)
    PROVE  RuntimeInv'
<1>0. TypeOK
  BY Zenon DEF RuntimeInv
<1>a. {"idle", "transition"} \subseteq Points \ Late /\ Late \subseteq Points
  BY Zenon DEF Points, Late
<1>b. a[1] = "frame" /\ act[j][a] \in Reporting => dev[j] \in AllReports
  BY Zenon DEF RuntimeInv, Reported
<1>1. CASE FinishJob(j, a)
  <2>1. a[2] \in Replicas
    BY Zenon DEF Acts
  <2>2. Spares(act[j], ClearTasks(act[j], a[2]))
    BY <1>0, <2>1, ClearSpares, Zenon DEF TypeOK
  <2>3. PICK p \in {"idle", "transition"} :
           act' = [act EXCEPT ![j] = [ClearTasks(@, a[2]) EXCEPT ![a] = p]]
    BY <1>1, Zenon DEF FinishJob
  <2>4. act' \in [Jobs -> [Acts -> Points]] /\ ActsQuiet
    BY <1>0, <1>1, <1>a, <2>2, <2>3, ClearGoQuiet, ZenonT(40) DEF FinishJob, At, Late, Reporting
  <2>5. TypeOK' /\ RowsQuiet
    BY <1>0, <1>1, <2>4, Zenon DEF FinishJob, TypeOK, RowsQuiet, rowVars, linkVars
  <2> QED BY <2>4, <2>5, QuietStep, Zenon DEF Quiet
<1>2. CASE Transition(j, a)
  <2>1. CASE ~Legal(status[j], StatusOf(Cause(j, a)))
    <3>1. act' \in [Jobs -> [Acts -> Points]] /\ ActsQuiet
      BY <1>0, <1>2, <1>a, <2>1, GoQuiet, Zenon DEF Transition, At, Late, Reporting
    <3>2. scan' \in [Replicas -> SUBSET (Jobs \X Statuses)]
      BY <1>0, <1>2, <2>1, Zenon DEF Transition, TypeOK
    <3>3. TypeOK' /\ RowsQuiet
      BY <1>0, <1>2, <2>1, <3>1, <3>2, Zenon DEF Transition, TypeOK, RowsQuiet
    <3> QED BY <3>1, <3>3, QuietStep, Zenon DEF Quiet
  <2>2. CASE Legal(status[j], StatusOf(Cause(j, a)))
    <3>1. /\ status' = [status EXCEPT ![j] = StatusOf(Cause(j, a))]
          /\ Go(j, a, "record")
          /\ act[j][a] = "transition"
          /\ UNCHANGED <<scan, result, pushed, link, joining, leaving, dev, links, faults>>
      BY <1>2, <2>2, Zenon DEF Transition, At
    <3>2. /\ act' \in [Jobs -> [Acts -> Points]]
          /\ \A i \in Jobs, b \in Acts :
                act'[i][b] = IF i = j /\ b = a THEN "record" ELSE act[i][b]
      BY <1>0, <1>a, <3>1, GoTo DEF Late
    <3>3. \A i \in Jobs : status[i] \in Terminal => status'[i] = status[i]
      BY <1>0, <2>2, <3>1, StatusOfTerminal, Zenon DEF Legal, Terminal, TypeOK
    <3>4. TypeOK'
      BY <1>0, <3>1, <3>2, StatusOfTerminal, Zenon DEF TypeOK, Statuses
    <3>5. ReportsAgree'
      BY <3>1, <3>3, StatusOfTerminal, Zenon DEF RuntimeInv, ReportsAgree
    <3>6. status'[j] = StatusOf(Cause(j, a))
      BY <1>0, <3>1, Zenon DEF TypeOK
    <3>7. \A i \in Jobs, b \in Acts : Cause(i, b)' = Cause(i, b)
      BY <3>1, Zenon DEF Cause
    <3>8. Decided'
      BY <3>2, <3>3, <3>6, <3>7, StatusOfTerminal DEF RuntimeInv, Decided
    <3>9. Reported'
      BY <1>b, <3>1, <3>2 DEF RuntimeInv, Reported, Reporting
    <3>10. Told'
      <4> SUFFICES ASSUME NEW i \in Jobs, faults' = 0, status'[i] \in Terminal
                   PROVE  OnTheWay(i)'
        BY Zenon DEF Told
      <4>1. CASE i = j
        BY <3>2, <4>1, Zenon DEF OnTheWay
      <4>2. CASE i # j
        <5>1. status'[i] = status[i]
          BY <1>0, <3>1, <4>2, Zenon DEF TypeOK
        <5>2. OnTheWay(i)
          BY <3>1, <5>1, Zenon DEF RuntimeInv, Told
        <5> QED BY <3>1, <3>2, <4>2, <5>2, Zenon DEF OnTheWay
      <4> QED BY <4>1, <4>2, Zenon
    <3> QED BY <3>4, <3>5, <3>8, <3>9, <3>10, Zenon DEF RuntimeInv
  <2> QED BY <2>1, <2>2, Zenon
<1>3. CASE Record(j, a)
  <2>1. /\ result' = [result EXCEPT ![j] = Cause(j, a)]
        /\ Go(j, a, "push")
        /\ act[j][a] = "record"
        /\ UNCHANGED <<status, pushed, link, joining, leaving, scan, links, dev, faults>>
    BY <1>3, Zenon DEF Record, At, linkVars
  <2>2. /\ act' \in [Jobs -> [Acts -> Points]]
        /\ \A i \in Jobs, b \in Acts :
              act'[i][b] = IF i = j /\ b = a THEN "push" ELSE act[i][b]
    BY <1>0, <1>a, <2>1, GoTo DEF Late
  <2>3. Cause(j, a) \in Causes /\ StatusOf(Cause(j, a)) = status[j]
    BY <1>0, <1>b, <2>1, CauseTyped, Zenon DEF RuntimeInv, Decided, Late, Reporting
  <2>4. TypeOK'
    BY <1>0, <2>1, <2>2, <2>3, Zenon DEF TypeOK
  <2>5. ReportsAgree'
    BY <1>0, <2>1, <2>3, Zenon DEF RuntimeInv, ReportsAgree, TypeOK
  <2>6. \A i \in Jobs, b \in Acts : Cause(i, b)' = Cause(i, b)
    BY <2>1, Zenon DEF Cause
  <2>7. Decided'
    BY <2>1, <2>2, <2>3, <2>6 DEF RuntimeInv, Decided
  <2>8. Reported'
    BY <1>b, <2>1, <2>2 DEF RuntimeInv, Reported, Reporting
  <2>9. Told'
    <3> SUFFICES ASSUME NEW i \in Jobs, faults' = 0, status'[i] \in Terminal
                 PROVE  OnTheWay(i)'
      BY Zenon DEF Told
    <3>1. OnTheWay(i)
      BY <2>1, Zenon DEF RuntimeInv, Told
    <3>2. CASE i = j
      <4>1. result'[j] # "none"
        BY <1>0, <2>1, <2>3, Zenon DEF TypeOK, Causes, AllReports
      <4> QED BY <2>2, <3>2, <4>1, Zenon DEF OnTheWay
    <3>3. CASE i # j
      BY <1>0, <2>1, <2>2, <3>1, <3>3, Zenon DEF OnTheWay, TypeOK
    <3> QED BY <3>2, <3>3, Zenon
  <2> QED BY <2>4, <2>5, <2>7, <2>8, <2>9, Zenon DEF RuntimeInv
<1>4. CASE PushFinished(j, a)
  <2>1. /\ pushed' = [pushed EXCEPT ![j] = @ \cup {Cause(j, a)}]
        /\ Go(j, a, "idle")
        /\ act[j][a] = "push"
        /\ UNCHANGED <<status, result, link, joining, leaving, scan, links, dev, faults>>
    BY <1>4, Zenon DEF PushFinished, At, linkVars
  <2>2. /\ act' \in [Jobs -> [Acts -> Points]]
        /\ \A i \in Jobs, b \in Acts :
              act'[i][b] = IF i = j /\ b = a THEN "idle" ELSE act[i][b]
    BY <1>0, <1>a, <2>1, GoTo
  <2>3. Cause(j, a) \in Causes /\ StatusOf(Cause(j, a)) = status[j]
    BY <1>0, <1>b, <2>1, CauseTyped, Zenon DEF RuntimeInv, Decided, Late, Reporting
  <2>4. TypeOK'
    BY <1>0, <2>1, <2>2, <2>3, Zenon DEF TypeOK
  <2>5. ReportsAgree'
    BY <1>0, <2>1, <2>3, Zenon DEF RuntimeInv, ReportsAgree, TypeOK
  <2>6. \A i \in Jobs, b \in Acts : Cause(i, b)' = Cause(i, b)
    BY <2>1, Zenon DEF Cause
  <2>7. Decided'
    BY <2>1, <2>2, <2>6 DEF RuntimeInv, Decided, Late
  <2>8. Reported'
    BY <2>1, <2>2 DEF RuntimeInv, Reported, Reporting
  <2>9. Told'
    <3> SUFFICES ASSUME NEW i \in Jobs, faults' = 0, status'[i] \in Terminal
                 PROVE  OnTheWay(i)'
      BY Zenon DEF Told
    <3>1. OnTheWay(i)
      BY <2>1, Zenon DEF RuntimeInv, Told
    <3>2. CASE i = j
      <4>1. pushed'[j] # {}
        BY <1>0, <2>1, Zenon DEF TypeOK
      <4>2. CASE result[j] # "none"
        BY <2>1, <3>2, <4>1, <4>2, Zenon DEF OnTheWay
      <4>3. CASE result[j] = "none"
        BY <2>1, <2>2, <3>1, <3>2, <4>3, Zenon DEF OnTheWay
      <4> QED BY <4>2, <4>3, Zenon
    <3>3. CASE i # j
      BY <1>0, <2>1, <2>2, <3>1, <3>3, Zenon DEF OnTheWay, TypeOK
    <3> QED BY <3>2, <3>3, Zenon
  <2> QED BY <2>4, <2>5, <2>7, <2>8, <2>9, Zenon DEF RuntimeInv
<1> QED BY <1>1, <1>2, <1>3, <1>4, Zenon DEF Finishing

(* A dropped request and a crash stop activities and count as a fault, so  *)
(* nothing is promised of the finished event any more.                     *)
LEMMA FaultStep ==
    ASSUME RuntimeInv,
           (\E j \in Jobs, a \in Acts : RequestDropped(j, a)) \/ \E r \in Replicas : Crash(r)
    PROVE  RuntimeInv'
<1>0. TypeOK
  BY Zenon DEF RuntimeInv
<1>1. /\ act' \in [Jobs -> [Acts -> Points]]
      /\ \A i \in Jobs, b \in Acts : act'[i][b] \in {"idle", act[i][b]}
  <2>1. ASSUME NEW j \in Jobs, NEW a \in Acts, RequestDropped(j, a)
        PROVE  <1>1
    BY <1>0, <2>1, GoTo DEF RequestDropped, Points
  <2>2. ASSUME NEW r \in Replicas, Crash(r)
        PROVE  <1>1
    BY <1>0, <2>2 DEF Crash, TypeOK, Points
  <2> QED BY <2>1, <2>2, Zenon
<1>2. /\ UNCHANGED <<status, result, pushed, dev>>
      /\ faults' = faults + 1
      /\ faults' \in 0..MaxFaults
      /\ TypeOK'
  <2>1. ASSUME NEW j \in Jobs, NEW a \in Acts, RequestDropped(j, a)
        PROVE  <1>2
    BY <1>0, <1>1, <2>1, RuntimeAssumption DEF RequestDropped, TypeOK, rowVars, linkVars
  <2>2. ASSUME NEW r \in Replicas, Crash(r)
        PROVE  <1>2
    BY <1>0, <1>1, <2>2, RuntimeAssumption DEF Crash, TypeOK, rowVars
  <2> QED BY <2>1, <2>2, Zenon
<1>3. ReportsAgree' /\ Told'
  BY <1>0, <1>2 DEF RuntimeInv, ReportsAgree, Told, TypeOK
<1>4. \A i \in Jobs, b \in Acts : Cause(i, b)' = Cause(i, b)
  BY <1>2, Zenon DEF Cause
<1>5. Decided' /\ Reported'
  BY <1>1, <1>2, <1>4 DEF RuntimeInv, Decided, Reported, Late, Reporting
<1> QED BY <1>2, <1>3, <1>5, Zenon DEF RuntimeInv

----------------------------------------------------------------------------
(* The invariant holds at the start, when nothing has been asked for.      *)
LEMMA InitRuntimeInv == Init => RuntimeInv
<1> SUFFICES ASSUME Init PROVE RuntimeInv
  BY Zenon
<1>1. TypeOK
  BY RuntimeAssumption DEF Init, TypeOK, Statuses, Causes, Points
<1>2. ReportsAgree /\ Decided /\ Reported
  BY Zenon DEF Init, ReportsAgree, Decided, Reported, Late, Reporting
<1>3. Told
  BY Zenon DEF Init, Told, Terminal
<1> QED BY <1>1, <1>2, <1>3, Zenon DEF RuntimeInv

(* Every step keeps the invariant.                                         *)
LEMMA StepRuntimeInv == RuntimeInv /\ [Next]_vars => RuntimeInv'
<1> SUFFICES ASSUME RuntimeInv, [Next]_vars PROVE RuntimeInv'
  BY Zenon
<1>1. ASSUME NEW j \in Jobs, NEW a \in Acts, Finishing(j, a) PROVE RuntimeInv'
  BY <1>1, FinishingStep, Zenon
<1>2. ASSUME NEW j \in Jobs, NEW r \in Replicas, Create(j, r) \/ Cancel(j, r)
      PROVE  RuntimeInv'
  BY <1>2, RequestStep, QuietStep, Zenon
<1>3. ASSUME NEW j \in Jobs, NEW r \in Replicas, Frame(j, r) PROVE RuntimeInv'
  BY <1>3, FrameStep, QuietStep, Zenon
<1>4. ASSUME NEW j \in Jobs, NEW r \in Replicas, Timers(j, r) PROVE RuntimeInv'
  BY <1>4, TimerStep, QuietStep, Zenon
<1>5. ASSUME NEW r \in Replicas, Connection(r) PROVE RuntimeInv'
  BY <1>5, ConnectionStep, QuietStep, Zenon
<1>6. CASE Disconnect
  <2>1. link \in Replicas
    BY <1>6, Zenon DEF Disconnect, RuntimeInv, TypeOK
  <2> QED BY <1>6, <2>1, ConnectionStep, QuietStep, Zenon
<1>7. CASE UNCHANGED vars
  <2>1. UNCHANGED <<status, result, pushed, act, dev, faults>>
    BY <1>7, Zenon DEF vars
  <2>2. TypeOK'
    BY <1>7, Zenon DEF vars, RuntimeInv, TypeOK
  <2>3. Quiet
    BY <2>1, Zenon DEF Quiet, RowsQuiet, ActsQuiet
  <2> QED BY <2>2, <2>3, QuietStep, Zenon
<1>8. CASE (\E j \in Jobs, a \in Acts : RequestDropped(j, a)) \/ \E r \in Replicas : Crash(r)
  BY <1>8, FaultStep, Zenon
<1> QED BY <1>1, <1>2, <1>3, <1>4, <1>5, <1>6, <1>7, <1>8, Zenon DEF Next

(* The inductive invariant holds throughout every behaviour.               *)
THEOREM RuntimeInvariant == Spec => []RuntimeInv
BY InitRuntimeInv, StepRuntimeInv, PTL DEF Spec

(* For any number of jobs and replicas, exit fields and finished events    *)
(* agree with the status of the row: JobRuntime's racing ways to finish a  *)
(* job never tell two verdicts.                                            *)
THEOREM OneVerdict == Spec => []ReportsAgree
<1>1. RuntimeInv => ReportsAgree
  BY Zenon DEF RuntimeInv
<1> QED BY <1>1, RuntimeInvariant, PTL

(* For any number of jobs and replicas, a finished job's row is complete   *)
(* and its readers were told, unless a request was dropped or a replica    *)
(* stopped: aborting timer tasks never loses a finished event.             *)
THEOREM ReadersTold == Spec => []FinishedTold
<1>1. RuntimeInv => FinishedTold
  BY Zenon DEF RuntimeInv, Told, OnTheWay, FinishedTold, At
<1> QED BY <1>1, RuntimeInvariant, PTL

----------------------------------------------------------------------------
(***************************************************************************)
(* The output of a job in the shared store, for any number of readers.     *)
(***************************************************************************)
(***************************************************************************)
(* The Redis output stream.  PollersHonest is a fact about readers; why a  *)
(* number they pass over is a crossed one depends on the log's order and   *)
(* on the appends that hold a number and have not written it.              *)
(***************************************************************************)
Records == [id : Nat \ {0}, seq : Nat \ {0}, final : BOOLEAN]
AppendStates == {"idle", "incr", "xadd", "stream", "counter", "over", "failed"}
PollerRecords ==
    [at : {"idle", "history", "live", "ended"}, from : ResumeIds \cup {NoResume}, seen : Nat,
     pos : Nat, plan : Seq(Records), told : BOOLEAN, errors : Nat, got : SUBSET Nat]

LogTypes ==
    /\ seqKey \in Nat /\ lastId \in Nat
    /\ log \in Seq(Records)
    /\ append \in [Appends -> [at : AppendStates, seq : Nat]]
    /\ \A a \in Appends : append[a].at = "xadd" => append[a].seq # 0

PollerTypes == poller \in [Pollers -> PollerRecords]

Pending == {a \in Appends : append[a].at = "xadd"}

(* Until a key expires ids are positions, and no number is used twice.     *)
NumbersUsedOnce ==
    /\ lastId = Len(log)
    /\ \A i \in DOMAIN log : log[i].id = i /\ log[i].seq <= seqKey
    /\ \A a \in Pending : append[a].seq <= seqKey
    /\ \A a \in Pending : \A i \in DOMAIN log : log[i].seq # append[a].seq
    /\ \A a, b \in Pending : append[a].seq = append[b].seq => a = b
    /\ \A i, j \in DOMAIN log : log[i].seq = log[j].seq => i = j

(* A number written, or still to be written, behind a higher one is known  *)
(* to have crossed it.                                                     *)
CrossedKnown ==
    /\ \A i, j \in DOMAIN log : i < j /\ log[j].seq < log[i].seq => log[j].seq \in crossed
    /\ \A a \in Pending : \A i \in DOMAIN log :
          append[a].seq < log[i].seq => append[a].seq \in crossed

(* Before its Last-Event-ID.                                               *)
HadBefore(rd, n) == rd.from # NoResume /\ n <= rd.from

(* A reader has handled the log up to its position, plans what follows,    *)
(* and its last number is its header's or one it handled.                  *)
PlanFollows(rd) ==
    /\ rd.pos + Len(rd.plan) <= Len(log)
    /\ \A i \in DOMAIN rd.plan : rd.plan[i] = log[rd.pos + i]

SeenHandled(rd) ==
    \/ rd.seen = 0
    \/ HadBefore(rd, rd.seen)
    \/ \E j \in 1..rd.pos : log[j].seq = rd.seen

HandledKept(rd) ==
    \A i \in 1..rd.pos : log[i].seq \in rd.got \cup crossed \/ HadBefore(rd, log[i].seq)

ReaderInv == \A p \in Pollers :
    PlanFollows(poller[p]) /\ SeenHandled(poller[p]) /\ HandledKept(poller[p])

(* A reader with a header that has read nothing was told, or is still      *)
(* copying the history.                                                    *)
ToldFirst(rd) ==
    rd.at \in {"history", "live"} /\ rd.from \in ResumeIds \ {0} /\ rd.pos = 0
        => rd.told \/ (rd.at = "history" /\ rd.plan # <<>>)

LogInv == LogTypes /\ PollerTypes /\ (~lost => NumbersUsedOnce /\ CrossedKnown)
PollersInv == LogInv /\ (~lost => ReaderInv) /\ \A p \in Pollers : ToldFirst(poller[p])

(* No key, no append, no reader.                                           *)
LEMMA InitPollers == StoreInit => PollersInv
<1> SUFFICES ASSUME StoreInit PROVE PollersInv
  BY Zenon
<1> USE OutputStoreAssumption DEF StoreInit
<1>1. NoPoller \in PollerRecords
  BY DEF NoPoller, PollerRecords
<1>2. LogTypes /\ PollerTypes
  BY <1>1 DEF LogTypes, PollerTypes, AppendStates
<1>3. Pending = {}
  BY Zenon DEF Pending
<1>4. NumbersUsedOnce /\ CrossedKnown
  BY <1>3 DEF NumbersUsedOnce, CrossedKnown
<1>5. ASSUME NEW p \in Pollers
      PROVE  /\ PlanFollows(poller[p]) /\ SeenHandled(poller[p]) /\ HandledKept(poller[p])
             /\ ToldFirst(poller[p])
  BY DEF NoPoller, PlanFollows, SeenHandled, HandledKept, ToldFirst
<1> QED BY <1>2, <1>4, <1>5, Zenon DEF PollersInv, LogInv, ReaderInv

(* The fields of the stream's entries.                                      *)
LEMMA SeqFields == ASSUME LogTypes, NEW i \in DOMAIN log
                   PROVE  log[i] \in Records /\ log[i].seq \in Nat \ {0} /\ log[i].id \in Nat \ {0}
<1>1. log[i] \in Records
  BY DEF LogTypes
<1> QED BY <1>1, Zenon DEF Records

(* Steps of readers leave the log's side alone.                            *)
LEMMA LogIdle ==
    ASSUME LogInv, UNCHANGED <<seqKey, log, lastId, append, crossed, lost>>, PollerTypes'
    PROVE  LogInv'
  BY DEF LogInv, LogTypes, NumbersUsedOnce, CrossedKnown, Pending

(* An append that takes its number or gives up.                            *)
LEMMA AppendKeeps ==
    ASSUME LogInv, NEW a \in Appends, Lock(a) \/ Incr(a) \/ Pexpire(a) \/ CommandFails(a)
    PROVE  LogInv'
<1> USE DEF LogInv
<1>1. UNCHANGED <<log, lastId, poller, crossed, lost>>
  BY Zenon DEF Lock, Incr, Pexpire, CommandFails
<1>2. CASE Incr(a)
  <2>1. seqKey' = seqKey + 1 /\ append' = [append EXCEPT ![a] = [at |-> "xadd", seq |-> seqKey + 1]]
    BY <1>2, Zenon DEF Incr
  <2>2. LogTypes' /\ PollerTypes'
    BY <1>1, <2>1 DEF LogTypes, PollerTypes, AppendStates
  <2>3. Pending' = Pending \cup {a} /\ append'[a].seq = seqKey + 1
        /\ \A b \in Appends \ {a} : append'[b] = append[b]
    BY <2>1, Zenon DEF Pending, LogTypes
  <2>4. a \notin Pending
    BY <1>2, Zenon DEF Incr, Pending
  <2>5. ASSUME ~lost PROVE NumbersUsedOnce' /\ CrossedKnown'
    <3>1. /\ seqKey \in Nat /\ \A b \in Pending : append[b].seq \in Nat /\ b \in Appends
          /\ \A i \in DOMAIN log : log[i].seq \in Nat
      BY SeqFields, Zenon DEF LogTypes, Pending
    <3>2. NumbersUsedOnce'
      BY <1>1, <2>1, <2>3, <2>4, <2>5, <3>1 DEF NumbersUsedOnce
    <3>3. CrossedKnown'
      BY <1>1, <2>3, <2>4, <2>5, <3>1 DEF NumbersUsedOnce, CrossedKnown
    <3> QED BY <3>2, <3>3, Zenon
  <2> QED BY <1>1, <2>2, <2>5, Zenon
<1>3. CASE Lock(a) \/ Pexpire(a) \/ CommandFails(a)
  <2>1. seqKey' = seqKey
    BY <1>3, Zenon DEF Lock, Pexpire, CommandFails
  <2>2. PICK where \in AppendStates \ {"xadd"} : append' = [append EXCEPT ![a].at = where]
    BY <1>3, Zenon DEF Lock, Pexpire, CommandFails, AppendStates
  <2>3. LogTypes' /\ PollerTypes'
    BY <1>1, <2>1, <2>2, Zenon DEF LogTypes, PollerTypes, AppendStates
  <2>4. Pending' \subseteq Pending /\ \A b \in Pending' : append'[b].seq = append[b].seq
    BY <2>2, Zenon DEF Pending, LogTypes
  <2>5. ASSUME ~lost PROVE NumbersUsedOnce' /\ CrossedKnown'
    BY <1>1, <2>1, <2>4, <2>5 DEF NumbersUsedOnce, CrossedKnown
  <2> QED BY <1>1, <2>3, <2>5, Zenon
<1> QED BY <1>2, <1>3, Zenon

(* XADD writes a number at the end of the log; whoever holds a lower one   *)
(* has been overtaken, and is noted.                                       *)
LEMMA XaddKeeps == ASSUME LogInv, NEW a \in Appends, Xadd(a) PROVE LogInv'
<1> USE DEF LogInv
<1> DEFINE n == append[a].seq
           new == [id |-> lastId + 1, seq |-> n, final |-> a \in Finishes]
           k == Len(log)
<1>1. /\ append[a].at = "xadd" /\ lastId' = lastId + 1 /\ log' = Append(log, new)
      /\ UNCHANGED <<seqKey, poller, lost>>
  BY Zenon DEF Xadd
<1>2. n \in Nat \ {0} /\ new \in Records /\ new.seq = n /\ new.id = lastId + 1
  <2>1. n \in Nat \ {0} /\ lastId + 1 \in Nat \ {0}
    BY <1>1 DEF LogTypes
  <2> HIDE DEF n
  <2> QED BY <2>1 DEF Records
<1>3. PICK where \in AppendStates \ {"xadd"} : append' = [append EXCEPT ![a].at = where]
  <2>1. (IF a \in Finishes THEN "stream" ELSE "over") \in AppendStates \ {"xadd"}
    BY Zenon DEF AppendStates
  <2>2. append' = [append EXCEPT ![a].at = IF a \in Finishes THEN "stream" ELSE "over"]
    BY Zenon DEF Xadd
  <2> QED BY <2>1, <2>2, Zenon
<1>4. log' \in Seq(Records)
  BY <1>1, <1>2 DEF LogTypes
<1>5. LogTypes' /\ PollerTypes'
  BY <1>1, <1>3, <1>4 DEF LogTypes, PollerTypes, AppendStates
<1>6. Pending' = Pending \ {a} /\ a \in Pending /\ \A b \in Pending' : append'[b].seq = append[b].seq
  BY <1>1, <1>3, Zenon DEF Pending, LogTypes
<1>7. /\ k \in Nat /\ DOMAIN log = 1..k /\ DOMAIN log' = 1..k+1 /\ Len(log') = k + 1
      /\ log'[k + 1] = new /\ \A i \in 1..k : log'[i] = log[i]
  BY <1>1, <1>2 DEF LogTypes
<1>8. /\ \A i \in 1..k : log[i].seq \in Nat
      /\ \A b \in Pending : append[b].seq \in Nat /\ b \in Appends
  BY <1>7, SeqFields, Zenon DEF LogTypes, Pending
<1>9. /\ crossed \subseteq crossed'
      /\ \A b \in Pending : append[b].seq < n => append[b].seq \in crossed'
  <2>1. crossed' = LET lower == {append[b].seq : b \in {b \in Appends : append[b].at = "xadd" /\ append[b].seq < n}}
                   IN IF lower = {} THEN crossed ELSE crossed \cup lower \cup {n}
    BY Zenon DEF Xadd
  <2> HIDE DEF n
  <2> QED BY <2>1, Zenon DEF Pending
<1> HIDE DEF n, new, k
<1>10. ASSUME ~lost PROVE NumbersUsedOnce'
  <2>1. lastId = k /\ n <= seqKey /\ \A i \in 1..k : log[i].seq # n /\ log[i].id = i
    BY <1>6, <1>7, <1>10, Zenon DEF NumbersUsedOnce, n, k
  <2>2. \A b \in Pending : append[b].seq = n => b = a
    BY <1>6, <1>10, Zenon DEF NumbersUsedOnce, n
  <2>3. \A i \in 1..k+1 : log'[i].id = i /\ log'[i].seq <= seqKey
    BY <1>1, <1>2, <1>7, <1>10, <2>1 DEF NumbersUsedOnce
  <2>4. \A i, j \in 1..k+1 : log'[i].seq = log'[j].seq => i = j
    BY <1>2, <1>7, <1>10, <2>1 DEF NumbersUsedOnce
  <2>5. \A b \in Pending' : \A i \in 1..k+1 : log'[i].seq # append'[b].seq
    BY <1>2, <1>6, <1>7, <1>10, <2>2 DEF NumbersUsedOnce
  <2>6. /\ \A b \in Pending' : append'[b].seq <= seqKey
        /\ \A b, c \in Pending' : append'[b].seq = append'[c].seq => b = c
    BY <1>6, <1>10 DEF NumbersUsedOnce
  <2> QED BY <1>1, <1>7, <2>1, <2>3, <2>4, <2>5, <2>6 DEF NumbersUsedOnce
<1>11. ASSUME ~lost PROVE CrossedKnown'
  <2>1. ASSUME NEW i \in 1..k+1, NEW j \in 1..k+1, i < j, log'[j].seq < log'[i].seq
        PROVE  log'[j].seq \in crossed'
    <3>1. i \in 1..k /\ log'[i] = log[i]
      BY <1>7, <2>1
    <3>2. CASE j \in 1..k
      BY <1>7, <1>9, <1>11, <2>1, <3>1, <3>2, Zenon DEF CrossedKnown
    <3>3. CASE j = k + 1
      BY <1>2, <1>6, <1>7, <1>9, <1>11, <2>1, <3>1, <3>3, Zenon DEF CrossedKnown, n
    <3> QED BY <1>7, <3>2, <3>3
  <2>2. ASSUME NEW b \in Pending', NEW i \in 1..k+1, append'[b].seq < log'[i].seq
        PROVE  append'[b].seq \in crossed'
    <3>1. CASE i \in 1..k
      BY <1>6, <1>7, <1>9, <1>11, <2>2, <3>1, Zenon DEF CrossedKnown
    <3>2. CASE i = k + 1
      BY <1>2, <1>6, <1>7, <1>9, <2>2, <3>2, Zenon
    <3> QED BY <1>7, <3>1, <3>2
  <2> QED BY <1>7, <2>1, <2>2, Zenon DEF CrossedKnown
<1> QED BY <1>1, <1>5, <1>10, <1>11, Zenon

(* A key that expires makes the numbers' facts void.                       *)
LEMMA ExpiryKeeps == ASSUME LogInv, NEW k, KeyExpires(k) PROVE LogInv' /\ lost'
<1>1. lost' = TRUE /\ UNCHANGED <<lastId, append, poller>>
      /\ (seqKey' = seqKey \/ seqKey' = 0) /\ (log' = log \/ log' = <<>>)
  <2>1. CASE k = "stream"
    BY <2>1, Zenon DEF KeyExpires
  <2>2. CASE k # "stream"
    BY <2>2, Zenon DEF KeyExpires
  <2> QED BY <2>1, <2>2, Zenon
<1>2. log' \in Seq(Records) /\ seqKey' \in Nat
  <2>1. <<>> \in Seq(Records)
    OBVIOUS
  <2>2. log \in Seq(Records) /\ seqKey \in Nat
    BY Zenon DEF LogInv, LogTypes
  <2>3. CASE log' = log
    BY <1>1, <2>2, <2>3
  <2>4. CASE log' = <<>>
    BY <1>1, <2>1, <2>2, <2>4
  <2> QED BY <1>1, <2>3, <2>4, Zenon
<1> QED BY <1>1, <1>2, Zenon DEF LogInv, LogTypes, PollerTypes

(* What an append does to the log and to the crossed numbers: they grow.   *)
LEMMA LogGrows ==
    ASSUME LogInv, NEW a \in Appends,
           Lock(a) \/ Incr(a) \/ Xadd(a) \/ Pexpire(a) \/ CommandFails(a)
    PROVE  /\ UNCHANGED <<poller, lost>> /\ crossed \subseteq crossed'
           /\ Len(log) \in Nat /\ Len(log') \in Nat /\ Len(log) <= Len(log')
           /\ \A i \in 1..Len(log) : log'[i] = log[i]
<1>1. log \in Seq(Records)
  BY Zenon DEF LogInv, LogTypes
<1>2. CASE Lock(a) \/ Incr(a) \/ Pexpire(a) \/ CommandFails(a)
  BY <1>1, <1>2 DEF Lock, Incr, Pexpire, CommandFails
<1>3. CASE Xadd(a)
  <2>1. crossed \subseteq crossed' /\ UNCHANGED <<poller, lost>>
    BY <1>3, Zenon DEF Xadd
  <2>2. PICK e : log' = Append(log, e)
    BY <1>3, Zenon DEF Xadd
  <2> QED BY <1>1, <2>1, <2>2
<1> QED BY <1>2, <1>3, Zenon

(* The fields of a reader.                                                 *)
LEMMA PollerFields ==
    ASSUME PollerTypes, NEW p \in Pollers
    PROVE  /\ poller[p] \in PollerRecords
           /\ poller[p].pos \in Nat /\ poller[p].seen \in Nat /\ poller[p].plan \in Seq(Records)
           /\ Len(poller[p].plan) \in Nat /\ DOMAIN poller[p].plan = 1..Len(poller[p].plan)
           /\ poller[p].got \subseteq Nat /\ poller[p].from \in ResumeIds \cup {NoResume}
           /\ poller[p].told \in BOOLEAN /\ poller[p].errors \in Nat
<1>1. poller[p] \in PollerRecords
  BY Zenon DEF PollerTypes
<1>2. poller[p].plan \in Seq(Records)
  BY <1>1, Zenon DEF PollerRecords
<1> QED BY <1>1, <1>2 DEF PollerRecords

(* Readers are not disturbed by a log that grows.                          *)
LEMMA ReadersStay ==
    ASSUME PollerTypes, ReaderInv, UNCHANGED poller, crossed \subseteq crossed',
           Len(log) \in Nat, Len(log') \in Nat, Len(log) <= Len(log'),
           \A i \in 1..Len(log) : log'[i] = log[i]
    PROVE  ReaderInv'
<1> SUFFICES ASSUME NEW p \in Pollers
             PROVE  PlanFollows(poller[p])' /\ SeenHandled(poller[p])' /\ HandledKept(poller[p])'
  BY Zenon DEF ReaderInv
<1> DEFINE rd == poller[p]
<1>1. rd.pos \in Nat /\ Len(rd.plan) \in Nat /\ DOMAIN rd.plan = 1..Len(rd.plan)
  BY PollerFields, Zenon
<1>2. PlanFollows(rd) /\ SeenHandled(rd) /\ HandledKept(rd)
  BY Zenon DEF ReaderInv
<1>3. poller'[p] = rd
  BY Zenon
<1> HIDE DEF rd
<1>4. PlanFollows(poller[p])'
  <2>1. rd.pos + Len(rd.plan) <= Len(log) /\ \A i \in 1..Len(rd.plan) : rd.plan[i] = log[rd.pos + i]
    BY <1>1, <1>2, Zenon DEF PlanFollows
  <2>2. \A i \in 1..Len(rd.plan) : rd.pos + i \in 1..Len(log)
    BY <1>1, <2>1
  <2>3. \A i \in 1..Len(rd.plan) : rd.plan[i] = log'[rd.pos + i]
    BY <2>1, <2>2, Zenon
  <2>4. rd.pos + Len(rd.plan) <= Len(log')
    BY <1>1, <2>1
  <2> QED BY <1>1, <1>3, <2>3, <2>4, Zenon DEF PlanFollows
<1>5. \A i \in 1..rd.pos : log'[i] = log[i]
  BY <1>1, <1>2 DEF PlanFollows
<1>6. SeenHandled(poller[p])'
  BY <1>1, <1>2, <1>3, <1>5, Zenon DEF SeenHandled, HadBefore
<1>7. HandledKept(poller[p])'
  BY <1>1, <1>2, <1>3, <1>5, Zenon DEF HandledKept, HadBefore
<1> QED BY <1>4, <1>6, <1>7, Zenon

Sound(rd) ==
    /\ ~lost => PlanFollows(rd) /\ SeenHandled(rd) /\ HandledKept(rd)
    /\ ToldFirst(rd)

(* It suffices that the reader that steps is left with a sound record.     *)
LEMMA OneReaderSteps ==
    ASSUME PollersInv, NEW p \in Pollers, NEW rd \in PollerRecords, Sound(rd),
           poller' = [poller EXCEPT ![p] = rd],
           UNCHANGED <<seqKey, log, lastId, append, crossed, lost>>
    PROVE  PollersInv'
<1>1. LogInv /\ PollerTypes
  BY Zenon DEF PollersInv, LogInv
<1>2. PollerTypes'
  BY <1>1, Zenon DEF PollerTypes
<1>3. LogInv'
  BY <1>1, <1>2, LogIdle, Zenon
<1>4. ASSUME NEW q \in Pollers PROVE Sound(poller'[q])
  <2>1. poller'[q] = IF q = p THEN rd ELSE poller[q]
    BY <1>1, Zenon DEF PollerTypes
  <2>2. Sound(poller[q])
    BY Zenon DEF PollersInv, ReaderInv, Sound
  <2> QED BY <2>1, <2>2, Zenon
<1>5. \A q \in Pollers : ToldFirst(poller[q])'
  BY <1>4, Zenon DEF Sound, ToldFirst
<1>6. ASSUME ~lost' PROVE ReaderInv'
  <2> SUFFICES ASSUME NEW q \in Pollers
               PROVE  PlanFollows(poller[q])' /\ SeenHandled(poller[q])' /\ HandledKept(poller[q])'
    BY Zenon DEF ReaderInv
  <2>1. PlanFollows(poller'[q]) /\ SeenHandled(poller'[q]) /\ HandledKept(poller'[q])
    BY <1>4, <1>6, Zenon DEF Sound
  <2> QED BY <2>1, Zenon DEF PlanFollows, SeenHandled, HandledKept, HadBefore
<1> QED BY <1>3, <1>5, <1>6, Zenon DEF PollersInv

(* A subscription plans the whole stream.                                  *)
LEMMA ReadHistoryKeeps ==
    ASSUME PollersInv, NEW p \in Pollers, NEW from \in ResumeIds \cup {NoResume}, ReadHistory(p, from)
    PROVE  PollersInv'
<1> DEFINE needs == HistoryNeedsResync(from)
           start == IF from = NoResume THEN 0 ELSE from
           rd == [NoPoller EXCEPT !.at = "history", !.from = from, !.plan = log, !.seen = start,
                                  !.told = needs]
<1>1. log \in Seq(Records) /\ Len(log) \in Nat /\ DOMAIN log = 1..Len(log)
  BY DEF PollersInv, LogInv, LogTypes
<1>2. needs \in BOOLEAN /\ (from \in ResumeIds \ {0} /\ log = <<>> => needs)
  BY OutputStoreAssumption DEF HistoryNeedsResync
<1> HIDE DEF needs
<1>3. start \in Nat /\ (start = 0 \/ (from # NoResume /\ start = from /\ from \in Nat))
  <2>1. CASE from = NoResume
    <3>1. start = 0
      BY <2>1, Zenon
    <3> QED BY <3>1
  <2>2. CASE from # NoResume
    <3>1. start = from /\ from \in Nat
      BY <2>2, OutputStoreAssumption, Zenon
    <3> QED BY <2>2, <3>1, Zenon
  <2> QED BY <2>1, <2>2, Zenon
<1>4. poller' = [poller EXCEPT ![p] = rd] /\ UNCHANGED <<seqKey, log, lastId, append, crossed, lost>>
  BY Zenon DEF ReadHistory, needs
<1> HIDE DEF start
<1>5. /\ rd \in PollerRecords
      /\ rd.pos = 0 /\ rd.plan = log /\ rd.from = from /\ rd.told = needs /\ rd.seen = start
      /\ rd.at = "history"
  BY <1>1, <1>2, <1>3, Zenon DEF PollerRecords, NoPoller
<1> HIDE DEF rd
<1>6. PlanFollows(rd)
  BY <1>1, <1>5 DEF PlanFollows
<1>7. SeenHandled(rd) /\ HandledKept(rd)
  BY <1>3, <1>5 DEF SeenHandled, HandledKept, HadBefore
<1>8. ToldFirst(rd)
  BY <1>2, <1>5, Zenon DEF ToldFirst
<1> QED BY <1>4, <1>5, <1>6, <1>7, <1>8, OneReaderSteps, Zenon DEF Sound

(* The end of the history.                                                 *)
LEMMA HistoryReadKeeps ==
    ASSUME PollersInv, NEW p \in Pollers, HistoryRead(p) PROVE PollersInv'
<1> DEFINE rd == [poller[p] EXCEPT !.at = "live"]
<1>1. PollerTypes /\ Sound(poller[p]) /\ poller[p].at = "history" /\ poller[p].plan = <<>>
  BY Zenon DEF PollersInv, LogInv, ReaderInv, Sound, HistoryRead
<1>2. poller[p] \in PollerRecords
  BY <1>1, PollerFields, Zenon
<1>3. rd \in PollerRecords
  BY <1>2, Zenon DEF PollerRecords
<1>4. /\ rd.pos = poller[p].pos /\ rd.plan = poller[p].plan /\ rd.from = poller[p].from
      /\ rd.told = poller[p].told /\ rd.seen = poller[p].seen /\ rd.got = poller[p].got
  BY <1>2, Zenon DEF PollerRecords
<1>5. poller' = [poller EXCEPT ![p] = rd] /\ UNCHANGED <<seqKey, log, lastId, append, crossed, lost>>
  BY <1>1, Zenon DEF HistoryRead, PollerTypes
<1> HIDE DEF rd
<1>6. Sound(rd)
  BY <1>1, <1>4 DEF Sound, PlanFollows, SeenHandled, HandledKept, HadBefore, ToldFirst
<1> QED BY <1>3, <1>5, <1>6, OneReaderSteps, Zenon

(* An entry: the position moves over it, and it is delivered or passed.    *)
LEMMA HandleKeeps ==
    ASSUME PollersInv, NEW p \in Pollers, NEW where \in {"history", "live"}, Handle(p, where)
    PROVE  PollersInv'
<1> DEFINE old == poller[p]
           e == Head(old.plan)
           passed == [old EXCEPT !.plan = Tail(@), !.pos = e.id]
           taken == [passed EXCEPT !.seen = e.seq, !.got = @ \cup {e.seq},
                                   !.at = IF e.final THEN "ended" ELSE @]
           rd == IF e.seq <= old.seen THEN passed ELSE taken
           t == Tail(old.plan)
<1>1. PollerTypes /\ LogTypes /\ Sound(old) /\ old.at = where /\ old.plan # <<>>
  BY Zenon DEF PollersInv, LogInv, ReaderInv, Sound, Handle
<1>2. /\ old \in PollerRecords /\ old.pos \in Nat /\ old.seen \in Nat /\ old.plan \in Seq(Records)
      /\ old.got \subseteq Nat /\ DOMAIN old.plan = 1..Len(old.plan) /\ Len(old.plan) \in Nat
  BY <1>1, PollerFields, Zenon
<1>3. /\ e \in Records /\ e = old.plan[1] /\ t \in Seq(Records) /\ Len(t) = Len(old.plan) - 1
      /\ Len(old.plan) >= 1 /\ DOMAIN t = 1..Len(t) /\ \A i \in 1..Len(t) : t[i] = old.plan[i + 1]
  BY <1>1, <1>2
<1>4. e.id \in Nat \ {0} /\ e.seq \in Nat \ {0} /\ e.final \in BOOLEAN
  BY <1>3, Zenon DEF Records
<1>5. poller' = [poller EXCEPT ![p] = rd] /\ UNCHANGED <<seqKey, log, lastId, append, crossed, lost>>
  <2>1. passed.seen = old.seen
    BY <1>2, Zenon DEF PollerRecords
  <2> QED BY <2>1, Zenon DEF Handle
<1> HIDE DEF e, t
<1>6. passed \in PollerRecords /\ passed.plan = t /\ passed.pos = e.id /\ passed.seen = old.seen
      /\ passed.got = old.got /\ passed.from = old.from /\ passed.at = old.at /\ passed.told = old.told
  BY <1>2, <1>3, <1>4, Zenon DEF PollerRecords, t
<1> HIDE DEF passed
<1>7. taken \in PollerRecords /\ taken.plan = t /\ taken.pos = e.id /\ taken.seen = e.seq
      /\ taken.got = old.got \cup {e.seq} /\ taken.from = old.from /\ taken.told = old.told
  BY <1>2, <1>4, <1>6, Zenon DEF PollerRecords
<1> HIDE DEF taken
<1>8. /\ rd \in PollerRecords /\ rd.plan = t /\ rd.pos = e.id /\ rd.from = old.from
      /\ \/ rd.seen = old.seen /\ rd.got = old.got /\ e.seq <= old.seen
         \/ rd.seen = e.seq /\ rd.got = old.got \cup {e.seq} /\ ~(e.seq <= old.seen)
  BY <1>6, <1>7, Zenon
<1> HIDE DEF rd, old
<1>9. ToldFirst(rd)
  BY <1>4, <1>8, Zenon DEF ToldFirst
<1>10. ASSUME ~lost PROVE PlanFollows(rd) /\ SeenHandled(rd) /\ HandledKept(rd)
  <2>1. PlanFollows(old) /\ SeenHandled(old) /\ HandledKept(old) /\ NumbersUsedOnce /\ CrossedKnown
    BY <1>1, <1>10, Zenon DEF Sound, PollersInv, LogInv
  <2>2. Len(log) \in Nat /\ DOMAIN log = 1..Len(log)
    BY <1>1 DEF LogTypes
  <2>a. 1 \in 1..Len(old.plan) /\ \A i \in 1..Len(t) : i + 1 \in 1..Len(old.plan)
    BY <1>2, <1>3
  <2>b. /\ old.pos + Len(old.plan) <= Len(log)
        /\ \A i \in 1..Len(old.plan) : old.plan[i] = log[old.pos + i]
    BY <1>2, <2>1, Zenon DEF PlanFollows
  <2>3. e = log[old.pos + 1] /\ old.pos + 1 \in 1..Len(log)
    <3>1. old.pos + 1 \in 1..Len(log)
      BY <1>2, <1>3, <2>2, <2>b
    <3> QED BY <1>3, <2>a, <2>b, <3>1, Zenon
  <2>4. e.id = old.pos + 1
    BY <2>1, <2>2, <2>3, Zenon DEF NumbersUsedOnce
  <2>5. PlanFollows(rd)
    <3>1. \A i \in 1..Len(t) : t[i] = log[old.pos + (i + 1)]
      BY <1>3, <2>a, <2>b, Zenon
    <3>2. \A i \in 1..Len(t) : old.pos + (i + 1) = rd.pos + i
      <4>1. rd.pos = old.pos + 1 /\ old.pos \in Nat
        BY <1>2, <1>8, <2>4, Zenon
      <4> QED BY <4>1
    <3>3. rd.pos + Len(rd.plan) <= Len(log)
      BY <1>2, <1>3, <1>8, <2>1, <2>2, <2>4 DEF PlanFollows
    <3>4. \A i \in 1..Len(t) : t[i] = log[rd.pos + i]
      BY <3>1, <3>2, Zenon
    <3> QED BY <1>3, <1>8, <3>3, <3>4, Zenon DEF PlanFollows
  <2>6. /\ 1..rd.pos = 1..old.pos \cup {rd.pos} /\ log[rd.pos] = e /\ rd.pos \in 1..Len(log)
        /\ 1..old.pos \subseteq 1..Len(log) /\ \A j \in 1..old.pos : j < rd.pos
    BY <1>2, <1>8, <2>2, <2>3, <2>4
  <2>7. SeenHandled(rd)
    <3>1. CASE rd.seen = e.seq
      BY <2>6, <3>1, Zenon DEF SeenHandled
    <3>2. CASE rd.seen = old.seen
      BY <1>8, <2>1, <2>6, <3>2, Zenon DEF SeenHandled, HadBefore
    <3> QED BY <1>8, <3>1, <3>2, Zenon
  <2>8. e.seq \in rd.got \cup crossed \/ HadBefore(rd, e.seq)
    <3>1. CASE rd.got = old.got \cup {e.seq}
      BY <3>1, Zenon
    <3>2. CASE rd.seen = old.seen /\ e.seq <= old.seen
      <4>1. CASE old.seen = 0
        BY <1>4, <3>2, <4>1
      <4>2. CASE HadBefore(old, old.seen)
        <5>1. old.from \in Nat
          BY <1>1, <4>2, PollerFields, OutputStoreAssumption, Zenon DEF HadBefore, old
        <5> QED BY <1>2, <1>4, <1>8, <3>2, <4>2, <5>1 DEF HadBefore
      <4>3. CASE \E j \in 1..old.pos : log[j].seq = old.seen
        <5>1. PICK j \in 1..old.pos : log[j].seq = old.seen
          BY <4>3, Zenon
        <5>2. j \in DOMAIN log /\ rd.pos \in DOMAIN log /\ j < rd.pos
          BY <2>2, <2>6, Zenon
        <5>3. log[rd.pos].seq # log[j].seq
          BY <1>2, <2>1, <2>2, <2>4, <1>8, <5>2 DEF NumbersUsedOnce
        <5>4. log[rd.pos].seq < log[j].seq
          BY <1>2, <1>4, <2>6, <3>2, <5>1, <5>3
        <5> QED BY <2>1, <2>6, <5>2, <5>4, Zenon DEF CrossedKnown
      <4> QED BY <2>1, <4>1, <4>2, <4>3, Zenon DEF SeenHandled
    <3> QED BY <1>8, <3>1, <3>2, Zenon
  <2>9. HandledKept(rd)
    <3>1. \A i \in 1..old.pos : log[i].seq \in rd.got \cup crossed \/ HadBefore(rd, log[i].seq)
      BY <1>8, <2>1, Zenon DEF HandledKept, HadBefore
    <3> QED BY <2>6, <2>8, <3>1, Zenon DEF HandledKept
  <2> QED BY <2>5, <2>7, <2>9, Zenon
<1> QED BY <1>5, <1>8, <1>9, <1>10, OneReaderSteps, Zenon DEF Sound

(* A poll plans what follows the position, or is told of an error.         *)
LEMMA ReadLiveKeeps ==
    ASSUME PollersInv, NEW p \in Pollers, ReadLive(p) PROVE PollersInv'
<1> DEFINE old == poller[p]
           n == Len(log)
<1>1. /\ PollerTypes /\ LogTypes /\ Sound(old) /\ old.at = "live" /\ old.plan = <<>>
      /\ UNCHANGED <<seqKey, log, lastId, append, crossed, lost>>
  BY Zenon DEF PollersInv, LogInv, ReaderInv, Sound, ReadLive
<1>2. old \in PollerRecords /\ old.pos \in Nat /\ old.errors \in Nat
  BY <1>1, PollerFields, Zenon
<1>3. log \in Seq(Records) /\ n \in Nat /\ DOMAIN log = 1..n
  BY <1>1 DEF LogTypes
<1>4. CASE /\ old.errors < Errors
           /\ poller' = [poller EXCEPT ![p].told = TRUE, ![p].errors = @ + 1]
  <2> DEFINE more == old.errors + 1
             rd == [old EXCEPT !.told = TRUE, !.errors = more]
  <2>a. more \in Nat
    BY <1>2
  <2>3. poller' = [poller EXCEPT ![p] = rd]
    BY <1>1, <1>2, <1>4, Zenon DEF PollerTypes, PollerRecords
  <2> HIDE DEF more
  <2>1. rd \in PollerRecords
    BY <1>2, <2>a, Zenon DEF PollerRecords
  <2>2. /\ rd.pos = old.pos /\ rd.plan = old.plan /\ rd.from = old.from
        /\ rd.told = TRUE /\ rd.seen = old.seen /\ rd.got = old.got
    BY <1>2, Zenon DEF PollerRecords
  <2> HIDE DEF rd, old
  <2>4. Sound(rd)
    BY <1>1, <2>2 DEF Sound, PlanFollows, SeenHandled, HandledKept, HadBefore, ToldFirst
  <2> QED BY <1>1, <2>1, <2>3, <2>4, OneReaderSteps, Zenon
<1>5. ASSUME NEW i \in DOMAIN log, log[i].id > old.pos, \A j \in 1..(i - 1) : log[j].id <= old.pos,
             poller' = [poller EXCEPT ![p].plan = SubSeq(log, i, Len(log))]
      PROVE  PollersInv'
  <2> DEFINE t == SubSeq(log, i, n)
             rd == [old EXCEPT !.plan = t]
  <2>1. /\ t \in Seq(Records) /\ Len(t) = n - i + 1 /\ DOMAIN t = 1..(n - i + 1)
        /\ \A j \in 1..(n - i + 1) : t[j] = log[i + j - 1]
    <3>1. i \in 1..n
      BY <1>3, Zenon
    <3>2. \A j \in i..n : log[j] \in Records
      BY <1>3, <3>1
    <3> QED BY <1>3, <3>1, <3>2
  <2>2. i \in Nat /\ 1 <= i /\ i <= n
    BY <1>3
  <2> HIDE DEF t
  <2>3. rd \in PollerRecords
    BY <1>2, <2>1, Zenon DEF PollerRecords
  <2>4. /\ rd.pos = old.pos /\ rd.plan = t /\ rd.from = old.from
        /\ rd.told = old.told /\ rd.seen = old.seen /\ rd.got = old.got /\ rd.at = old.at
    BY <1>2, Zenon DEF PollerRecords
  <2>5. poller' = [poller EXCEPT ![p] = rd]
    BY <1>1, <1>5, Zenon DEF PollerTypes, t
  <2> HIDE DEF rd, old, n
  <2>7. ToldFirst(rd)
    BY <1>1, <2>4, Zenon DEF Sound, ToldFirst
  <2>8. ASSUME ~lost PROVE PlanFollows(rd) /\ SeenHandled(rd) /\ HandledKept(rd)
    <3>1. PlanFollows(old) /\ SeenHandled(old) /\ HandledKept(old) /\ NumbersUsedOnce
      BY <1>1, <2>8, Zenon DEF Sound, PollersInv, LogInv
    <3>2. \A j \in 1..n : log[j].id = j
      BY <1>3, <3>1, Zenon DEF NumbersUsedOnce
    <3>3. i = old.pos + 1
      <4>1. i > old.pos
        BY <1>3, <1>5, <3>2, Zenon
      <4>2. \A j \in 1..(i - 1) : j <= old.pos
        BY <1>5, <2>2, <1>3, <3>2
      <4> QED BY <1>2, <2>2, <4>1, <4>2
    <3>4. PlanFollows(rd)
      <4>1. \A j \in 1..(n - i + 1) : i + j - 1 = old.pos + j
        BY <1>2, <1>3, <3>3
      <4>2. \A j \in 1..(n - i + 1) : t[j] = log[old.pos + j]
        BY <2>1, <4>1, Zenon
      <4>3. old.pos + Len(t) <= n
        BY <1>2, <1>3, <2>1, <2>2, <3>3
      <4> QED BY <2>1, <2>4, <4>2, <4>3, Zenon DEF PlanFollows, n
    <3> QED BY <2>4, <3>1, <3>4, Zenon DEF SeenHandled, HandledKept, HadBefore
  <2> QED BY <1>1, <2>3, <2>5, <2>7, <2>8, OneReaderSteps, Zenon DEF Sound
<1> QED BY <1>4, <1>5, Zenon DEF ReadLive

(* Every step of appends, expiry and readers keeps the invariant.          *)
LEMMA StepPollers == ASSUME PollersInv, [StoreNext]_storeVars PROVE PollersInv'
<1>1. ASSUME NEW a \in Appends, Lock(a) \/ Incr(a) \/ Xadd(a) \/ Pexpire(a) \/ CommandFails(a)
      PROVE  PollersInv'
  <2>1. LogInv
    BY Zenon DEF PollersInv
  <2>2. LogInv'
    BY <1>1, <2>1, AppendKeeps, XaddKeeps, Zenon
  <2>3. /\ UNCHANGED <<poller, lost>> /\ crossed \subseteq crossed'
        /\ Len(log) \in Nat /\ Len(log') \in Nat /\ Len(log) <= Len(log')
        /\ \A i \in 1..Len(log) : log'[i] = log[i]
    BY <1>1, <2>1, LogGrows, Zenon
  <2>4. ~lost' => ReaderInv'
    BY <2>1, <2>3, ReadersStay, Zenon DEF PollersInv, LogInv
  <2>5. \A p \in Pollers : ToldFirst(poller[p])'
    BY <2>3, Zenon DEF PollersInv, ToldFirst
  <2> QED BY <2>2, <2>4, <2>5, Zenon DEF PollersInv
<1>2. ASSUME NEW k, KeyExpires(k) PROVE PollersInv'
  <2>1. LogInv' /\ lost'
    BY <1>2, ExpiryKeeps, Zenon DEF PollersInv
  <2>2. poller' = poller
    BY <1>2, Zenon DEF KeyExpires
  <2> QED BY <2>1, <2>2, Zenon DEF PollersInv, ToldFirst
<1>3. ASSUME NEW p \in Pollers, NEW from \in ResumeIds \cup {NoResume}, ReadHistory(p, from)
      PROVE  PollersInv'
  BY <1>3, ReadHistoryKeeps, Zenon
<1>4. ASSUME NEW p \in Pollers,
             Handle(p, "history") \/ HistoryRead(p) \/ ReadLive(p) \/ Handle(p, "live")
      PROVE  PollersInv'
  BY <1>4, HandleKeeps, HistoryReadKeeps, ReadLiveKeeps, Zenon
<1>5. CASE UNCHANGED storeVars
  <2>1. LogInv'
    BY <1>5, LogIdle, Zenon DEF storeVars, PollersInv, LogInv, PollerTypes
  <2>2. UNCHANGED <<poller, log, crossed, lost>>
    BY <1>5, Zenon DEF storeVars
  <2> QED BY <2>1, <2>2, Zenon DEF PollersInv, ReaderInv, PlanFollows, SeenHandled, HandledKept, HadBefore, ToldFirst
<1> QED BY <1>1, <1>2, <1>3, <1>4, <1>5, Zenon DEF StoreNext

(* The invariant gives what the readers are promised.                      *)
LEMMA PollersInvHonest == PollersInv => PollersHonest
<1> SUFFICES ASSUME PollersInv PROVE PollersHonest
  BY Zenon
<1>1. LogTypes /\ PollerTypes
  BY Zenon DEF PollersInv, LogInv
<1>2. Len(log) \in Nat /\ DOMAIN log = 1..Len(log)
  BY <1>1 DEF LogTypes
<1>3. OneRecordPerNumber
  BY Zenon DEF PollersInv, LogInv, NumbersUsedOnce, OneRecordPerNumber
<1>4. ASSUME NEW p \in Pollers, NEW i \in DOMAIN log, log[i].seq <= poller[p].seen, ~lost
      PROVE  \/ log[i].seq \in poller[p].got \cup crossed
             \/ poller[p].from # NoResume /\ log[i].seq <= poller[p].from
  <2> DEFINE rd == poller[p]
             s == log[i].seq
  <2>1. /\ PlanFollows(rd) /\ SeenHandled(rd) /\ HandledKept(rd) /\ CrossedKnown /\ NumbersUsedOnce
        /\ s \in Nat \ {0} /\ rd.seen \in Nat /\ rd.pos \in Nat /\ Len(rd.plan) \in Nat
        /\ rd.from \in ResumeIds \cup {NoResume}
    BY <1>1, <1>4, SeqFields, PollerFields, Zenon DEF PollersInv, LogInv, ReaderInv
  <2>2. i \in 1..Len(log) /\ rd.pos <= Len(log)
    BY <1>2, <2>1 DEF PlanFollows
  <2>3. CASE i \in 1..rd.pos
    BY <2>1, <2>3, Zenon DEF HandledKept, HadBefore
  <2>4. CASE i > rd.pos
    <3>1. CASE HadBefore(rd, rd.seen)
      <4>1. rd.from \in Nat /\ rd.from # NoResume /\ rd.seen <= rd.from
        BY <2>1, <3>1, OutputStoreAssumption, Zenon DEF HadBefore
      <4>2. s <= rd.from
        BY <1>4, <2>1, <4>1
      <4> QED BY <4>1, <4>2, Zenon
    <3>2. CASE \E j \in 1..rd.pos : log[j].seq = rd.seen
      <4>1. PICK j \in 1..rd.pos : log[j].seq = rd.seen
        BY <3>2, Zenon
      <4>2. j \in DOMAIN log /\ j < i
        BY <1>2, <2>1, <2>2, <2>4
      <4>3. log[i].seq # log[j].seq
        BY <2>1, <4>2, <1>2 DEF NumbersUsedOnce
      <4>4. log[i].seq < log[j].seq
        BY <1>4, <2>1, <4>1, <4>3
      <4> QED BY <2>1, <4>2, <4>4, Zenon DEF CrossedKnown
    <3> QED BY <1>4, <2>1, <3>1, <3>2 DEF SeenHandled
  <2> QED BY <2>1, <2>2, <2>3, <2>4
<1>5. PollersMissNothing
  BY <1>4, Zenon DEF PollersMissNothing, Logged
<1>6. ExpiredIsTold
  <2> SUFFICES ASSUME NEW p \in Pollers, poller[p].at = "live", poller[p].pos = 0,
                      poller[p].from \in ResumeIds \ {0}
               PROVE  poller[p].told
    BY Zenon DEF ExpiredIsTold
  <2> QED BY Zenon DEF PollersInv, ToldFirst
<1> QED BY <1>3, <1>5, <1>6, Zenon DEF PollersHonest

(* Until the job's keys expire no two records of the persistent output     *)
(* store share a number; a reader (output_stream.rs: the history, then     *)
(* polls past the last id) has passed over no record it did not have       *)
(* before, save one that two replicas wrote out of order; and one whose    *)
(* resume id names an expired job is told to resync: for any replicas,     *)
(* readers, ids and limits.                                                *)
THEOREM RedisReadersHonest == OutputStoreSpec => []PollersHonest
<1>1. PollersInv /\ [StoreNext]_storeVars => PollersInv'
  BY StepPollers, Zenon
<1> QED BY InitPollers, <1>1, PollersInvHonest, PTL DEF OutputStoreSpec

----------------------------------------------------------------------------
(* The sandbox of an embedded daemon.                                      *)

Versions == [file : FileRefs \cup {NoSource}, src : FileRefs \cup {NoSource},
             status : {"none", "candidate", "committed", "superseded"}]
Commits == [pc : {"free", "backup", "copy", "fill"},
            kind : {"none", "commit", "confirm", "saveAs"},
            id : Bytes \cup {0},
            target : FileRefs \cup SaveTargets \cup {NoSource},
            raced : BOOLEAN]

(* What the sandbox and the host hold: a version names a workspace file    *)
(* that exists, and none of the user's files is ever missing.              *)
SandboxShape ==
    /\ sbFiles \in [FileRefs -> Bytes \cup {0}]
    /\ hostFiles \in [FileRefs \cup SaveTargets -> Bytes \cup {0}]
    /\ sbVersions \in [Bytes -> Versions]
    /\ \A c \in Bytes : sbVersions[c] = NoVersion \/ sbVersions[c].file \in FileRefs
    /\ \A t \in FileRefs : hostFiles[t] # 0
    /\ commit \in Commits

(* What holds of the commit that has the mutex: the version it writes is   *)
(* registered and its file exists, the mode is the one it was checked      *)
(* under, and past the backup the target's content is in one, unless the   *)
(* target did not exist or the user saved over it since.                   *)
CommitInv ==
    /\ commit.pc = "free" => commit = NoCommit
    /\ commit.pc # "free" =>
          /\ commit.id \in Bytes
          /\ commit.target \in FileRefs \cup SaveTargets
          /\ sbVersions[commit.id].file \in FileRefs
    /\ commit.pc = "fill" => sbFiles[sbVersions[commit.id].file] # 0
    /\ commit.kind = "commit" => sbMode = "full"
    /\ (commit.pc = "copy" /\ hostFiles[commit.target] # 0 /\ ~commit.raced) =>
          <<commit.target, hostFiles[commit.target]>> \in backups
    /\ (commit.pc \in {"copy", "fill"} /\ commit.target \in FileRefs) =>
          \E b \in backups : b[1] = commit.target

(* A half-copied file of the user's has a backup, raced or not.            *)
HalfBackedUp ==
    \A t \in FileRefs : hostFiles[t] = -1 => \E b \in backups : b[1] = t

SandboxInv == SandboxShape /\ CommitInv /\ HalfBackedUp

(* Contents, and the mark of a half-copied file, are not the mark of a     *)
(* file that is not there.                                                 *)
LEMMA ByteFacts ==
    /\ Contents \subseteq Bytes
    /\ -1 \in Bytes /\ 1 \in Bytes /\ 0 \notin Bytes
    /\ \A c \in Contents : c # 0 /\ c # -1
BY SandboxAssumption DEF Bytes

(* What the fields of a commit's record are after one of them changes.     *)
LEMMA CommitFields ==
    /\ NoCommit \in Commits
    /\ \A k \in Commits, p \in {"free", "backup", "copy", "fill"} :
          LET j == [k EXCEPT !.pc = p]
          IN  /\ j \in Commits /\ j.pc = p /\ j.kind = k.kind /\ j.id = k.id
              /\ j.target = k.target /\ j.raced = k.raced
    /\ \A k \in Commits :
          LET j == [k EXCEPT !.raced = TRUE]
          IN  /\ j \in Commits /\ j.pc = k.pc /\ j.kind = k.kind /\ j.id = k.id
              /\ j.target = k.target /\ j.raced = TRUE
<1>1. NoCommit \in Commits
  BY DEF NoCommit, Commits
<1>2. ASSUME NEW k \in Commits, NEW p \in {"free", "backup", "copy", "fill"}
      PROVE  LET j == [k EXCEPT !.pc = p]
             IN  /\ j \in Commits /\ j.pc = p /\ j.kind = k.kind /\ j.id = k.id
                 /\ j.target = k.target /\ j.raced = k.raced
  BY DEF Commits
<1>3. ASSUME NEW k \in Commits
      PROVE  LET j == [k EXCEPT !.raced = TRUE]
             IN  /\ j \in Commits /\ j.pc = k.pc /\ j.kind = k.kind /\ j.id = k.id
                 /\ j.target = k.target /\ j.raced = TRUE
  BY Zenon DEF Commits
<1> QED
  BY <1>1, <1>2, <1>3

(* The session starts with every file of the user's in place.              *)
LEMMA SandboxStart == SandboxInit => SandboxInv
<1> SUFFICES ASSUME SandboxInit PROVE SandboxInv
  OBVIOUS
<1>1. SandboxShape
  BY ByteFacts, CommitFields
  DEF SandboxInit, SandboxShape, NoVersions, NoVersion, Versions, NoSource
<1>2. CommitInv
  BY DEF SandboxInit, CommitInv, NoCommit
<1>3. HalfBackedUp
  BY DEF SandboxInit, HalfBackedUp
<1> QED
  BY <1>1, <1>2, <1>3 DEF SandboxInv

(* Calls that hold the mutex from beginning to end start no commit and     *)
(* touch no host file (registry.rs: one lock per call).                    *)
LEMMA CallsKeep ==
    ASSUME SandboxInv,
           \/ \E m \in Modes : CreateSession(m) \/ UpdatePermission(m)
           \/ RegisterRuntime \/ ExecuteCommand \/ CommandEnds
           \/ \E r \in FileRefs : ImportFile(r)
           \/ \E f \in FileRefs, src \in FileRefs \cup {NoSource} : RegisterVersion(f, src)
    PROVE  SandboxInv'
<1> USE DEF SandboxInv
<1>1. ASSUME NEW m \in Modes, CreateSession(m)
      PROVE  SandboxInv'
  <2>1. SandboxShape'
    BY <1>1 DEF CreateSession, SandboxShape, NoVersions, NoVersion, Versions, NoSource
  <2>2. CommitInv'
    BY <1>1 DEF CreateSession, CommitInv, Free, NoCommit
  <2>3. HalfBackedUp'
    BY <1>1 DEF CreateSession, HalfBackedUp
  <2> QED
    BY <2>1, <2>2, <2>3
<1>2. ASSUME \/ \E m \in Modes : UpdatePermission(m)
             \/ RegisterRuntime \/ ExecuteCommand \/ CommandEnds
      PROVE  SandboxInv'
  <2>0. /\ UNCHANGED <<sbFiles, hostFiles, sbVersions, backups, commit>>
        /\ sbMode' = sbMode \/ Free
    BY <1>2 DEF UpdatePermission, RegisterRuntime, ExecuteCommand, CommandEnds, Disk, Session
  <2>1. SandboxShape'
    BY <2>0 DEF SandboxShape
  <2>2. CommitInv'
    BY <2>0 DEF CommitInv, Free, NoCommit
  <2>3. HalfBackedUp'
    BY <2>0 DEF HalfBackedUp
  <2> QED
    BY <2>1, <2>2, <2>3
<1>3. ASSUME NEW r \in FileRefs, ImportFile(r)
      PROVE  SandboxInv'
  <2>1. SandboxShape'
    BY <1>3 DEF ImportFile, SandboxShape
  <2>2. CommitInv'
    BY <1>3 DEF ImportFile, CommitInv, Free, NoCommit
  <2>3. HalfBackedUp'
    BY <1>3 DEF ImportFile, HalfBackedUp
  <2> QED
    BY <2>1, <2>2, <2>3
<1>4. ASSUME NEW f \in FileRefs, NEW src \in FileRefs \cup {NoSource}, RegisterVersion(f, src)
      PROVE  SandboxInv'
  <2>1. SandboxShape'
    BY <1>4 DEF RegisterVersion, SandboxShape, Versions, Disk, resolve_existing_sandbox_path
  <2>2. CommitInv'
    BY <1>4 DEF RegisterVersion, CommitInv, Free, NoCommit, Disk
  <2>3. HalfBackedUp'
    BY <1>4 DEF RegisterVersion, HalfBackedUp, Disk
  <2> QED
    BY <2>1, <2>2, <2>3
<1> QED
  BY <1>1, <1>2, <1>3, <1>4

(* A command writing in the workspace and the user saving a host file run  *)
(* beside a commit.                                                        *)
LEMMA WritersKeep ==
    ASSUME SandboxInv, NEW f \in FileRefs, NEW c \in Contents,
           CommandWrites(f, c) \/ UserEdits(f, c)
    PROVE  SandboxInv'
<1> USE DEF SandboxInv
<1>0. c \in Bytes /\ c # 0 /\ c # -1
  BY ByteFacts
<1>1. CASE CommandWrites(f, c)
  <2>1. SandboxShape'
    BY <1>0, <1>1 DEF CommandWrites, SandboxShape, Session
  <2>2. CommitInv'
    BY <1>0, <1>1 DEF CommandWrites, CommitInv, SandboxShape, Session
  <2>3. HalfBackedUp'
    BY <1>1 DEF CommandWrites, HalfBackedUp, Session
  <2> QED
    BY <2>1, <2>2, <2>3
<1>2. CASE UserEdits(f, c)
  <2>0. commit \in Commits
    BY DEF SandboxShape
  <2>1. commit' = commit \/ commit' = [commit EXCEPT !.raced = TRUE]
    BY <1>2, Zenon DEF UserEdits
  <2>2. /\ commit'.pc = commit.pc /\ commit'.kind = commit.kind
        /\ commit'.id = commit.id /\ commit'.target = commit.target
        /\ commit.pc # "copy" => commit' = commit
        /\ commit.pc = "copy" =>
              \/ commit'.raced
              \/ commit.target # f /\ commit'.raced = commit.raced
    BY <1>2, <2>0, CommitFields, Zenon DEF UserEdits
  <2>3. commit' \in Commits
    BY <2>0, <2>1, CommitFields, Zenon
  <2>4. SandboxShape'
    BY <1>0, <1>2, <2>3 DEF UserEdits, SandboxShape, Session
  <2>5. CommitInv'
    BY <1>2, <2>2 DEF UserEdits, CommitInv, SandboxShape, Session
  <2>6. HalfBackedUp'
    BY <1>0, <1>2 DEF UserEdits, HalfBackedUp, SandboxShape
  <2> QED
    BY <2>4, <2>5, <2>6
<1> QED
  BY <1>1, <1>2

(* The steps of a commit (commit_registered_version).                      *)
LEMMA CommitKeeps ==
    ASSUME SandboxInv,
           \/ \E id \in Bytes, kind \in {"commit", "confirm", "saveAs"},
                 t \in FileRefs \cup SaveTargets : CommitStart(id, kind, t)
           \/ CommitBackup \/ CommitTruncate \/ CommitFill \/ CommitFails
    PROVE  SandboxInv'
<1> USE DEF SandboxInv
<1>1. ASSUME NEW id \in Bytes, NEW kind \in {"commit", "confirm", "saveAs"},
             NEW t \in FileRefs \cup SaveTargets, CommitStart(id, kind, t)
      PROVE  SandboxInv'
  <2>1. SandboxShape'
    BY <1>1 DEF CommitStart, SandboxShape, Commits, Session, Disk
  <2>2. CommitInv'
    BY <1>1 DEF CommitStart, CommitInv, SandboxShape, RequiresFull, Session, Disk
  <2>3. HalfBackedUp'
    BY <1>1 DEF CommitStart, HalfBackedUp, Disk
  <2> QED
    BY <2>1, <2>2, <2>3
<1>2. ASSUME CommitBackup
      PROVE  SandboxInv'
  <2>1. SandboxShape'
    <3>1. commit' \in Commits
      <4>1. [commit EXCEPT !.pc = "copy"] \in Commits
        BY DEF SandboxShape, Commits
      <4> QED
        BY <1>2, <4>1, CommitFields, Zenon DEF CommitBackup
    <3>2. UNCHANGED <<sbFiles, hostFiles, sbVersions>>
      BY <1>2 DEF CommitBackup, Session
    <3> QED
      BY <3>1, <3>2 DEF SandboxShape
  <2>2. backups \subseteq backups'
    BY <1>2 DEF CommitBackup
  <2>3. ASSUME commit' = NoCommit
        PROVE  CommitInv'
    BY <2>3 DEF CommitInv, NoCommit
  <2>4. ASSUME /\ backups' = IF hostFiles[commit.target] = 0 THEN backups
                             ELSE backups \cup {<<commit.target, hostFiles[commit.target]>>}
               /\ commit' = [commit EXCEPT !.pc = "copy"]
        PROVE  CommitInv'
    <3>1. /\ commit'.pc = "copy" /\ commit'.kind = commit.kind
          /\ commit'.id = commit.id /\ commit'.target = commit.target
          /\ UNCHANGED <<sbFiles, hostFiles, sbVersions, sbMode>>
      BY <1>2, <2>4, CommitFields DEF CommitBackup, SandboxShape, Session
    <3>2. hostFiles[commit.target] # 0 =>
             <<commit.target, hostFiles[commit.target]>> \in backups'
      BY <2>4
    <3>3. commit.target \in FileRefs => \E b \in backups' : b[1] = commit.target
      BY <3>2 DEF SandboxShape
    <3> QED
      BY <1>2, <3>1, <3>2, <3>3 DEF CommitInv, CommitBackup
  <2>5. CommitInv'
    BY <1>2, <2>3, <2>4 DEF CommitBackup
  <2>6. HalfBackedUp'
    BY <1>2, <2>2 DEF CommitBackup, HalfBackedUp
  <2> QED
    BY <2>1, <2>5, <2>6
<1>3. ASSUME CommitTruncate
      PROVE  SandboxInv'
  <2>1. SandboxShape'
    <3>1. commit' \in Commits
      BY <1>3 DEF CommitTruncate, SandboxShape, Commits
    <3>2. UNCHANGED <<sbFiles, sbVersions>>
      BY <1>3 DEF CommitTruncate, Session
    <3>3. /\ hostFiles' \in [FileRefs \cup SaveTargets -> Bytes \cup {0}]
          /\ \A t \in FileRefs : hostFiles'[t] # 0
      <4>1. hostFiles' = [hostFiles EXCEPT ![commit.target] = -1]
        BY <1>3 DEF CommitTruncate
      <4>2. hostFiles \in [FileRefs \cup SaveTargets -> Bytes \cup {0}] /\ -1 \in Bytes \cup {0}
        BY ByteFacts DEF SandboxShape
      <4>3. hostFiles' \in [FileRefs \cup SaveTargets -> Bytes \cup {0}]
        BY <4>1, <4>2, Zenon
      <4>4. \A t \in FileRefs : hostFiles'[t] # 0
        BY <4>1 DEF SandboxShape
      <4> QED
        BY <4>3, <4>4
    <3> QED
      BY <3>1, <3>2, <3>3, Zenon DEF SandboxShape
  <2>2. CommitInv'
    <3>1. /\ commit'.pc = "fill" /\ commit'.kind = commit.kind
          /\ commit'.id = commit.id /\ commit'.target = commit.target
      BY <1>3, CommitFields, Zenon DEF CommitTruncate, SandboxShape
    <3> QED
      BY <1>3, <3>1 DEF CommitTruncate, CommitInv, Session
  <2>3. HalfBackedUp'
    BY <1>3 DEF CommitTruncate, CommitInv, HalfBackedUp, SandboxShape
  <2> QED
    BY <2>1, <2>2, <2>3
<1>4. ASSUME CommitFill
      PROVE  SandboxInv'
  <2>0. /\ commit.id \in Bytes
        /\ commit.target \in FileRefs \cup SaveTargets
        /\ sbVersions[commit.id].file \in FileRefs
        /\ sbFiles[sbVersions[commit.id].file] \in Bytes
    BY <1>4 DEF CommitFill, CommitInv, SandboxShape
  <2>1. \A c \in Bytes :
           /\ sbVersions'[c] \in Versions
           /\ sbVersions'[c] = NoVersion \/ sbVersions'[c].file \in FileRefs
    BY <1>4, <2>0 DEF CommitFill, mark_version_committed, SandboxShape, NoVersion, Versions
  <2>2. SandboxShape'
    <3>1. commit' \in Commits /\ sbFiles' = sbFiles
      BY <1>4, CommitFields DEF CommitFill
    <3>2. sbVersions' = [c \in Bytes |-> sbVersions'[c]]
      BY <1>4, Zenon DEF CommitFill, mark_version_committed
    <3>3. sbVersions' \in [Bytes -> Versions]
      BY <2>1, <3>2, Zenon
    <3>4. /\ hostFiles' \in [FileRefs \cup SaveTargets -> Bytes \cup {0}]
          /\ \A t \in FileRefs : hostFiles'[t] # 0
      BY <1>4, <2>0, ByteFacts DEF CommitFill, SandboxShape
    <3> QED
      BY <2>1, <3>1, <3>3, <3>4, Zenon DEF SandboxShape
  <2>3. CommitInv'
    BY <1>4 DEF CommitFill, CommitInv, NoCommit
  <2>4. HalfBackedUp'
    BY <1>4 DEF CommitFill, CommitInv, HalfBackedUp, SandboxShape
  <2> QED
    BY <2>2, <2>3, <2>4
<1>5. ASSUME CommitFails
      PROVE  SandboxInv'
  <2>1. SandboxShape'
    BY <1>5, CommitFields DEF CommitFails, SandboxShape, Session, Disk
  <2>2. CommitInv'
    BY <1>5 DEF CommitFails, CommitInv, NoCommit
  <2>3. HalfBackedUp'
    BY <1>5 DEF CommitFails, HalfBackedUp, Disk
  <2> QED
    BY <2>1, <2>2, <2>3
<1> QED
  BY <1>1, <1>2, <1>3, <1>4, <1>5

(* Every step of the sandbox keeps the invariant.                          *)
LEMMA SandboxStep ==
    ASSUME SandboxInv, [SandboxNext]_sandboxVars
    PROVE  SandboxInv'
<1>1. CASE SandboxNext
  BY <1>1, CallsKeep, WritersKeep, CommitKeeps, Zenon DEF SandboxNext
<1>2. CASE UNCHANGED sandboxVars
  BY <1>2 DEF sandboxVars, SandboxInv, SandboxShape, CommitInv, HalfBackedUp
<1> QED
  BY <1>1, <1>2

(* The copy of a commit is the one step that truncates a host file, and    *)
(* finds the content it destroys in a backup.                              *)
LEMMA TruncatesBackedUp ==
    ASSUME SandboxInv, SandboxNext
    PROVE  BackedUp
<1> SUFFICES ASSUME NEW t \in DOMAIN hostFiles, commit.pc = "copy",
                    hostFiles'[t] = -1, hostFiles[t] > 0
             PROVE  <<t, hostFiles[t]>> \in backups \/ commit.raced
  BY DEF BackedUp
<1>0. hostFiles' # hostFiles
  OBVIOUS
<1>1. CASE CommitTruncate
  BY <1>1 DEF CommitTruncate, CommitInv, SandboxInv, SandboxShape
<1>2. ASSUME NEW f \in FileRefs, NEW c \in Contents, UserEdits(f, c)
      PROVE  FALSE
  BY <1>2, ByteFacts DEF UserEdits, SandboxInv, SandboxShape
<1>3. ~CommitFill
  BY DEF CommitFill
<1> QED
  BY <1>0, <1>1, <1>2, <1>3, Zenon
  DEF SandboxNext, CreateSession, UpdatePermission, RegisterRuntime, ExecuteCommand,
      CommandEnds, ImportFile, CommandWrites, RegisterVersion, CommitStart, CommitBackup,
      CommitFails, Disk

(* mark_version_committed leaves no other candidate of the source, and no  *)
(* other step that ends a commit changes the versions.                     *)
LEMMA CommitSupersedes ==
    ASSUME SandboxInv, SandboxNext
    PROVE  OthersSuperseded
<1> SUFFICES ASSUME commit.pc = "fill", commit'.pc = "free", commit.kind # "saveAs",
                    sbVersions' # sbVersions, NEW c \in Bytes \ {commit.id},
                    sbVersions'[c].src = sbVersions[commit.id].src
             PROVE  sbVersions'[c].status # "candidate"
  BY DEF OthersSuperseded
<1>1. CASE CommitFill
  BY <1>1 DEF CommitFill, mark_version_committed, SandboxInv, SandboxShape
<1> QED
  BY <1>1, Zenon
  DEF SandboxNext, CreateSession, UpdatePermission, RegisterRuntime, ExecuteCommand,
      CommandEnds, ImportFile, CommandWrites, UserEdits, RegisterVersion, CommitStart,
      CommitBackup, CommitTruncate, CommitFails, Session, Free

(* The sandbox never destroys a content of the user's it has no backup of, *)
(* never commits on a permission that was taken back, leaves a half-copied *)
(* file restorable and no rival candidate behind (sandbox/commit.rs).      *)
THEOREM SandboxKeepsWord == SandboxSpec => SandboxKeepsFiles
<1>1. SandboxInit => SandboxInv
  BY SandboxStart
<1>2. SandboxInv /\ [SandboxNext]_sandboxVars => SandboxInv'
  BY SandboxStep
<1>3. SandboxInv => FullToTheEnd /\ Restorable
  BY DEF SandboxInv, CommitInv, HalfBackedUp, FullToTheEnd, Restorable
<1>4. SandboxInv /\ SandboxNext => BackedUp /\ OthersSuperseded
  BY TruncatesBackedUp, CommitSupersedes
<1> QED
  BY <1>1, <1>2, <1>3, <1>4, PTL DEF SandboxSpec, SandboxKeepsFiles
=============================================================================
