----------------------------- MODULE EngineLoop -----------------------------
(***************************************************************************)
(* The life of the process: the loop of thread_logic::run with its signal, *)
(* its shutdown hook and its exit, the watchdog of                         *)
(* src/common/thread_loop.h, and hot update as a step of each turn.        *)
(*                                                                         *)
(* run_times only grows and is only compared with 0 and with               *)
(* run_last_times, so two flags stand for the two counters.  Scripts may   *)
(* never return (`stuck').  Time is counted in parts of the interval of    *)
(* the watchdog, in counters that stop at Interval.                        *)
(***************************************************************************)
EXTENDS HotUpdate

CONSTANT Interval  \* thread_loop.h:19: 99 seconds

ASSUME EngineAssumption == Interval \in Nat \ {0}

VARIABLES
    shutdown_requested,  \* set by the handler of SIGTERM and SIGINT
    pc,       \* the loop: "check", "turn", "handlers", "hot", "hook"
    started,  \* run_times # 0
    moved,    \* run_times # run_last_times
    wdPc,     \* the watchdog: "sleep", "look", "store"
    slept,    \* how long it has slept
    quiet,    \* the time since run_times was last incremented
    stuck,    \* a script does not return
    ended,    \* "no", "hook", "watchdog": what ended the process
    late      \* turns begun after the signal

watchVars == <<wdPc, slept>>
loopVars == <<shutdown_requested, pc, started, moved, stuck, late>>
engineVars == <<vars, loopVars, watchVars, quiet, ended>>

\* main has initialised every part and starts the threads.
EngineInit ==
    /\ Init
    /\ shutdown_requested = FALSE /\ pc = "check"
    /\ started = FALSE /\ moved = FALSE
    /\ wdPc = "sleep" /\ slept = 0 /\ quiet = 0
    /\ stuck = FALSE /\ ended = "no" /\ late = 0

Later(t) == IF t < Interval THEN t + 1 ELSE t

-----------------------------------------------------------------------------
(* Around the loop *)

Tick ==
    /\ slept' = IF wdPc = "sleep" THEN Later(slept) ELSE slept
    /\ quiet' = Later(quiet)
    /\ UNCHANGED <<vars, loopVars, wdPc, ended>>

Signal ==
    /\ ~shutdown_requested
    /\ shutdown_requested' = TRUE
    /\ UNCHANGED <<vars, pc, started, moved, stuck, late, watchVars, quiet, ended>>

Surroundings ==
    /\ Second \/ Edit \/ RemoveFile
    /\ UNCHANGED <<loopVars, watchVars, quiet, ended>>

Watcher ==
    /\ HotStat \/ HotCompare
    /\ UNCHANGED <<loopVars, watchVars, quiet, ended>>

-----------------------------------------------------------------------------
(* thread_logic::run *)

\* Seeded bug: the flag is only looked at before the first turn.
CheckFirst ==
    /\ pc = "check"
    /\ pc' = IF shutdown_requested /\ ~started THEN "hook" ELSE "turn"
    /\ UNCHANGED <<vars, shutdown_requested, started, moved, stuck, late,
                   watchVars, quiet, ended>>

Check ==
    /\ pc = "check"
    /\ pc' = IF shutdown_requested THEN "hook" ELSE "turn"
    /\ UNCHANGED <<vars, shutdown_requested, started, moved, stuck, late,
                   watchVars, quiet, ended>>

\* sleep1, run_times++.
Turn ==
    /\ pc = "turn"
    /\ started' = TRUE /\ moved' = TRUE /\ quiet' = 0
    /\ late' = IF shutdown_requested THEN late + 1 ELSE late
    /\ pc' = "handlers"
    /\ UNCHANGED <<vars, shutdown_requested, stuck, watchVars, ended>>

\* handle_io, handle_inner, handle_admin, handle_time: the scripts run.
Handlers ==
    /\ pc = "handlers" /\ ~stuck
    /\ pc' = "hot"
    /\ UNCHANGED <<vars, shutdown_requested, started, moved, stuck, late,
                   watchVars, quiet, ended>>

\* hot_update, the last part of a turn.
Hot ==
    /\ pc = "hot" /\ ~stuck
    /\ NeedHot \/ CopyTime \/ Load
    /\ pc' = IF lgPc' = "loop" THEN "check" ELSE "hot"
    /\ UNCHANGED <<shutdown_requested, started, moved, stuck, late, watchVars,
                   quiet, ended>>

\* call_shutdown_hook has returned, with or without an error; exit(0).
HookReturns ==
    /\ pc = "hook" /\ ~stuck
    /\ ended' = "hook"
    /\ UNCHANGED <<vars, loopVars, watchVars, quiet>>

Hang ==
    /\ ~stuck
    /\ pc \in {"handlers", "hook"} \/ (pc = "hot" /\ lgPc = "load")
    /\ stuck' = TRUE
    /\ UNCHANGED <<vars, shutdown_requested, pc, started, moved, late,
                   watchVars, quiet, ended>>

-----------------------------------------------------------------------------
(* thread_loop::run *)

\* Seeded bug: the watchdog does not wait between two looks.
WakeAtOnce ==
    /\ wdPc = "sleep"
    /\ wdPc' = "look"
    /\ UNCHANGED <<vars, loopVars, slept, quiet, ended>>

Wake ==
    /\ wdPc = "sleep" /\ slept = Interval
    /\ wdPc' = "look"
    /\ UNCHANGED <<vars, loopVars, slept, quiet, ended>>

\* Seeded bug: a loop that moved is looked at no more.
LookOnce ==
    /\ wdPc = "look"
    /\ IF started /\ ~moved THEN ended' = "watchdog" /\ UNCHANGED wdPc
                            ELSE wdPc' = "done" /\ UNCHANGED ended
    /\ UNCHANGED <<vars, loopVars, slept, quiet>>

\* The loop has turned before but not since the last look: the process ends.
Look ==
    /\ wdPc = "look"
    /\ IF started /\ ~moved THEN ended' = "watchdog" /\ UNCHANGED wdPc
                            ELSE wdPc' = "store" /\ UNCHANGED ended
    /\ UNCHANGED <<vars, loopVars, slept, quiet>>

\* run_last_times = run_times, which may have grown since the comparison.
Store ==
    /\ wdPc = "store"
    /\ moved' = FALSE
    /\ wdPc' = "sleep" /\ slept' = 0
    /\ UNCHANGED <<vars, shutdown_requested, pc, started, stuck, late, quiet, ended>>

-----------------------------------------------------------------------------
Loop == Check \/ Turn \/ Handlers \/ Hot \/ HookReturns
Watchdog == Wake \/ Look \/ Store

Next ==
    /\ ended = "no"
    /\ Tick \/ Signal \/ Surroundings \/ Watcher \/ Loop \/ Hang \/ Watchdog

(***************************************************************************)
(* The three threads go on unless a script holds the logic, and time       *)
(* passes.  Nobody is obliged to edit, to signal or to hang.               *)
(***************************************************************************)
Fairness ==
    /\ WF_engineVars(ended = "no" /\ Tick)
    /\ WF_engineVars(ended = "no" /\ Watcher)
    /\ WF_engineVars(ended = "no" /\ Loop)
    /\ WF_engineVars(ended = "no" /\ Watchdog)

EngineSpec == EngineInit /\ [][Next]_engineVars /\ Fairness

-----------------------------------------------------------------------------
(* Properties *)

EngineTypeOK ==
    /\ TypeOK
    /\ pc \in {"check", "turn", "handlers", "hot", "hook"}
    /\ wdPc \in {"sleep", "look", "store"}
    /\ {slept, quiet} \subseteq 0 .. Interval
    /\ {shutdown_requested, started, moved, stuck} \subseteq BOOLEAN
    /\ ended \in {"no", "hook", "watchdog"} /\ late \in Nat

(***************************************************************************)
(* The watchdog ends only a process whose loop has not begun a turn for a  *)
(* whole interval, although the loop may turn between its comparison and   *)
(* its store (thread_loop.h:23, :45); a hook or a script is cut short by   *)
(* it only after that long.                                                *)
(***************************************************************************)
WatchdogJustified == ended = "watchdog" => quiet = Interval

(***************************************************************************)
(* After the signal at most one more turn begins: the one that had passed  *)
(* the check (thread_logic.cpp:124).                                       *)
(***************************************************************************)
ShutdownPrompt == late <= 1

(***************************************************************************)
(* The logic loop reloads once per change and begins no turn it should not. *)
(***************************************************************************)
EngineSound == EngineTypeOK /\ ReloadedOncePerChange /\ ShutdownPrompt

(***************************************************************************)
(* A process that was told to end, or whose scripts never return, ends,    *)
(* the hook included: the watchdog covers it.  Not one whose hook hangs    *)
(* before the first turn, when run_times is 0 (thread_loop.h:23).          *)
(***************************************************************************)
ProcessEnds ==
    (started /\ (shutdown_requested \/ stuck)) ~> ended # "no"

(***************************************************************************)
(* An edit of an existing file in a later second than the last one, made   *)
(* when both threads had taken their first look, is loaded, unless the     *)
(* file changes again first or the process ends (thread_hot.h:10-36).      *)
(***************************************************************************)
WatchedEditLoaded ==
    \A v \in 1 .. MaxEdits :
        v \in due ~> (loaded = v \/ version # v \/ mtime = 0
                      \/ stuck \/ shutdown_requested \/ ended # "no")
=============================================================================
