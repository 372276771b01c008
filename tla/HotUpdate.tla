----------------------------- MODULE HotUpdate -----------------------------
(***************************************************************************)
(* Hot update of the main Lua file: the watching thread of                 *)
(* src/common/thread_hot.h, and thread_logic::hot_update, which compares   *)
(* what the watcher has stored with its own copy.  Loads and stores of     *)
(* time_modify and looks at the file are steps of their own.  EngineLoop   *)
(* composes them with the rest of the loop of the logic.                   *)
(***************************************************************************)
EXTENDS Integers

CONSTANTS MaxTime,     \* bound: seconds the clock counts
          MaxEdits,    \* bound: times the file is written
          MaxRemoves   \* bound: times the file is removed

ASSUME HotAssumption == MaxTime \in Nat \ {0} /\ MaxEdits \in Nat /\ MaxRemoves \in Nat

VARIABLES
    now,          \* the clock, in seconds
    version,      \* what the file holds: the number of the last edit
    mtime,        \* its modification time, 0 while the file does not exist
    time_modify,  \* of the watcher, read by the logic
    hotPc,        \* where the watcher is
    tmp,          \* its local tmp
    hot_time,     \* of the logic
    lgPc,         \* where hot_update is
    ret,          \* the local of need_hot
    loaded,       \* the version the logic has loaded
    removes,
    reloads,      \* calls of luaL_loadfile in hot_update
    due           \* edits made while both threads had a time to compare with

fileVars == <<now, version, mtime, removes, due>>
hotVars == <<time_modify, hotPc, tmp>>
lgVars == <<hot_time, lgPc, ret, loaded, reloads>>
vars == <<fileVars, hotVars, lgVars>>

\* thread_logic::init has loaded the file.
Init ==
    /\ now = 1 /\ version = 0 /\ mtime = 1 /\ removes = 0 /\ due = {}
    /\ time_modify = 0 /\ hotPc = "sleep" /\ tmp = 0
    /\ hot_time = 0 /\ lgPc = "loop" /\ ret = FALSE
    /\ loaded = 0 /\ reloads = 0

-----------------------------------------------------------------------------
(* The file system *)

Second ==
    /\ now < MaxTime
    /\ now' = now + 1
    /\ UNCHANGED <<version, mtime, removes, due, hotVars, lgVars>>

Edit ==
    /\ version < MaxEdits
    /\ version' = version + 1
    /\ mtime' = now
    /\ due' = IF hot_time # 0 /\ mtime # 0 /\ mtime < now
              THEN due \union {version'} ELSE due
    /\ UNCHANGED <<now, removes, hotVars, lgVars>>

RemoveFile ==
    /\ removes < MaxRemoves
    /\ mtime # 0
    /\ mtime' = 0
    /\ removes' = removes + 1
    /\ UNCHANGED <<now, version, due, hotVars, lgVars>>

-----------------------------------------------------------------------------
(* thread_hot::run *)

\* Seeded bug: a stat that fails gives -1.
HotStatError ==
    /\ hotPc = "sleep"
    /\ tmp' = IF mtime = 0 THEN -1 ELSE mtime
    /\ hotPc' = "compare"
    /\ UNCHANGED <<fileVars, time_modify, lgVars>>

\* A stat that fails leaves the time 0.
HotStat ==
    /\ hotPc = "sleep"
    /\ tmp' = mtime
    /\ hotPc' = "compare"
    /\ UNCHANGED <<fileVars, time_modify, lgVars>>

\* Seeded bug: the time is only stored once.
HotCompareFirst ==
    /\ hotPc = "compare"
    /\ time_modify' = IF time_modify = 0 THEN tmp ELSE time_modify
    /\ hotPc' = "sleep"
    /\ UNCHANGED <<fileVars, tmp, lgVars>>

HotCompare ==
    /\ hotPc = "compare"
    /\ time_modify' = tmp
    /\ hotPc' = "sleep"
    /\ UNCHANGED <<fileVars, tmp, lgVars>>

-----------------------------------------------------------------------------
(* thread_logic::hot_update *)

\* need_hot: the first read of time_modify.
NeedHot ==
    /\ lgPc = "loop"
    /\ IF time_modify = hot_time
       THEN UNCHANGED <<lgPc, ret>>
       ELSE /\ ret' = (hot_time # 0)
            /\ lgPc' = "copy"
    /\ UNCHANGED <<fileVars, hotVars, hot_time, loaded, reloads>>

\* Seeded bug: the copy is only made the first time.
CopyTimeOnce ==
    /\ lgPc = "copy"
    /\ hot_time' = IF ret THEN hot_time ELSE time_modify
    /\ lgPc' = IF ret THEN "load" ELSE "loop"
    /\ UNCHANGED <<fileVars, hotVars, ret, loaded, reloads>>

\* need_hot: the second read.
CopyTime ==
    /\ lgPc = "copy"
    /\ hot_time' = time_modify
    /\ lgPc' = IF ret THEN "load" ELSE "loop"
    /\ UNCHANGED <<fileVars, hotVars, ret, loaded, reloads>>

\* Without the file, what was loaded before stays.
Load ==
    /\ lgPc = "load"
    /\ loaded' = IF mtime # 0 THEN version ELSE loaded
    /\ reloads' = reloads + 1
    /\ lgPc' = "loop"
    /\ ret' = FALSE
    /\ UNCHANGED <<fileVars, hotVars, hot_time>>

-----------------------------------------------------------------------------
(* Properties *)

TypeOK ==
    /\ {now, mtime, time_modify, tmp, hot_time} \subseteq 0 .. MaxTime
    /\ {version, loaded} \union due \subseteq 0 .. MaxEdits
    /\ removes \in 0 .. MaxRemoves /\ reloads \in Nat
    /\ hotPc \in {"sleep", "compare"} /\ lgPc \in {"loop", "copy", "load"}
    /\ ret \in BOOLEAN

(***************************************************************************)
(* The logic loads the file at most once for each change of the file,      *)
(* although the watcher may store a new time between the two reads of      *)
(* need_hot (thread_hot.h:27, :33).                                        *)
(***************************************************************************)
ReloadedOncePerChange == reloads <= version + removes
=============================================================================
