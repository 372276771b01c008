---------------------------- MODULE EngineProofs ----------------------------
(***************************************************************************)
(* The life of the process, for every clock, number of edits and interval  *)
(* of the watchdog: what the loop reloads, when the watchdog may end it,   *)
(* and how soon it obeys the signal.  Then its log, for every size of the  *)
(* rings and of the table and every set of names: where each line goes,    *)
(* and what the files begin with.                                          *)
(***************************************************************************)
EXTENDS EngineLoop, ThreadLog, TLAPS

(***************************************************************************)
(* Where two neighbours of the chain hot_time, time_modify, tmp, mtime     *)
(* differ, a change is on its way to the logic.                            *)
(***************************************************************************)
Differ(a, b) == IF a = b THEN 0 ELSE 1

InWatcher ==
    IF hotPc = "sleep" THEN Differ(time_modify, mtime)
                       ELSE Differ(time_modify, tmp) + Differ(tmp, mtime)

\* Between the two reads of need_hot the decision is taken, the copy is not.
InLogic ==
    IF lgPc = "copy" THEN IF ret THEN 1 ELSE 0
    ELSE Differ(hot_time, time_modify) + (IF lgPc = "load" THEN 1 ELSE 0)

(***************************************************************************)
(* Every change of the file pays for one reload; the time the file has at  *)
(* the start is a change nobody paid for, and the logic takes it over      *)
(* without a reload because its own copy is still 0.                       *)
(***************************************************************************)
ReloadsPaid ==
    \/ /\ lgPc = "loop" /\ hot_time = 0 /\ reloads = 0
       /\ InLogic + InWatcher <= version + removes + 1
    \/ reloads + InLogic + InWatcher <= version + removes

\* What the watchdog may conclude from a counter that has not moved.
WatchdogInv ==
    /\ wdPc # "sleep" => slept = Interval
    /\ started /\ ~moved => quiet >= slept
    /\ WatchdogJustified

\* The turn that began after the signal is the last.
SignalInv ==
    /\ late <= 1
    /\ late = 1 => shutdown_requested /\ pc # "turn"

EngineInv == EngineTypeOK /\ ReloadsPaid /\ WatchdogInv /\ SignalInv

LEMMA InitEngine == EngineInit => EngineInv
<1> SUFFICES ASSUME EngineInit PROVE EngineInv
  OBVIOUS
<1> USE HotAssumption, EngineAssumption DEF EngineInit, Init
<1>1. TypeOK
  <2>1. ret \in BOOLEAN
    BY Zenon
  <2> QED
    BY <2>1 DEF TypeOK
<1>2. {shutdown_requested, started, moved, stuck} \subseteq BOOLEAN
  BY Zenon
<1>3. EngineTypeOK
  BY <1>1, <1>2 DEF EngineTypeOK
<1>4. ReloadsPaid
  BY DEF ReloadsPaid, InLogic, InWatcher, Differ
<1>5. WatchdogInv /\ SignalInv
  BY DEF WatchdogInv, WatchdogJustified, SignalInv
<1> QED
  BY <1>3, <1>4, <1>5 DEF EngineInv

\* Time, the signal and scripts that do not return.
LEMMA AroundStep ==
    EngineInv /\ ended = "no" /\ (Tick \/ Signal \/ Hang) => EngineInv'
<1> SUFFICES ASSUME EngineInv, ended = "no", Tick \/ Signal \/ Hang
             PROVE  EngineInv'
  OBVIOUS
<1> USE EngineAssumption DEF EngineInv
<1>1. UNCHANGED vars
  BY DEF Tick, Signal, Hang
<1>2. TypeOK' /\ ReloadsPaid'
  BY <1>1 DEF EngineTypeOK, TypeOK, ReloadsPaid, InLogic, InWatcher, vars,
     fileVars, hotVars, lgVars
<1>3. CASE Tick
  BY <1>2, <1>3 DEF Tick, Later, EngineTypeOK, WatchdogInv, WatchdogJustified,
     SignalInv, loopVars
<1>4. CASE Signal
  BY <1>2, <1>4 DEF Signal, EngineTypeOK, WatchdogInv, WatchdogJustified,
     SignalInv, watchVars
<1>5. CASE Hang
  BY <1>2, <1>5 DEF Hang, EngineTypeOK, WatchdogInv, WatchdogJustified,
     SignalInv, watchVars
<1> QED
  BY <1>3, <1>4, <1>5

\* The file changes.
LEMMA FileStep == EngineInv /\ ended = "no" /\ Surroundings => EngineInv'
<1> SUFFICES ASSUME EngineInv, ended = "no", Surroundings PROVE EngineInv'
  OBVIOUS
<1> USE HotAssumption DEF EngineInv
<1>1. TypeOK'
  BY DEF Surroundings, Second, Edit, RemoveFile, EngineTypeOK, TypeOK, hotVars, lgVars
<1>2. ReloadsPaid'
  <2> USE DEF EngineTypeOK, TypeOK, hotVars, lgVars, ReloadsPaid, InLogic,
          InWatcher, Differ
  <2>1. CASE Second
    BY <2>1 DEF Second
  <2>2. CASE Edit
    BY <2>2 DEF Edit
  <2>3. CASE RemoveFile
    BY <2>3 DEF RemoveFile
  <2> QED
    BY <2>1, <2>2, <2>3 DEF Surroundings
<1>3. EngineTypeOK' /\ WatchdogInv' /\ SignalInv'
  BY <1>1 DEF Surroundings, EngineTypeOK, WatchdogInv, WatchdogJustified,
     SignalInv, loopVars, watchVars
<1> QED
  BY <1>2, <1>3

\* The watching thread passes the time of the file on.
LEMMA WatcherStep == EngineInv /\ ended = "no" /\ Watcher => EngineInv'
<1> SUFFICES ASSUME EngineInv, ended = "no", Watcher PROVE EngineInv'
  OBVIOUS
<1> USE DEF EngineInv
<1>1. TypeOK'
  BY DEF Watcher, HotStat, HotCompare, EngineTypeOK, TypeOK, fileVars, lgVars
<1>2. ReloadsPaid'
  BY DEF Watcher, HotStat, HotCompare, EngineTypeOK, TypeOK, fileVars,
     lgVars, ReloadsPaid, InLogic, InWatcher, Differ
<1>3. EngineTypeOK' /\ WatchdogInv' /\ SignalInv'
  BY <1>1 DEF Watcher, EngineTypeOK, WatchdogInv, WatchdogJustified,
     SignalInv, loopVars, watchVars
<1> QED
  BY <1>2, <1>3

\* A turn of the loop, without hot update.
LEMMA LoopStep ==
    EngineInv /\ ended = "no" /\ (Check \/ Turn \/ Handlers \/ HookReturns)
        => EngineInv'
<1> SUFFICES ASSUME EngineInv, ended = "no",
                    Check \/ Turn \/ Handlers \/ HookReturns
             PROVE  EngineInv'
  OBVIOUS
<1> USE EngineAssumption DEF EngineInv
<1>1. UNCHANGED vars
  BY DEF Check, Turn, Handlers, HookReturns
<1>2. TypeOK' /\ ReloadsPaid'
  BY <1>1 DEF EngineTypeOK, TypeOK, ReloadsPaid, InLogic, InWatcher, vars,
     fileVars, hotVars, lgVars
<1>3. CASE Check
  BY <1>2, <1>3 DEF Check, EngineTypeOK, WatchdogInv, WatchdogJustified,
     SignalInv, watchVars
<1>4. CASE Turn
  BY <1>2, <1>4 DEF Turn, EngineTypeOK, WatchdogInv, WatchdogJustified,
     SignalInv, watchVars
<1>5. CASE Handlers
  BY <1>2, <1>5 DEF Handlers, EngineTypeOK, WatchdogInv, WatchdogJustified,
     SignalInv, watchVars
<1>6. CASE HookReturns
  BY <1>2, <1>6 DEF HookReturns, EngineTypeOK, WatchdogInv, WatchdogJustified,
     SignalInv, loopVars, watchVars
<1> QED
  BY <1>3, <1>4, <1>5, <1>6

\* Hot update, the last part of a turn.
LEMMA HotStep == EngineInv /\ ended = "no" /\ Hot => EngineInv'
<1> SUFFICES ASSUME EngineInv, ended = "no", Hot PROVE EngineInv'
  OBVIOUS
<1> USE DEF EngineInv
<1>1. TypeOK'
  <2> USE DEF EngineTypeOK, TypeOK, fileVars, hotVars
  <2>1. CASE NeedHot
    BY <2>1 DEF NeedHot
  <2>2. CASE CopyTime
    <3>1. CASE ret = TRUE
      BY <2>2, <3>1 DEF CopyTime
    <3>2. CASE ret = FALSE
      BY <2>2, <3>2 DEF CopyTime
    <3> QED
      BY <3>1, <3>2
  <2>3. CASE Load
    <3>1. ret' \in BOOLEAN
      BY Zenon, <2>3 DEF Load
    <3> QED
      BY <2>3, <3>1 DEF Load
  <2> QED
    BY <2>1, <2>2, <2>3 DEF Hot
<1>2. ReloadsPaid'
  <2>1. CASE NeedHot
    <3>1. CASE time_modify = hot_time
      BY <2>1, <3>1 DEF NeedHot, EngineTypeOK, TypeOK, fileVars, hotVars,
         ReloadsPaid, InLogic, InWatcher, Differ
    <3>2. CASE time_modify # hot_time
      <4>1. /\ lgPc = "loop" /\ lgPc' = "copy" /\ ret' = (hot_time # 0)
            /\ UNCHANGED <<fileVars, hotVars, hot_time, loaded, reloads>>
        BY <2>1, <3>2 DEF NeedHot
      <4>2. InLogic' = IF hot_time # 0 THEN 1 ELSE 0
        BY Zenon, <4>1 DEF InLogic
      <4>3. InWatcher' = InWatcher
        BY <4>1 DEF InWatcher, fileVars, hotVars
      <4>4. InLogic = 1 /\ InWatcher \in Nat
        BY <3>2, <4>1 DEF InLogic, InWatcher, Differ
      <4> QED
        BY <4>1, <4>2, <4>3, <4>4 DEF EngineTypeOK, TypeOK, fileVars, ReloadsPaid
    <3> QED
      BY <3>1, <3>2
  <2>2. CASE CopyTime
    <3> USE <2>2 DEF CopyTime, EngineTypeOK, TypeOK, fileVars, hotVars,
          ReloadsPaid, InLogic, InWatcher, Differ
    <3>1. CASE ret = TRUE
      BY <3>1
    <3>2. CASE ret = FALSE
      BY <3>2
    <3> QED
      BY <3>1, <3>2
  <2>3. CASE Load
    BY <2>3 DEF Load, EngineTypeOK, TypeOK, fileVars, hotVars,
       ReloadsPaid, InLogic, InWatcher, Differ
  <2> QED
    BY <2>1, <2>2, <2>3 DEF Hot
<1>3. EngineTypeOK' /\ WatchdogInv' /\ SignalInv'
  BY <1>1 DEF Hot, EngineTypeOK, WatchdogInv, WatchdogJustified,
     SignalInv, watchVars
<1> QED
  BY <1>2, <1>3

\* thread_loop::run.
LEMMA WatchdogStep == EngineInv /\ ended = "no" /\ Watchdog => EngineInv'
<1> SUFFICES ASSUME EngineInv, ended = "no", Watchdog PROVE EngineInv'
  OBVIOUS
<1> USE EngineAssumption DEF EngineInv
<1>1. UNCHANGED vars
  BY DEF Watchdog, Wake, Look, Store
<1>2. TypeOK' /\ ReloadsPaid'
  BY <1>1 DEF EngineTypeOK, TypeOK, ReloadsPaid, InLogic, InWatcher, vars,
     fileVars, hotVars, lgVars
<1>3. CASE Wake
  BY <1>2, <1>3 DEF Wake, EngineTypeOK, WatchdogInv, WatchdogJustified,
     SignalInv, loopVars
<1>4. CASE Look
  BY <1>2, <1>4 DEF Look, EngineTypeOK, WatchdogInv, WatchdogJustified,
     SignalInv, loopVars
<1>5. CASE Store
  <2>1. {shutdown_requested, started, moved, stuck}' \subseteq BOOLEAN
    BY Zenon, <1>5 DEF Store, EngineTypeOK
  <2>2. EngineTypeOK'
    BY <1>2, <1>5, <2>1 DEF Store, EngineTypeOK
  <2>3. WatchdogInv' /\ SignalInv'
    BY <1>5 DEF Store, EngineTypeOK, WatchdogInv, WatchdogJustified, SignalInv
  <2> QED
    BY <1>2, <2>2, <2>3
<1> QED
  BY <1>3, <1>4, <1>5 DEF Watchdog

LEMMA StepEngine == EngineInv /\ [Next]_engineVars => EngineInv'
<1>1. EngineInv /\ UNCHANGED engineVars => EngineInv'
  BY DEF engineVars, vars, fileVars, hotVars, lgVars, loopVars, watchVars,
     EngineInv, EngineTypeOK, TypeOK, ReloadsPaid, InLogic, InWatcher,
     WatchdogInv, WatchdogJustified, SignalInv
<1> QED
  BY <1>1, AroundStep, FileStep, WatcherStep, LoopStep, HotStep, WatchdogStep
     DEF Next, Loop

(***************************************************************************)
(* The script is reloaded at most once for each change of its file,        *)
(* whatever order the steps of the two threads come in, and at most one    *)
(* turn begins after the signal (thread_hot.h:10-36,                       *)
(* thread_logic.cpp:124).                                                  *)
(***************************************************************************)
THEOREM EngineSafe == EngineSpec => []EngineSound
<1>1. EngineInv => EngineSound
  <2> SUFFICES ASSUME EngineInv PROVE EngineSound
    OBVIOUS
  <2>1. ReloadedOncePerChange
    BY DEF EngineInv, EngineTypeOK, TypeOK, ReloadsPaid, InLogic, InWatcher,
       Differ, ReloadedOncePerChange
  <2> QED
    BY <2>1 DEF EngineInv, EngineSound, SignalInv, ShutdownPrompt
<1> QED
  BY InitEngine, StepEngine, <1>1, PTL DEF EngineSpec

(***************************************************************************)
(* The watchdog ends only a process whose loop has stood still for its     *)
(* whole interval, however long that is (thread_loop.h:19, :23, :45).      *)
(***************************************************************************)
THEOREM WatchdogCorrect == EngineSpec => []WatchdogJustified
<1>1. EngineInv => WatchdogJustified
  BY DEF EngineInv, WatchdogInv
<1> QED
  BY InitEngine, StepEngine, <1>1, PTL DEF EngineSpec

-----------------------------------------------------------------------------
(* What holds of the log in every state *)

Nodes == [line : Nat, id : Nat]

LogTypes ==
    /\ back \in [Queues -> Slots] /\ front \in [Queues -> Slots]
    /\ q \in [Queues -> [Slots -> Nodes]]
    /\ wrPc \in [Queues -> {"idle", "push"}]
    /\ logPc \in {"sleep", "front", "write", "pop", "flush"} /\ lq \in Queues
    /\ step \in 0 .. (FlushEvery - 1)
    /\ pushed \in [Queues -> Seq(Nodes)] /\ written \in [Queues -> Seq(Nodes)]
    /\ lines \in Nat /\ base \in 0 .. lines /\ urgent \subseteq 1 .. lines
    /\ seconds \in Nat /\ seconds >= Start
    /\ crashed \in BOOLEAN

\* The nodes of a ring from front on, and where the n-th of them is.
RingSize(f, b) == IF f <= b THEN b - f ELSE b + cap - f

RingAt(f, n) == IF f + n - 1 < cap THEN f + n - 1 ELSE f + n - 1 - cap

InRing(k) == RingSize(front[k], back[k])

\* The node that is written but not popped yet.
Popping(k) == IF logPc = "pop" /\ lq = k THEN 1 ELSE 0

(***************************************************************************)
(* What was pushed is what was written and what is in the ring, in that    *)
(* order, one node of the ring perhaps written already.                    *)
(***************************************************************************)
LogRing(k) ==
    /\ wrPc[k] = "push" => ~NodeFull(k)
    /\ logPc \in {"write", "pop"} /\ lq = k => InRing(k) >= 1
    /\ Popping(k) <= Len(written[k])
    /\ Len(pushed[k]) = Len(written[k]) - Popping(k) + InRing(k)
    /\ \A n \in 1 .. InRing(k) :
           q[k][RingAt(front[k], n)] = pushed[k][Len(written[k]) - Popping(k) + n]
    /\ \A n \in 1 .. Len(written[k]) : written[k][n] = pushed[k][n]

LogRings == \A k \in Queues : LogRing(k)

\* A line is in one place: being filled in, pushed, or in the urgent file.
Filling(k) == q[k][back[k]]

LinesApart ==
    /\ \A k \in Queues : wrPc[k] = "push" =>
          /\ Filling(k).line \in (base + 1) .. lines
          /\ Filling(k).line \notin urgent
          /\ \A o \in Queues : wrPc[o] = "push" /\ Filling(o).line = Filling(k).line => o = k
    /\ \A k \in Queues : \A i \in 1 .. Len(pushed[k]) :
          /\ pushed[k][i].line \in (base + 1) .. lines
          /\ pushed[k][i].line \notin urgent
          /\ \A o \in Queues : wrPc[o] = "push" => Filling(o).line # pushed[k][i].line

LinesKept ==
    \A n \in (base + 1) .. lines :
        \/ n \in urgent
        \/ \E k \in Queues : wrPc[k] = "push" /\ Filling(k).line = n
        \/ \E k \in Queues : \E i \in 1 .. Len(pushed[k]) : pushed[k][i].line = n

(***************************************************************************)
(* The table li and the numbers given out.                                 *)
(***************************************************************************)
Entries ==
    [name : Names, filename : Seq(Parts), div : Nat, head : BOOLEAN,
     file : Seq(Parts), buf : Seq(Nat), has_data : BOOLEAN, last : Nat]

EntrySound(e, t) ==
    /\ e.div = Div[e.name] /\ e.head = (e.name \in Headed)
    /\ e.last \in {0} \union Start .. t
    /\ e.filename = e.name \/ e.filename \in FilesOf(e.name)
    /\ e.div # 0 /\ e.last # 0 => e.filename \in FilesOf(e.name)
    /\ e.file = NoFile => e.buf = <<>>
    /\ e.file # NoFile => e.file = e.filename /\ e.file \in FilesOf(e.name)

LogTable ==
    /\ li \in Seq(Entries) /\ Len(li) <= MaxIds
    /\ \A i \in 1 .. Len(li) : EntrySound(li[i], seconds)
    /\ \A i, j \in 1 .. Len(li) : li[i].name = li[j].name => i = j

LogNumbers ==
    \A r \in regs :
        /\ r[1] \in Names /\ r[2] \in 1 .. Len(li)
        /\ IsPrefix(r[1], li[r[2]].name) \/ (Len(li) = MaxIds /\ r[2] = 1)

LogIds ==
    \A k \in Queues :
        /\ wrPc[k] = "push" => Filling(k).id \in 1 .. Len(li)
        /\ \A i \in 1 .. Len(pushed[k]) : pushed[k][i].id \in 1 .. Len(li)

(***************************************************************************)
(* The files, with what is buffered for them.                              *)
(***************************************************************************)
HeadFirst(s) == \A n \in 1 .. Len(s) : s[n] = HeadLine => n = 1

Begun(s) == s # <<>> /\ s[1] = HeadLine

HeadedFiles == UNION {FilesOf(name) : name \in Headed}

FilesSound(d, l, c) ==
    /\ d \in [DOMAIN d -> Seq(Nat)] /\ NoFile \notin DOMAIN d
    /\ \A f \in DOMAIN d : HeadFirst(d[f])
    /\ \A i \in 1 .. Len(l) : l[i].file # NoFile =>
          l[i].file \in DOMAIN d /\ HeadFirst(d[l[i].file] \o l[i].buf)
    /\ ~c => \A f \in DOMAIN d \intersect HeadedFiles :
          \/ Begun(d[f])
          \/ d[f] = <<>> /\ \E i \in 1 .. Len(l) : l[i].file = f /\ Begun(l[i].buf)

LogFiles == FilesSound(disk, li, crashed)

LogInv ==
    /\ LogTypes /\ LogRings /\ LinesApart /\ LinesKept
    /\ LogTable /\ LogNumbers /\ LogIds /\ LogFiles

-----------------------------------------------------------------------------
(* Ring indices *)

LEMMA Remainder ==
    ASSUME NEW a \in Nat, NEW b \in Nat, a < b
    PROVE  a % b = a
OBVIOUS

LEMMA RemainderOnce ==
    ASSUME NEW a \in Nat, NEW b \in Nat \ {0}, b <= a, a < 2 * b
    PROVE  a % b = a - b
OBVIOUS

LEMMA NextSlotIs ==
    ASSUME NEW s \in Slots
    PROVE  NextSlot(s) = (IF s + 1 = cap THEN 0 ELSE s + 1) /\ NextSlot(s) \in Slots
<1>1. cap \in Nat \ {0} /\ s + 1 \in Nat /\ s + 1 <= cap /\ cap < 2 * cap
  BY LogAssumption DEF Slots
<1>2. CASE s + 1 = cap
  <2>1. (s + 1) % cap = 0
    BY <1>1, <1>2, RemainderOnce
  <2> QED
    BY <1>1, <1>2, <2>1 DEF NextSlot, Slots
<1>3. CASE s + 1 # cap
  <2>1. (s + 1) % cap = s + 1
    BY <1>1, <1>3, Remainder
  <2> QED
    BY <1>1, <1>3, <2>1 DEF NextSlot, Slots
<1> QED
  BY <1>2, <1>3

LEMMA RingSizes ==
    ASSUME NEW f \in Slots, NEW b \in Slots
    PROVE  /\ RingSize(f, b) \in 0 .. (cap - 1)
           /\ RingSize(f, b) = 0 <=> f = b
           /\ RingSize(f, b) = (b + cap - f) % cap
           /\ NextSlot(b) # f => RingSize(f, NextSlot(b)) = RingSize(f, b) + 1
           /\ f # b => RingSize(NextSlot(f), b) = RingSize(f, b) - 1
<1>0. cap \in Nat \ {0}
  BY LogAssumption
<1> USE <1>0 DEF Slots, RingSize
<1>1. RingSize(f, b) \in 0 .. (cap - 1) /\ (RingSize(f, b) = 0 <=> f = b)
  OBVIOUS
<1>2. RingSize(f, b) = (b + cap - f) % cap
  <2>1. CASE f <= b
    <3> DEFINE x == b + cap - f
    <3>1. x \in Nat /\ cap <= x /\ x < 2 * cap /\ x - cap = b - f
      BY <2>1
    <3> HIDE DEF x
    <3>2. x % cap = x - cap
      BY <3>1, RemainderOnce
    <3>3. x % cap = b - f
      BY <3>1, <3>2
    <3> QED
      BY <2>1, <3>3 DEF x
  <2>2. CASE ~(f <= b)
    <3>1. b + cap - f \in Nat /\ b + cap - f < cap
      BY <2>2
    <3>2. (b + cap - f) % cap = b + cap - f
      BY <3>1, Remainder
    <3> QED
      BY <2>2, <3>2
  <2> QED
    BY <2>1, <2>2
<1>3. ASSUME NextSlot(b) # f PROVE RingSize(f, NextSlot(b)) = RingSize(f, b) + 1
  <2>1. NextSlot(b) = (IF b + 1 = cap THEN 0 ELSE b + 1)
    BY NextSlotIs
  <2> QED
    BY <1>3, <2>1
<1>4. ASSUME f # b PROVE RingSize(NextSlot(f), b) = RingSize(f, b) - 1
  <2>1. NextSlot(f) = (IF f + 1 = cap THEN 0 ELSE f + 1)
    BY NextSlotIs
  <2> QED
    BY <1>4, <2>1
<1> QED
  BY <1>1, <1>2, <1>3, <1>4

LEMMA RingPlaces ==
    ASSUME NEW f \in Slots, NEW b \in Slots
    PROVE  /\ RingAt(f, 1) = f
           /\ RingAt(f, RingSize(f, b) + 1) = b
           /\ \A n \in 1 .. cap :
                 RingAt(f, n) \in Slots /\ RingAt(f, n) = (f + n - 1) % cap
           /\ \A n \in 1 .. RingSize(f, b) : RingAt(f, n) # b
           /\ \A n \in 1 .. (cap - 1) : RingAt(NextSlot(f), n) = RingAt(f, n + 1)
<1>0. cap \in Nat \ {0}
  BY LogAssumption
<1> USE <1>0 DEF Slots
<1>1. RingAt(f, 1) = f /\ RingAt(f, RingSize(f, b) + 1) = b
  BY DEF RingAt, RingSize
<1>2. ASSUME NEW n \in 1 .. cap
      PROVE  RingAt(f, n) \in Slots /\ RingAt(f, n) = (f + n - 1) % cap
  <2>1. CASE f + n - 1 < cap
    <3>1. (f + n - 1) % cap = f + n - 1
      BY <2>1, Remainder
    <3> QED
      BY <2>1, <3>1 DEF RingAt
  <2>2. CASE ~(f + n - 1 < cap)
    <3> DEFINE x == f + n - 1
    <3>1. x \in Nat /\ cap <= x /\ x < 2 * cap
      BY <2>2
    <3>2. RingAt(f, n) = x - cap
      BY <2>2 DEF RingAt
    <3> HIDE DEF x
    <3>3. x % cap = x - cap
      BY <3>1, RemainderOnce
    <3>4. x - cap \in 0 .. (cap - 1)
      BY <3>1
    <3>5. RingAt(f, n) \in Slots /\ RingAt(f, n) = x % cap
      BY <3>2, <3>3, <3>4
    <3> QED
      BY <3>5 DEF x
  <2> QED
    BY <2>1, <2>2
<1>3. \A n \in 1 .. RingSize(f, b) : RingAt(f, n) # b
  BY DEF RingAt, RingSize
<1>4. \A n \in 1 .. (cap - 1) : RingAt(NextSlot(f), n) = RingAt(f, n + 1)
  <2>1. NextSlot(f) = (IF f + 1 = cap THEN 0 ELSE f + 1)
    BY NextSlotIs
  <2> QED
    BY <2>1 DEF RingAt
<1> QED
  BY <1>1, <1>2, <1>3, <1>4

-----------------------------------------------------------------------------
(* The rings: types, and what is in them *)

RingInv == LogTypes /\ LogRings

\* A step leaves ring k, and what was pushed and written through it, alone.
Untouched(k) ==
    /\ back'[k] = back[k] /\ front'[k] = front[k] /\ q'[k] = q[k]
    /\ pushed'[k] = pushed[k] /\ written'[k] = written[k]

LEMMA RingStays ==
    ASSUME NEW k \in Queues, LogRing(k), Untouched(k), Popping(k)' = Popping(k),
           wrPc'[k] = "push" => wrPc[k] = "push",
           logPc' \in {"write", "pop"} /\ lq' = k => InRing(k) >= 1
    PROVE  LogRing(k)'
BY DEF LogRing, Untouched, InRing, NodeFull

LEMMA InitRings == LogInit => RingInv
<1> SUFFICES ASSUME LogInit PROVE RingInv
  OBVIOUS
<1> USE LogAssumption DEF LogInit
<1>1. 0 \in Slots /\ NoLine \in Nodes
  BY DEF Slots, NoLine, Nodes
<1>2. LogTypes
  <2>1. Fresh(0) \in [Queues -> Slots] /\ Fresh([s \in Slots |-> NoLine]) \in [Queues -> [Slots -> Nodes]]
        /\ Fresh("idle") \in [Queues -> {"idle", "push"}] /\ Fresh(<<>>) \in [Queues -> Seq(Nodes)]
    BY <1>1 DEF Fresh
  <2>2. "q_io" \in Queues /\ Start \in Nat /\ 0 \in 0 .. (FlushEvery - 1)
    BY DEF Queues, Start
  <2>3. /\ lines \in Nat /\ base \in 0 .. lines /\ urgent \subseteq 1 .. lines
        /\ seconds \in Nat /\ seconds >= Start
    BY DEF Start
  <2>4. crashed \in BOOLEAN
    OBVIOUS
  <2> HIDE DEF LogInit
  <2>5. LogTypes
    <3>1. back = Fresh(0) /\ front = Fresh(0) /\ q = Fresh([s \in Slots |-> NoLine])
          /\ wrPc = Fresh("idle") /\ logPc = "sleep" /\ lq = "q_io" /\ step = 0
          /\ pushed = Fresh(<<>>) /\ written = Fresh(<<>>)
      BY DEF LogInit
    <3> QED
      BY <2>1, <2>2, <2>3, <2>4, <3>1 DEF LogTypes
  <2> QED
    BY <2>5
<1>3. ASSUME NEW k \in Queues PROVE LogRing(k)
  <2>1. back[k] = 0 /\ front[k] = 0 /\ wrPc[k] = "idle" /\ pushed[k] = <<>> /\ written[k] = <<>>
        /\ logPc = "sleep"
    BY DEF Fresh
  <2>2. InRing(k) = 0 /\ Popping(k) = 0
    BY <1>1, <2>1, RingSizes DEF InRing, Popping
  <2> QED
    BY <2>1, <2>2 DEF LogRing
<1> QED
  BY <1>2, <1>3 DEF RingInv, LogRings

LEMMA QuietKeepsRings ==
    ASSUME RingInv,
           UNCHANGED <<back, front, q, wrPc, logPc, lq, step, pushed, written, lines, base,
                       urgent, crashed>>,
           seconds' = seconds \/ seconds' = seconds + 1
    PROVE  RingInv'
<1>1. LogTypes'
  BY DEF RingInv, LogTypes, Start
<1>2. ASSUME NEW k \in Queues PROVE LogRing(k)'
  BY RingStays DEF RingInv, LogRings, LogRing, Untouched, Popping
<1> QED
  BY <1>1, <1>2 DEF RingInv, LogRings

LEMMA AgainKeepsRings == RingInv /\ StartAgain /\ crashed' \in BOOLEAN => RingInv'
<1> SUFFICES ASSUME RingInv, StartAgain, crashed' \in BOOLEAN PROVE RingInv'
  OBVIOUS
<1> USE LogAssumption DEF StartAgain
<1>1. 0 \in Slots /\ NoLine \in Nodes
  BY DEF Slots, NoLine, Nodes
<1>2. LogTypes'
  <2>1. Fresh(0) \in [Queues -> Slots] /\ Fresh([s \in Slots |-> NoLine]) \in [Queues -> [Slots -> Nodes]]
        /\ Fresh("idle") \in [Queues -> {"idle", "push"}] /\ Fresh(<<>>) \in [Queues -> Seq(Nodes)]
    BY <1>1 DEF Fresh
  <2>2. "q_io" \in Queues /\ 0 \in 0 .. (FlushEvery - 1)
    BY DEF Queues
  <2>3. base' \in 0 .. lines'
    BY DEF RingInv, LogTypes
  <2> QED
    BY <2>1, <2>2, <2>3 DEF RingInv, LogTypes
<1>3. ASSUME NEW k \in Queues PROVE LogRing(k)'
  <2>1. back'[k] = 0 /\ front'[k] = 0 /\ wrPc'[k] = "idle" /\ pushed'[k] = <<>> /\ written'[k] = <<>>
        /\ logPc' = "sleep"
    BY DEF Fresh
  <2>2. InRing(k)' = 0 /\ Popping(k)' = 0
    BY <1>1, <2>1, RingSizes DEF InRing, Popping
  <2> QED
    BY <2>1, <2>2 DEF LogRing
<1> QED
  BY <1>2, <1>3 DEF RingInv, LogRings

\* A line is filled in behind the ring, or goes to the urgent file.
LEMMA LineKeepsRings ==
    ASSUME RingInv, NEW k \in Queues, NEW id \in Nat, WriteLine(k, id)
    PROVE  RingInv'
<1>1. UNCHANGED <<back, front, pushed, logPc, lq, step, written, seconds, base, crashed>>
  BY DEF WriteLine, logVars, worldVars
<1>2. /\ lines' = lines + 1 /\ lines \in Nat /\ back[k] \in Slots
      /\ q \in [Queues -> [Slots -> Nodes]] /\ wrPc \in [Queues -> {"idle", "push"}]
      /\ base \in 0 .. lines /\ urgent \subseteq 1 .. lines
  BY DEF WriteLine, Fill, Urgent, RingInv, LogTypes
<1>3. [line |-> lines', id |-> id] \in Nodes
  BY <1>2 DEF Nodes
<1>4. LogTypes'
  <2>1. q' \in [Queues -> [Slots -> Nodes]] /\ wrPc' \in [Queues -> {"idle", "push"}]
    <3>1. CASE Fill(k, id)
      BY <1>2, <1>3, <3>1 DEF Fill
    <3>2. CASE Urgent(k)
      BY <1>2, <3>2 DEF Urgent
    <3> QED
      BY <3>1, <3>2 DEF WriteLine
  <2>2. lines' \in Nat /\ base' \in 0 .. lines' /\ urgent' \subseteq 1 .. lines'
    <3>1. urgent' = urgent \/ urgent' = urgent \union {lines'}
      BY DEF WriteLine, Fill, Urgent
    <3>2. base' = base
      BY <1>1
    <3>3. lines' \in Nat /\ base' \in 0 .. lines'
      <4>1. lines' = lines + 1 /\ lines \in Nat /\ base \in 0 .. lines
        BY <1>2
      <4> QED
        BY <3>2, <4>1
    <3>4. ASSUME NEW n \in urgent' PROVE n \in 1 .. lines'
      <4>1. lines' = lines + 1 /\ lines \in Nat /\ \A m \in urgent : m \in 1 .. lines
        BY <1>2
      <4>2. n \in urgent \/ n = lines'
        BY <3>1
      <4> QED
        BY <4>1, <4>2
    <3> QED
      BY <3>3, <3>4
  <2> QED
    BY <1>1, <2>1, <2>2 DEF RingInv, LogTypes
<1>5. ASSUME NEW o \in Queues PROVE LogRing(o)'
  <2>1. /\ back[o] \in Slots /\ front[o] \in Slots /\ LogRing(o)
        /\ Popping(o)' = Popping(o) /\ InRing(o)' = InRing(o) /\ (NodeFull(o)' <=> NodeFull(o))
    BY <1>1 DEF RingInv, LogTypes, LogRings, Popping, InRing, NodeFull
  <2>2. wrPc'[o] = "push" => ~NodeFull(o)
    <3>1. wrPc[o] = "push" => ~NodeFull(o)
      BY <2>1 DEF LogRing
    <3>2. wrPc' = wrPc \/ (~NodeFull(k) /\ wrPc' = [wrPc EXCEPT ![k] = "push"])
      BY DEF WriteLine, Fill, Urgent
    <3>3. CASE o = k
      BY <1>2, <3>1, <3>2, <3>3
    <3>4. CASE o # k
      BY <1>2, <3>1, <3>2, <3>4
    <3> QED
      BY <3>3, <3>4
  <2>3. \A s \in Slots : s # back[o] => q'[o][s] = q[o][s]
    BY <1>2 DEF WriteLine, Fill, Urgent
  <2>4. cap \in Nat \ {0} /\ InRing(o) \in 0 .. (cap - 1)
        /\ \A n \in 1 .. InRing(o) : RingAt(front[o], n) # back[o]
    BY <2>1, RingSizes, RingPlaces, LogAssumption DEF InRing
  <2>5. \A n \in 1 .. InRing(o) : RingAt(front[o], n) \in Slots
    BY <2>1, <2>4, RingPlaces
  <2>6. \A n \in 1 .. InRing(o) : q'[o][RingAt(front[o], n)] = q[o][RingAt(front[o], n)]
    BY <2>3, <2>4, <2>5
  <2> QED
    BY <1>1, <2>1, <2>2, <2>6 DEF LogRing
<1> QED
  BY <1>4, <1>5 DEF RingInv, LogRings

\* The line becomes the last one of the ring; there is room for it.
LEMMA PushKeepsRings ==
    ASSUME RingInv, NEW k \in Queues, Push(k)
    PROVE  RingInv' /\ ~NodeFull(k)
<1>1. UNCHANGED <<front, q, urgent, lines, logPc, lq, step, written, seconds, base, crashed>>
  BY DEF Push, logVars, worldVars
<1>2. ~NodeFull(k) /\ wrPc[k] = "push"
  BY DEF Push, RingInv, LogRings, LogRing
<1>3. /\ back' = [back EXCEPT ![k] = NextSlot(back[k])]
      /\ pushed' = [pushed EXCEPT ![k] = Append(@, q[k][back[k]])]
      /\ wrPc' = [wrPc EXCEPT ![k] = "idle"]
  BY <1>2 DEF Push
<1>4. /\ back \in [Queues -> Slots] /\ front \in [Queues -> Slots]
      /\ pushed \in [Queues -> Seq(Nodes)] /\ written \in [Queues -> Seq(Nodes)]
      /\ q \in [Queues -> [Slots -> Nodes]] /\ wrPc \in [Queues -> {"idle", "push"}]
  BY DEF RingInv, LogTypes
<1>5. NextSlot(back[k]) \in Slots /\ NextSlot(back[k]) # front[k]
  BY <1>2, <1>4, NextSlotIs DEF NodeFull
<1>6. LogTypes'
  <2>1. back' \in [Queues -> Slots] /\ pushed' \in [Queues -> Seq(Nodes)]
        /\ wrPc' \in [Queues -> {"idle", "push"}]
    BY <1>3, <1>4, <1>5
  <2> QED
    BY <1>1, <2>1 DEF RingInv, LogTypes
<1>7. ASSUME NEW o \in Queues, o # k PROVE LogRing(o)'
  BY <1>1, <1>3, <1>4, <1>7, RingStays
     DEF RingInv, LogRings, LogRing, Untouched, Popping
<1>8. LogRing(k)'
  <2> DEFINE f == front[k]
             b == back[k]
             w == Len(written[k])
             d == Popping(k)
             size == InRing(k)
  <2>1. f \in Slots /\ b \in Slots /\ w \in Nat /\ d \in 0 .. 1 /\ size = RingSize(f, b)
    BY <1>4 DEF Popping, InRing
  <2>2. /\ size \in Nat /\ InRing(k)' = size + 1
        /\ RingAt(f, size + 1) = b
    BY <1>1, <1>3, <1>4, <1>5, <2>1, RingSizes, RingPlaces DEF InRing
  <2>3. /\ Len(pushed[k]) = w - d + size
        /\ \A n \in 1 .. size : q[k][RingAt(f, n)] = pushed[k][w - d + n]
        /\ \A n \in 1 .. w : written[k][n] = pushed[k][n]
        /\ d <= w
    BY DEF RingInv, LogRings, LogRing
  <2>4. /\ pushed'[k] = Append(pushed[k], q[k][b]) /\ pushed[k] \in Seq(Nodes)
        /\ wrPc'[k] = "idle" /\ Popping(k)' = d
        /\ front'[k] = f /\ written'[k] = written[k] /\ q' = q
    BY <1>1, <1>3, <1>4 DEF Popping
  <2>5. /\ Len(pushed'[k]) = Len(pushed[k]) + 1
        /\ pushed'[k][Len(pushed[k]) + 1] = q[k][b]
        /\ \A i \in 1 .. Len(pushed[k]) : pushed'[k][i] = pushed[k][i]
    BY <2>4
  <2>6. d = 0 \/ size >= 1
    BY DEF Popping, RingInv, LogRings, LogRing
  <2> HIDE DEF f, b, w, d, size
  <2>7. Len(pushed'[k]) = w - d + (size + 1)
    BY <2>1, <2>2, <2>3, <2>5
  <2>8. ASSUME NEW n \in 1 .. (size + 1)
        PROVE  q[k][RingAt(f, n)] = pushed'[k][w - d + n]
    <3>1. CASE n = size + 1
      BY <2>1, <2>2, <2>3, <2>5, <3>1
    <3>2. CASE n # size + 1
      <4>1. n \in 1 .. size
        BY <2>2, <3>2
      <4>2. w - d + n \in 1 .. Len(pushed[k])
        BY <2>1, <2>2, <2>3, <4>1
      <4> QED
        BY <2>3, <2>5, <4>1, <4>2
    <3> QED
      BY <3>1, <3>2
  <2>9. \A n \in 1 .. w : written[k][n] = pushed'[k][n]
    BY <2>1, <2>2, <2>3, <2>5, <2>6
  <2>10. logPc' \in {"write", "pop"} /\ lq' = k => InRing(k)' >= 1
    BY <2>2
  <2> QED
    <3>1. Len(written'[k]) = w /\ Popping(k)' <= w
      BY <2>3, <2>4 DEF w
    <3> QED
      BY <2>2, <2>4, <2>7, <2>8, <2>9, <2>10, <3>1 DEF LogRing
<1> QED
  BY <1>2, <1>6, <1>7, <1>8 DEF RingInv, LogRings

\* The log thread moves on without touching a ring.
LEMMA MoveKeepsRings ==
    ASSUME RingInv,
           UNCHANGED <<back, front, q, wrPc, pushed, written, lines, base, urgent, crashed, seconds>>,
           logPc # "pop", logPc' \in {"sleep", "front", "write", "flush"}, lq' \in Queues,
           logPc' = "write" => front[lq'] # back[lq'],
           step' \in 0 .. (FlushEvery - 1)
    PROVE  RingInv'
<1>1. LogTypes'
  BY DEF RingInv, LogTypes
<1>2. ASSUME NEW k \in Queues PROVE LogRing(k)'
  <2>1. Untouched(k) /\ Popping(k)' = Popping(k) /\ LogRing(k)
    BY DEF Untouched, Popping, RingInv, LogRings
  <2>2. logPc' \in {"write", "pop"} /\ lq' = k => front[k] # back[k]
    OBVIOUS
  <2>3. front[k] # back[k] => InRing(k) >= 1
    <3>1. front[k] \in Slots /\ back[k] \in Slots /\ cap \in Nat \ {0}
      BY LogAssumption DEF RingInv, LogTypes
    <3> QED
      BY <3>1, RingSizes DEF InRing
  <2> QED
    BY <2>1, <2>2, <2>3, RingStays
<1> QED
  BY <1>1, <1>2 DEF RingInv, LogRings

LEMMA RoundKeepsRings == RingInv /\ (Round \/ GetFront) => RingInv'
<1> SUFFICES ASSUME RingInv, Round \/ GetFront PROVE RingInv'
  OBVIOUS
<1>1. /\ UNCHANGED <<back, front, q, wrPc, pushed, written, lines, base, urgent, crashed, seconds, step>>
      /\ logPc # "pop" /\ logPc' \in {"sleep", "front", "write", "flush"} /\ lq' \in Queues
      /\ logPc' = "write" => front[lq'] # back[lq']
  BY DEF Round, GetFront, ringVars, prodVars, worldVars, Queues, RingInv, LogTypes
<1>2. step' \in 0 .. (FlushEvery - 1)
  BY <1>1 DEF RingInv, LogTypes
<1> QED
  BY <1>1, <1>2, MoveKeepsRings

LEMMA FlushKeepsRings == RingInv /\ Flush => RingInv'
<1> SUFFICES ASSUME RingInv, Flush PROVE RingInv'
  OBVIOUS
<1>1. /\ UNCHANGED <<back, front, q, wrPc, pushed, written, lines, base, urgent, crashed, seconds, lq>>
      /\ logPc = "flush" /\ logPc' = "sleep" /\ step' = (step + 1) % FlushEvery
  BY DEF Flush, ringVars, prodVars, worldVars
<1>2. step \in 0 .. (FlushEvery - 1) /\ lq \in Queues /\ FlushEvery \in Nat \ {0}
  BY LogAssumption DEF RingInv, LogTypes
<1>3. (step + 1) % FlushEvery \in 0 .. (FlushEvery - 1)
  <2> DEFINE x == step + 1
  <2>1. x \in Nat /\ x <= FlushEvery /\ FlushEvery < 2 * FlushEvery
    BY <1>2
  <2> HIDE DEF x
  <2>2. CASE x = FlushEvery
    <3>1. x % FlushEvery = x - FlushEvery
      BY <1>2, <2>1, <2>2, RemainderOnce
    <3> QED
      BY <1>2, <2>2, <3>1 DEF x
  <2>3. CASE x # FlushEvery
    <3>1. x % FlushEvery = x
      BY <1>2, <2>1, <2>3, Remainder
    <3> QED
      BY <1>2, <2>1, <2>3, <3>1 DEF x
  <2> QED
    BY <2>2, <2>3
<1> QED
  BY <1>1, <1>2, <1>3, MoveKeepsRings

\* The line at the front is the next one after those written.
LEMMA NodeIsNext ==
    ASSUME RingInv, logPc = "write"
    PROVE  /\ Len(written[lq]) \in Nat /\ Len(written[lq]) < Len(pushed[lq])
           /\ Node = pushed[lq][Len(written[lq]) + 1] /\ Node \in Nodes
<1>1. /\ lq \in Queues /\ front[lq] \in Slots /\ back[lq] \in Slots /\ cap \in Nat \ {0}
      /\ written[lq] \in Seq(Nodes) /\ pushed[lq] \in Seq(Nodes) /\ q[lq] \in [Slots -> Nodes]
  BY LogAssumption DEF RingInv, LogTypes
<1>2. /\ InRing(lq) >= 1 /\ Popping(lq) = 0
      /\ Len(pushed[lq]) = Len(written[lq]) - Popping(lq) + InRing(lq)
      /\ \A n \in 1 .. InRing(lq) :
            q[lq][RingAt(front[lq], n)] = pushed[lq][Len(written[lq]) - Popping(lq) + n]
  BY <1>1 DEF RingInv, LogRings, LogRing, Popping
<1>3. InRing(lq) \in Nat /\ RingAt(front[lq], 1) = front[lq]
  <2>1. RingSize(front[lq], back[lq]) \in 0 .. (cap - 1)
    BY <1>1, RingSizes
  <2>2. RingAt(front[lq], 1) = front[lq]
    BY <1>1, RingPlaces
  <2> QED
    BY <1>1, <2>1, <2>2 DEF InRing
<1>4. Node = q[lq][front[lq]] /\ Node \in Nodes
  BY <1>1 DEF Node
<1> DEFINE w == Len(written[lq])
           size == InRing(lq)
<1>5. w \in Nat /\ size \in Nat /\ size >= 1 /\ Len(pushed[lq]) = w + size
  BY <1>1, <1>2, <1>3
<1>6. q[lq][RingAt(front[lq], 1)] = pushed[lq][w + 1]
  BY <1>2, <1>5
<1>7. Node = pushed[lq][w + 1]
  BY <1>3, <1>4, <1>6
<1> HIDE DEF w, size
<1>8. w \in Nat /\ w < Len(pushed[lq])
  BY <1>5
<1> QED
  BY <1>4, <1>7, <1>8 DEF w

LEMMA WrittenKeepsRings ==
    ASSUME RingInv, Written
    PROVE  RingInv'
<1>1. /\ UNCHANGED <<back, front, q, wrPc, pushed, lines, base, urgent, crashed, seconds, lq, step>>
      /\ logPc = "write" /\ logPc' = "pop" /\ written' = [written EXCEPT ![lq] = Append(@, Node)]
  BY DEF Written, ringVars, prodVars, worldVars
<1>2. /\ Len(written[lq]) \in Nat /\ Len(written[lq]) < Len(pushed[lq])
      /\ Node = pushed[lq][Len(written[lq]) + 1] /\ Node \in Nodes
  BY <1>1, NodeIsNext
<1>3. lq \in Queues /\ written \in [Queues -> Seq(Nodes)]
  BY DEF RingInv, LogTypes
<1>4. LogTypes'
  <2>1. written' \in [Queues -> Seq(Nodes)]
    BY <1>1, <1>2, <1>3
  <2> QED
    BY <1>1, <2>1 DEF RingInv, LogTypes
<1>5. ASSUME NEW o \in Queues, o # lq PROVE LogRing(o)'
  BY <1>1, <1>3, <1>5, RingStays DEF RingInv, LogRings, Untouched, Popping
<1>6. LogRing(lq)'
  <2> DEFINE w == Len(written[lq])
             size == InRing(lq)
  <2>1. /\ wrPc[lq] = "push" => ~NodeFull(lq)
        /\ size >= 1 /\ Popping(lq) = 0
        /\ Len(pushed[lq]) = w - 0 + size
        /\ \A n \in 1 .. size : q[lq][RingAt(front[lq], n)] = pushed[lq][w - 0 + n]
        /\ \A n \in 1 .. w : written[lq][n] = pushed[lq][n]
    BY <1>1, <1>3 DEF RingInv, LogRings, LogRing, Popping
  <2>2. /\ InRing(lq)' = size /\ Popping(lq)' = 1 /\ (NodeFull(lq)' <=> NodeFull(lq))
        /\ front'[lq'] = front[lq] /\ q'[lq'] = q[lq] /\ pushed'[lq'] = pushed[lq]
        /\ wrPc'[lq'] = wrPc[lq] /\ written'[lq'] = Append(written[lq], Node)
    BY <1>1, <1>3 DEF InRing, Popping, NodeFull
  <2>3. /\ Len(written'[lq']) = w + 1
        /\ written'[lq'][w + 1] = Node
        /\ \A n \in 1 .. w : written'[lq'][n] = written[lq][n]
    BY <1>2, <1>3, <2>2
  <2>4. size \in Nat /\ w \in Nat
    <3>1. front[lq] \in Slots /\ back[lq] \in Slots /\ cap \in Nat \ {0}
      BY <1>3, LogAssumption DEF RingInv, LogTypes
    <3> QED
      BY <1>2, <3>1, RingSizes DEF InRing
  <2>5. Node = pushed[lq][w + 1]
    BY <1>2
  <2> HIDE DEF w, size
  <2>6. Len(pushed[lq]) = (w + 1) - 1 + size /\ 1 <= w + 1
    BY <2>1, <2>4
  <2>7. ASSUME NEW n \in 1 .. size PROVE q[lq][RingAt(front[lq], n)] = pushed[lq][(w + 1) - 1 + n]
    <3>1. (w + 1) - 1 + n = w - 0 + n
      BY <2>4
    <3> QED
      BY <2>1, <3>1
  <2>8. ASSUME NEW n \in 1 .. (w + 1) PROVE written'[lq'][n] = pushed[lq][n]
    BY <2>1, <2>3, <2>4, <2>5
  <2>9. lq' = lq /\ Len(written'[lq']) = w + 1
    BY <1>1, <2>3
  <2>10. (wrPc[lq] = "push" => ~NodeFull(lq))' /\ InRing(lq)' >= 1
         /\ Popping(lq)' <= Len(written'[lq'])
         /\ Len(pushed'[lq']) = Len(written'[lq']) - Popping(lq)' + InRing(lq)'
    BY <2>1, <2>2, <2>6, <2>9
  <2>11. \A n \in 1 .. InRing(lq)' :
            q'[lq'][RingAt(front'[lq'], n)] = pushed'[lq'][Len(written'[lq']) - Popping(lq)' + n]
    BY <2>2, <2>7, <2>9
  <2>12. \A n \in 1 .. Len(written'[lq']) : written'[lq'][n] = pushed'[lq'][n]
    BY <2>2, <2>8, <2>9
  <2> QED
    BY <2>10, <2>11, <2>12 DEF LogRing
<1> QED
  BY <1>1, <1>4, <1>5, <1>6 DEF RingInv, LogRings

LEMMA PopKeepsRings ==
    ASSUME RingInv, Pop
    PROVE  RingInv'
<1>1. /\ UNCHANGED <<back, q, wrPc, pushed, lines, base, urgent, crashed, seconds, lq, step, written>>
      /\ logPc = "pop" /\ logPc' = "front" /\ front' = [front EXCEPT ![lq] = NextSlot(@)]
  BY DEF Pop, prodVars, worldVars
<1>2. /\ lq \in Queues /\ front \in [Queues -> Slots] /\ back[lq] \in Slots /\ front[lq] \in Slots
      /\ written[lq] \in Seq(Nodes) /\ pushed[lq] \in Seq(Nodes) /\ cap \in Nat \ {0}
  BY LogAssumption DEF RingInv, LogTypes
<1>3. LogTypes'
  <2>1. front' \in [Queues -> Slots]
    BY <1>1, <1>2, NextSlotIs
  <2> QED
    BY <1>1, <2>1 DEF RingInv, LogTypes
<1>4. ASSUME NEW o \in Queues, o # lq PROVE LogRing(o)'
  BY <1>1, <1>2, <1>4, RingStays DEF RingInv, LogRings, Untouched, Popping
<1>5. LogRing(lq)'
  <2> DEFINE w == Len(written[lq])
             size == InRing(lq)
             f == front[lq]
             b == back[lq]
  <2>1. /\ wrPc[lq] = "push" => ~NodeFull(lq)
        /\ size >= 1 /\ Popping(lq) = 1 /\ 1 <= w
        /\ Len(pushed[lq]) = w - 1 + size
        /\ \A n \in 1 .. size : q[lq][RingAt(f, n)] = pushed[lq][w - 1 + n]
        /\ \A n \in 1 .. w : written[lq][n] = pushed[lq][n]
    BY <1>1, <1>2 DEF RingInv, LogRings, LogRing, Popping
  <2>2. /\ front'[lq'] = NextSlot(f) /\ q'[lq'] = q[lq] /\ pushed'[lq'] = pushed[lq]
        /\ wrPc'[lq'] = wrPc[lq] /\ written'[lq'] = written[lq] /\ back'[lq'] = b
        /\ Popping(lq)' = 0 /\ InRing(lq)' = RingSize(NextSlot(f), b)
    BY <1>1, <1>2 DEF Popping, InRing
  <2>3. /\ size = RingSize(f, b) /\ size \in 0 .. (cap - 1) /\ f # b
        /\ w \in Nat /\ NextSlot(b) \in Slots /\ NextSlot(f) \in Slots
    BY <1>2, <2>1, RingSizes, NextSlotIs DEF InRing
  <2>4. RingSize(NextSlot(f), b) = size - 1
    BY <1>2, <2>3, RingSizes
  <2>5. \A n \in 1 .. (cap - 1) : RingAt(NextSlot(f), n) = RingAt(f, n + 1)
    BY <1>2, RingPlaces
  <2>6. wrPc'[lq'] = "push" => ~NodeFull(lq)'
    <3>1. NextSlot(b) = (IF b + 1 = cap THEN 0 ELSE b + 1)
          /\ NextSlot(f) = (IF f + 1 = cap THEN 0 ELSE f + 1)
      BY <1>2, NextSlotIs
    <3>2. b \in 0 .. (cap - 1) /\ f \in 0 .. (cap - 1) /\ f # b
      BY <1>2, <2>3 DEF Slots
    <3>3. NextSlot(b) # NextSlot(f)
      BY <1>2, <3>1, <3>2
    <3> QED
      BY <1>1, <2>2, <3>3 DEF NodeFull
  <2> HIDE DEF w, size, f, b
  <2>7. Len(pushed[lq]) = w - 0 + (size - 1)
    BY <2>1, <2>3
  <2>8. ASSUME NEW n \in 1 .. (size - 1)
        PROVE  q[lq][RingAt(NextSlot(f), n)] = pushed[lq][w - 0 + n]
    <3>1. n + 1 \in 1 .. size /\ n \in 1 .. (cap - 1) /\ w - 1 + (n + 1) = w - 0 + n
      BY <1>2, <2>3
    <3> QED
      BY <2>1, <2>5, <3>1
  <2>9. 0 <= Len(written'[lq']) /\ Len(written'[lq']) = w
    BY <2>2, <2>3 DEF w
  <2> QED
    BY <1>1, <2>1, <2>2, <2>4, <2>6, <2>7, <2>8, <2>9 DEF LogRing
<1> QED
  BY <1>1, <1>3, <1>4, <1>5 DEF RingInv, LogRings

-----------------------------------------------------------------------------
(* Names and files *)

LEMMA PrefixOfExtended ==
    ASSUME NEW a \in Seq(Parts), NEW t \in Seq(Parts)
    PROVE  IsPrefix(a, a \o t)
<1>1. Len(a) \in Nat /\ Len(t) \in Nat /\ a \o t \in Seq(Parts) /\ Len(a \o t) = Len(a) + Len(t)
  OBVIOUS
<1>2. SubSeq(a, 1, Len(a)) = SubSeq(a \o t, 1, Len(a))
  OBVIOUS
<1> QED
  BY <1>1, <1>2 DEF IsPrefix

LEMMA PrefixOfEachOther ==
    ASSUME NEW a \in Seq(Parts), NEW b \in Seq(Parts), IsPrefix(a, b), IsPrefix(b, a)
    PROVE  a = b
<1>1. Len(a) = Len(b) /\ Len(a) \in Nat
  BY DEF IsPrefix
<1>2. SubSeq(a, 1, Len(a)) = SubSeq(b, 1, Len(a))
  BY DEF IsPrefix
<1>3. SubSeq(a, 1, Len(a)) = a /\ SubSeq(b, 1, Len(b)) = b
  OBVIOUS
<1> QED
  BY <1>1, <1>2, <1>3

LEMMA Short ==
    ASSUME NEW S, NEW x \in S, NEW y \in S
    PROVE  <<x>> \in Seq(S) /\ <<x, y>> \in Seq(S)
OBVIOUS

LEMMA FilesOfNames ==
    ASSUME NEW name \in Names, NEW f \in FilesOf(name)
    PROVE  f \in Seq(Parts) /\ f # NoFile /\ IsPrefix(name, f)
<1>1. name \in Seq(Parts)
  BY LogAssumption
<1>2. PICK t \in Seq(Parts) : f = name \o t /\ t # <<>>
  <2>1. CASE f = name \o <<"log">>
    <3>1. <<"log">> \in Seq(Parts)
      <4>1. "log" \in Parts
        BY DEF Parts
      <4> QED
        BY <4>1, Short, Zenon
    <3>2. <<"log">> # <<>>
      OBVIOUS
    <3> QED
      BY <2>1, <3>1, <3>2
  <2>2. CASE f # name \o <<"log">>
    <3>1. PICK stamp \in Stamps : f = name \o <<stamp, "log">>
      BY <2>2 DEF FilesOf
    <3>2. stamp \in Parts
      BY DEF Parts
    <3>3. <<stamp, "log">> \in Seq(Parts)
      <4>1. "log" \in Parts
        BY DEF Parts
      <4> QED
        BY <3>2, <4>1, Short, Zenon
    <3>4. <<stamp, "log">> # <<>>
      OBVIOUS
    <3> QED
      BY <3>1, <3>3, <3>4
  <2> QED
    BY <2>1, <2>2
<1>3. Len(f) > 0 /\ f \in Seq(Parts)
  BY <1>1, <1>2
<1> QED
  BY <1>1, <1>2, <1>3, PrefixOfExtended DEF NoFile

\* Two names have no file in common.
LEMMA FilesApart ==
    ASSUME NEW a \in Names, NEW b \in Names, NEW f \in FilesOf(a), f \in FilesOf(b)
    PROVE  a = b
<1>1. IsPrefix(a, f) /\ IsPrefix(b, f)
  BY FilesOfNames
<1>2. IsPrefix(a, b) /\ IsPrefix(b, a)
  BY <1>1, LogAssumption
<1>3. a \in Seq(Parts) /\ b \in Seq(Parts)
  BY LogAssumption
<1> QED
  BY <1>2, <1>3, PrefixOfEachOther

-----------------------------------------------------------------------------
(* The entries of li *)

\* The time only bounds when the file was last named.
LEMMA EntryLater ==
    ASSUME NEW e, NEW t \in Nat, NEW u \in Nat, t <= u, EntrySound(e, t)
    PROVE  EntrySound(e, u)
<1>1. Start \in Nat /\ e.last \in {0} \union Start .. t
  BY DEF Start, EntrySound
<1>2. e.last \in {0} \union Start .. u
  BY <1>1
<1> QED
  BY <1>2 DEF EntrySound

LEMMA EntryNew ==
    ASSUME NEW name \in Names
    PROVE  NewEntry(name) \in Entries /\ NewEntry(name).name = name /\ EntrySound(NewEntry(name), seconds)
           /\ NewEntry(name).file = NoFile
<1>1. name \in Seq(Parts) /\ Div[name] \in Nat /\ (name \in Headed) \in BOOLEAN
  <2>1. name \in Seq(Parts) /\ Div \in [Names -> 0 .. Start] /\ Start \in Nat
    BY LogAssumption DEF Start
  <2>2. Div[name] \in Nat
    BY <2>1
  <2>3. (name \in Headed) \in BOOLEAN
    OBVIOUS
  <2> QED
    BY <2>1, <2>2, <2>3, Zenon
<1>2. NoFile \in Seq(Parts) /\ <<>> \in Seq(Nat)
  BY DEF NoFile
<1>3. NewEntry(name) \in Entries
  BY <1>1, <1>2 DEF NewEntry, Entries
<1> QED
  BY <1>3 DEF NewEntry, EntrySound

\* update_file gives every entry one of its own file names.
LEMMA EntryUpdated ==
    ASSUME NEW e \in Entries, EntrySound(e, seconds), seconds \in Nat, seconds >= Start,
           NEW stamp \in Stamps, NEW u, u = UpdateFile(e, stamp)
    PROVE  /\ u \in Entries /\ u.name = e.name /\ u.head = e.head /\ EntrySound(u, seconds)
           /\ u.filename \in FilesOf(u.name)
           /\ Expired(e) => u.file = NoFile /\ u.buf = <<>>
           /\ ~Expired(e) => u.file = e.file /\ u.buf = e.buf
<1>0. Start \in Nat /\ e.div \in 0 .. Start /\ e.name \in Names
  BY LogAssumption DEF Start, EntrySound, Entries
<1>1. e.name \o <<"log">> \in FilesOf(e.name) /\ e.name \o <<stamp, "log">> \in FilesOf(e.name)
  BY DEF FilesOf
<1>2. e.name \o <<"log">> \in Seq(Parts) /\ e.name \o <<stamp, "log">> \in Seq(Parts)
  BY <1>0, <1>1, FilesOfNames
<1>3. NoFile \in Seq(Parts) /\ <<>> \in Seq(Nat)
  BY DEF NoFile
<1>4. CASE Expired(e)
  <2>1. u = [e EXCEPT !.last = seconds, !.file = NoFile, !.buf = <<>>,
                      !.filename = e.name \o <<stamp, "log">>]
    <3>1. e.div # 0
      BY <1>4 DEF Expired
    <3> QED
      BY <1>4, <3>1 DEF UpdateFile
  <2>2. u \in Entries
    BY <1>2, <1>3, <2>1 DEF Entries
  <2>3. /\ u.name = e.name /\ u.head = e.head /\ u.div = e.div /\ u.last = seconds
        /\ u.filename = e.name \o <<stamp, "log">> /\ u.file = NoFile /\ u.buf = <<>>
    BY <2>1 DEF Entries
  <2>4. u.last \in {0} \union Start .. seconds
    BY <1>0, <2>3
  <2> QED
    BY <1>1, <1>4, <2>2, <2>3, <2>4 DEF EntrySound
<1>5. CASE ~Expired(e) /\ e.div = 0 /\ e.file = NoFile
  <2>1. u = [e EXCEPT !.filename = e.name \o <<"log">>]
    BY <1>5 DEF UpdateFile
  <2>2. u \in Entries
    BY <1>2, <2>1 DEF Entries
  <2>3. /\ u.name = e.name /\ u.head = e.head /\ u.div = e.div /\ u.last = e.last
        /\ u.filename = e.name \o <<"log">> /\ u.file = e.file /\ u.buf = e.buf
    BY <2>1 DEF Entries
  <2> QED
    BY <1>1, <1>5, <2>2, <2>3 DEF EntrySound
<1>6. CASE ~Expired(e) /\ ~(e.div = 0 /\ e.file = NoFile)
  <2>1. u = e
    BY <1>6 DEF UpdateFile
  <2>2. e.filename \in FilesOf(e.name)
    <3>1. CASE e.div = 0
      BY <1>6, <3>1 DEF EntrySound
    <3>2. CASE e.div # 0
      <4>1. e.last # 0
        BY <1>0, <1>6, <3>2 DEF Expired
      <4> QED
        BY <3>2, <4>1 DEF EntrySound
    <3> QED
      BY <3>1, <3>2
  <2> QED
    BY <1>6, <2>1, <2>2
<1> QED
  BY <1>4, <1>5, <1>6

\* The file is opened and the line put into its buffer.
LEMMA EntryWritten ==
    ASSUME NEW u \in Entries, NEW t, EntrySound(u, t), u.filename \in FilesOf(u.name),
           NEW files, NEW n \in Nat, NEW p, p = Put(OpenFile(u, files), n)
    PROVE  /\ p \in Entries /\ p.name = u.name /\ EntrySound(p, t) /\ p.file = u.filename
           /\ u.file # NoFile => p.buf = Append(u.buf, n)
           /\ u.file = NoFile /\ u.filename \notin files /\ u.head => p.buf = Append(<<HeadLine>>, n)
           /\ u.file = NoFile /\ (u.filename \in files \/ ~u.head) => p.buf = <<n>>
<1>0. u.name \in Names /\ u.filename # NoFile /\ u.filename \in Seq(Parts) /\ u.buf \in Seq(Nat)
  BY FilesOfNames DEF Entries
<1>1. CASE u.file # NoFile
  <2>1. p = [u EXCEPT !.buf = Append(u.buf, n), !.has_data = TRUE]
    <3>1. OpenFile(u, files) = u
      BY <1>1 DEF OpenFile
    <3> QED
      BY <3>1 DEF Put
  <2>2. p \in Entries
    <3>1. Append(u.buf, n) \in Seq(Nat)
      BY <1>0
    <3> QED
      BY <1>0, <2>1, <3>1 DEF Entries
  <2>3. /\ p.name = u.name /\ p.head = u.head /\ p.div = u.div /\ p.last = u.last
        /\ p.filename = u.filename /\ p.file = u.file /\ p.buf = Append(u.buf, n)
    BY <2>1 DEF Entries
  <2> QED
    BY <1>1, <2>2, <2>3 DEF EntrySound
<1>2. CASE u.file = NoFile
  <2> DEFINE h == IF u.filename \notin files /\ u.head THEN <<HeadLine>> ELSE <<>>
  <2>1. h \in Seq(Nat) /\ Append(h, n) \in Seq(Nat)
    BY DEF HeadLine
  <2>2. p = [u EXCEPT !.file = u.filename, !.buf = Append(h, n), !.has_data = TRUE]
    <3>1. OpenFile(u, files) = [u EXCEPT !.file = u.filename, !.buf = h]
      BY <1>2 DEF OpenFile
    <3>2. [u EXCEPT !.file = u.filename, !.buf = h].buf = h
      BY DEF Entries
    <3>3. [[u EXCEPT !.file = u.filename, !.buf = h]
              EXCEPT !.buf = Append(h, n), !.has_data = TRUE]
          = [u EXCEPT !.file = u.filename, !.buf = Append(h, n), !.has_data = TRUE]
      BY DEF Entries
    <3> HIDE DEF h
    <3> QED
      BY <3>1, <3>2, <3>3 DEF Put
  <2>3. Append(<<>>, n) = <<n>>
    OBVIOUS
  <2> HIDE DEF h
  <2>4. p \in Entries
    BY <1>0, <2>1, <2>2 DEF Entries
  <2>5. /\ p.name = u.name /\ p.head = u.head /\ p.div = u.div /\ p.last = u.last
        /\ p.filename = u.filename /\ p.file = u.filename /\ p.buf = Append(h, n)
    BY <2>2 DEF Entries
  <2>6. EntrySound(p, t)
    BY <1>0, <2>5 DEF EntrySound
  <2> QED
    BY <1>2, <2>3, <2>4, <2>5, <2>6 DEF h
<1> QED
  BY <1>1, <1>2

-----------------------------------------------------------------------------
(* The table *)

TableInv == RingInv /\ LogTable /\ LogNumbers /\ LogIds

\* Every entry stays one of its name.
LEMMA EntriesStay ==
    ASSUME LogTable, LogNumbers, li' \in Seq(Entries), Len(li') = Len(li), regs' = regs,
           \A i \in 1 .. Len(li) : EntrySound(li'[i], seconds') /\ li'[i].name = li[i].name
    PROVE  LogTable' /\ LogNumbers'
<1>1. LogTable'
  BY DEF LogTable
<1>2. LogNumbers'
  BY DEF LogNumbers
<1> QED
  BY <1>1, <1>2

LEMMA IdsStay ==
    ASSUME LogIds, Len(li') = Len(li), UNCHANGED <<wrPc, q, back, pushed>>
    PROVE  LogIds'
BY DEF LogIds, Filling

LEMMA RegKeepsTable ==
    ASSUME TableInv, NEW name \in Names, Reg(name)
    PROVE  LogTable' /\ LogNumbers' /\ LogIds'
<1>1. /\ UNCHANGED <<wrPc, q, back, pushed, seconds>>
      /\ \/ /\ Len(li) = MaxIds /\ li' = li /\ regs' = regs \union {<<name, 1>>}
         \/ /\ li' = li
            /\ \E i \in Registered(name) : regs' = regs \union {<<name, i>>}
         \/ /\ Len(li) < MaxIds /\ Registered(name) = {}
            /\ li' = Append(li, NewEntry(name)) /\ regs' = regs \union {<<name, Len(li) + 1>>}
  BY DEF Reg, RegTo, ringVars, prodVars, worldVars
<1>2. /\ li \in Seq(Entries) /\ Len(li) \in Nat /\ Len(li) <= MaxIds /\ MaxIds \in Nat
      /\ DOMAIN li = 1 .. Len(li) /\ name \in Seq(Parts) /\ seconds \in Nat
      /\ \A i \in 1 .. Len(li) : li[i] \in Entries /\ EntrySound(li[i], seconds)
  BY LogAssumption DEF TableInv, LogTable, RingInv, LogTypes
<1>3. \A i \in 1 .. Len(li) : EntrySound(li[i], seconds')
  BY <1>1, <1>2
<1>4. ASSUME NEW i \in Registered(name)
      PROVE  i \in 1 .. Len(li) /\ IsPrefix(name, li[i].name)
  <2>1. i \in 1 .. Len(li) /\ IsPrefix(name, li[i].filename)
    BY <1>2 DEF Registered, SameFile
  <2>2. li[i].filename = li[i].name \/ li[i].filename \in FilesOf(li[i].name)
    BY <1>2, <2>1 DEF EntrySound
  <2>3. li[i].name \in Names
    BY <1>2, <2>1 DEF Entries
  <2> QED
    BY <2>1, <2>2, <2>3, LogAssumption
<1>5. CASE li' = li
  <2>1. LogTable'
    BY <1>3, <1>5 DEF TableInv, LogTable
  <2>2. LogIds'
    BY <1>1, <1>5, IdsStay DEF TableInv
  <2>3. PICK i \in 1 .. Len(li) : /\ regs' = regs \union {<<name, i>>}
                                  /\ IsPrefix(name, li[i].name) \/ (Len(li) = MaxIds /\ i = 1)
    <3>1. CASE Len(li) = MaxIds /\ regs' = regs \union {<<name, 1>>}
      <4>1. 1 \in 1 .. Len(li)
        BY <3>1, LogAssumption
      <4> QED
        BY <3>1, <4>1, Zenon
    <3>2. CASE \E i \in Registered(name) : regs' = regs \union {<<name, i>>}
      BY <1>4, <3>2
    <3>3. CASE li' = Append(li, NewEntry(name))
      <4>1. Len(li') = Len(li) + 1
        BY <1>2, <3>3
      <4> QED
        BY <1>2, <1>5, <4>1
    <3> QED
      BY <1>1, <3>1, <3>2, <3>3
  <2>4. LogNumbers'
    BY <1>5, <2>3 DEF TableInv, LogNumbers
  <2> QED
    BY <2>1, <2>2, <2>4
<1>6. CASE /\ Len(li) < MaxIds /\ Registered(name) = {}
           /\ li' = Append(li, NewEntry(name)) /\ regs' = regs \union {<<name, Len(li) + 1>>}
  <2> DEFINE e == NewEntry(name)
             n == Len(li)
  <2>1. e \in Entries /\ e.name = name /\ EntrySound(e, seconds)
    BY EntryNew
  <2>2. EntrySound(e, seconds')
    BY <1>1, <2>1
  <2> HIDE DEF e
  <2>3. /\ li' \in Seq(Entries) /\ Len(li') = n + 1 /\ li'[n + 1] = e
        /\ \A i \in 1 .. n : li'[i] = li[i]
    BY <1>2, <1>6, <2>1 DEF e
  <2>4. ASSUME NEW i \in 1 .. n PROVE li[i].name # name
    <3>1. ~IsPrefix(name, li[i].filename)
      BY <1>2, <1>6 DEF Registered, SameFile
    <3>2. li[i].filename = li[i].name \/ li[i].filename \in FilesOf(li[i].name)
      BY <1>2 DEF EntrySound
    <3>3. IsPrefix(name, name)
      BY <1>2 DEF IsPrefix
    <3> QED
      BY <3>1, <3>2, <3>3, FilesOfNames
  <2> HIDE DEF n
  <2>5. n \in Nat /\ n + 1 <= MaxIds
    BY <1>2, <1>6 DEF n
  <2>6. LogTable'
    <3>1. ASSUME NEW i \in 1 .. (n + 1) PROVE EntrySound(li'[i], seconds')
      BY <1>3, <2>2, <2>3, <2>5 DEF n
    <3>2. ASSUME NEW i \in 1 .. (n + 1), NEW j \in 1 .. (n + 1), li'[i].name = li'[j].name
          PROVE  i = j
      <4>1. \A a, b \in 1 .. n : li[a].name = li[b].name => a = b
        BY DEF TableInv, LogTable, n
      <4> QED
        BY <2>1, <2>3, <2>4, <2>5, <3>2, <4>1
    <3> QED
      BY <2>3, <2>5, <3>1, <3>2 DEF LogTable
  <2>7. LogNumbers'
    <3> SUFFICES ASSUME NEW r \in regs'
                 PROVE  /\ r[1] \in Names /\ r[2] \in 1 .. (n + 1)
                        /\ IsPrefix(r[1], li'[r[2]].name) \/ (n + 1 = MaxIds /\ r[2] = 1)
      BY <2>3 DEF LogNumbers
    <3>1. CASE r = <<name, n + 1>>
      <4>1. IsPrefix(name, name)
        BY <1>2 DEF IsPrefix
      <4>2. r[1] = name /\ r[2] = n + 1
        BY <3>1
      <4>3. li'[r[2]].name = name
        BY <2>1, <2>3, <4>2
      <4>4. n + 1 \in 1 .. (n + 1)
        BY <2>5
      <4>5. IsPrefix(r[1], li'[r[2]].name) /\ r[2] \in 1 .. (n + 1)
        BY <4>1, <4>2, <4>3, <4>4
      <4>6. r[1] \in Names
        BY <4>2
      <4> QED
        BY <4>5, <4>6, Zenon
    <3>2. CASE r \in regs
      <4>0. Len(li) # MaxIds
        <5>1. Len(li) < MaxIds /\ Len(li) \in Nat /\ MaxIds \in Nat
          BY <1>2, <1>6, Zenon
        <5> QED
          BY <5>1
      <4>1. /\ r[1] \in Names /\ r[2] \in 1 .. n
            /\ IsPrefix(r[1], li[r[2]].name)
        BY <3>2, <4>0, Zenon DEF TableInv, LogNumbers, n
      <4>2. li'[r[2]] = li[r[2]]
        BY <2>3, <4>1
      <4> QED
        BY <2>5, <4>1, <4>2
    <3> QED
      BY <1>6, <3>1, <3>2 DEF n
  <2>8. LogIds'
    <3>1. \A i \in 1 .. n : i \in 1 .. (n + 1)
      BY <2>5
    <3> QED
      BY <1>1, <2>3, <3>1 DEF TableInv, LogIds, Filling, n
  <2> QED
    BY <2>6, <2>7, <2>8
<1> QED
  BY <1>1, <1>5, <1>6

\* Steps that leave the table alone.
LEMMA TableStays ==
    ASSUME TableInv, li' = li, regs' = regs, seconds' = seconds \/ seconds' = seconds + 1
    PROVE  LogTable' /\ LogNumbers'
<1>1. seconds \in Nat /\ seconds' \in Nat /\ seconds <= seconds'
  BY DEF TableInv, RingInv, LogTypes
<1>2. \A i \in 1 .. Len(li) : EntrySound(li[i], seconds')
  BY <1>1, EntryLater DEF TableInv, LogTable
<1> QED
  BY <1>2 DEF TableInv, LogTable, LogNumbers

LEMMA LineKeepsTable ==
    ASSUME TableInv, NEW k \in Queues, NEW id \in Numbers(k), WriteLine(k, id)
    PROVE  id \in Nat /\ LogTable' /\ LogNumbers' /\ LogIds'
<1>1. UNCHANGED <<back, pushed, li, regs, seconds>>
  BY DEF WriteLine, regVars, worldVars
<1>2. id \in 1 .. Len(li)
  <2>1. li \in Seq(Entries)
    BY DEF TableInv, LogTable
  <2>2. id \in DOMAIN li \/ \E r \in regs : id = r[2]
    BY DEF Numbers
  <2> QED
    BY <2>1, <2>2 DEF TableInv, LogNumbers
<1>3. id \in Nat
  BY <1>2
<1>4. LogIds'
  <2>1. /\ back[k] \in Slots /\ q \in [Queues -> [Slots -> Nodes]]
        /\ wrPc \in [Queues -> {"idle", "push"}]
    BY DEF TableInv, RingInv, LogTypes
  <2>2. ASSUME NEW o \in Queues, wrPc'[o] = "push" PROVE Filling(o)'.id \in 1 .. Len(li)
    <3>1. CASE o = k /\ Fill(k, id)
      <4>1. q'[o][back'[o]] = [line |-> lines', id |-> id]
        BY <1>1, <2>1, <3>1 DEF Fill
      <4> QED
        BY <1>2, <4>1 DEF Filling
    <3>2. CASE ~(o = k /\ Fill(k, id))
      <4>1. q'[o] = q[o] /\ wrPc'[o] = wrPc[o]
        BY <2>1, <3>2 DEF WriteLine, Fill, Urgent
      <4> QED
        BY <1>1, <2>2, <4>1 DEF TableInv, LogIds, Filling
    <3> QED
      BY <3>1, <3>2
  <2> QED
    BY <1>1, <2>2 DEF TableInv, LogIds
<1> QED
  BY <1>1, <1>3, <1>4, TableStays

LEMMA PushKeepsTable ==
    ASSUME TableInv, NEW k \in Queues, Push(k)
    PROVE  LogTable' /\ LogNumbers' /\ LogIds'
<1>1. UNCHANGED <<q, li, regs, seconds>>
  BY DEF Push, regVars, worldVars
<1>2. ~NodeFull(k) /\ wrPc[k] = "push"
  BY PushKeepsRings DEF Push, TableInv
<1>3. /\ wrPc' = [wrPc EXCEPT ![k] = "idle"]
      /\ back' = [back EXCEPT ![k] = NextSlot(back[k])]
      /\ pushed' = [pushed EXCEPT ![k] = Append(@, Filling(k))]
  BY <1>2 DEF Push, Filling
<1>4. /\ back \in [Queues -> Slots] /\ pushed \in [Queues -> Seq(Nodes)]
      /\ wrPc \in [Queues -> {"idle", "push"}] /\ Filling(k) \in Nodes
  BY DEF TableInv, RingInv, LogTypes, Filling
<1>5. LogIds'
  <2>1. ASSUME NEW o \in Queues, wrPc'[o] = "push" PROVE Filling(o)'.id \in 1 .. Len(li)
    <3>1. o # k /\ wrPc[o] = "push" /\ back'[o] = back[o]
      BY <1>3, <1>4, <2>1
    <3> QED
      BY <1>1, <3>1 DEF TableInv, LogIds, Filling
  <2>2. ASSUME NEW o \in Queues, NEW i \in 1 .. Len(pushed'[o])
        PROVE  pushed'[o][i].id \in 1 .. Len(li)
    <3>1. CASE o # k
      BY <1>3, <1>4, <2>2, <3>1 DEF TableInv, LogIds
    <3>2. CASE o = k
      <4>1. /\ Len(pushed'[k]) = Len(pushed[k]) + 1 /\ Len(pushed[k]) \in Nat
            /\ pushed'[k][Len(pushed[k]) + 1] = Filling(k)
            /\ \A j \in 1 .. Len(pushed[k]) : pushed'[k][j] = pushed[k][j]
        BY <1>3, <1>4
      <4>2. i = Len(pushed[k]) + 1 \/ i \in 1 .. Len(pushed[k])
        BY <2>2, <3>2, <4>1
      <4>3. Filling(k).id \in 1 .. Len(li)
        BY <1>2 DEF TableInv, LogIds
      <4>4. \A j \in 1 .. Len(pushed[k]) : pushed[k][j].id \in 1 .. Len(li)
        BY DEF TableInv, LogIds
      <4> QED
        BY <3>2, <4>1, <4>2, <4>3, <4>4
    <3> QED
      BY <3>1, <3>2
  <2> QED
    BY <1>1, <2>1, <2>2 DEF LogIds
<1> QED
  BY <1>1, <1>5, TableStays

\* The log thread changes one entry, which keeps its name.
LEMMA EntryStays ==
    ASSUME TableInv, NEW i \in 1 .. Len(li), NEW e \in Entries, e.name = li[i].name,
           EntrySound(e, seconds), li' = [li EXCEPT ![i] = e],
           UNCHANGED <<wrPc, q, back, pushed, regs, seconds>>
    PROVE  LogTable' /\ LogNumbers' /\ LogIds'
<1>1. li \in Seq(Entries) /\ DOMAIN li = 1 .. Len(li)
  BY DEF TableInv, LogTable
<1>2. /\ li' \in Seq(Entries) /\ Len(li') = Len(li) /\ li'[i] = e
      /\ \A j \in 1 .. Len(li) : j # i => li'[j] = li[j]
  BY <1>1
<1>3. \A j \in 1 .. Len(li) : EntrySound(li'[j], seconds') /\ li'[j].name = li[j].name
  BY <1>2 DEF TableInv, LogTable
<1> QED
  BY <1>2, <1>3, EntriesStay, IdsStay DEF TableInv

\* The entry that the line at the front is for.
LEMMA NodeHasEntry ==
    ASSUME TableInv, Written
    PROVE  /\ Node.id \in 1 .. Len(li) /\ Node.line \in Nat
           /\ li[Node.id] \in Entries /\ EntrySound(li[Node.id], seconds)
<1>1. /\ Len(written[lq]) \in Nat /\ Len(written[lq]) < Len(pushed[lq])
      /\ Node = pushed[lq][Len(written[lq]) + 1] /\ Node \in Nodes /\ lq \in Queues
  BY NodeIsNext DEF Written, TableInv, RingInv, LogTypes
<1>2. Len(pushed[lq]) \in Nat
  BY <1>1 DEF TableInv, RingInv, LogTypes
<1>3. Len(written[lq]) + 1 \in 1 .. Len(pushed[lq])
  BY <1>1, <1>2
<1>4. Node.id \in 1 .. Len(li)
  BY <1>1, <1>3 DEF TableInv, LogIds
<1> QED
  BY <1>1, <1>4 DEF TableInv, LogTable, Nodes

LEMMA WriteKeepsTable ==
    ASSUME TableInv, Write \/ WriteUnopened
    PROVE  LogTable' /\ LogNumbers' /\ LogIds'
<1>1. Written /\ UNCHANGED <<wrPc, q, back, pushed, regs, seconds>>
  BY DEF Write, WriteUnopened, Written, ringVars, prodVars, worldVars
<1>2. /\ Node.id \in 1 .. Len(li) /\ Node.line \in Nat
      /\ li[Node.id] \in Entries /\ EntrySound(li[Node.id], seconds)
  BY <1>1, NodeHasEntry
<1>3. seconds \in Nat /\ seconds >= Start
  BY DEF TableInv, RingInv, LogTypes
<1>4. PICK stamp \in Stamps :
         \/ li' = [li EXCEPT ![Node.id] = UpdateFile(li[Node.id], stamp)]
         \/ li' = [li EXCEPT ![Node.id] = Put(OpenFile(UpdateFile(li[Node.id], stamp), DOMAIN disk),
                                              Node.line)]
  BY DEF Write, WriteUnopened
<1> DEFINE u == UpdateFile(li[Node.id], stamp)
<1>5. u \in Entries /\ u.name = li[Node.id].name /\ EntrySound(u, seconds)
      /\ u.filename \in FilesOf(u.name)
  BY <1>2, <1>3, EntryUpdated
<1> HIDE DEF u
<1> DEFINE p == Put(OpenFile(u, DOMAIN disk), Node.line)
<1>6. p \in Entries /\ p.name = u.name /\ EntrySound(p, seconds)
  BY <1>2, <1>5, EntryWritten
<1>7. li' = [li EXCEPT ![Node.id] = u] \/ li' = [li EXCEPT ![Node.id] = p]
  BY <1>4 DEF u
<1> HIDE DEF p
<1> QED
  BY <1>1, <1>2, <1>5, <1>6, <1>7, EntryStays

LEMMA FlushKeepsTable ==
    ASSUME TableInv, Flush
    PROVE  LogTable' /\ LogNumbers' /\ LogIds'
<1>1. /\ UNCHANGED <<wrPc, q, back, pushed, regs, seconds>>
      /\ \/ li' = li
         \/ li' = [i \in DOMAIN li |->
                      IF HasFlush(i) THEN [li[i] EXCEPT !.buf = <<>>, !.has_data = FALSE]
                                     ELSE li[i]]
  BY DEF Flush, ringVars, prodVars, worldVars
<1>2. CASE li' = li
  BY <1>1, <1>2, TableStays, IdsStay DEF TableInv
<1>3. CASE li' = [i \in DOMAIN li |->
                     IF HasFlush(i) THEN [li[i] EXCEPT !.buf = <<>>, !.has_data = FALSE]
                                    ELSE li[i]]
  <2>1. li \in Seq(Entries) /\ DOMAIN li = 1 .. Len(li) /\ Len(li) \in Nat
    BY DEF TableInv, LogTable
  <2>2. ASSUME NEW i \in 1 .. Len(li)
        PROVE  li'[i] \in Entries /\ EntrySound(li'[i], seconds') /\ li'[i].name = li[i].name
    <3>1. li[i] \in Entries /\ EntrySound(li[i], seconds)
      BY DEF TableInv, LogTable
    <3>2. CASE ~HasFlush(i)
      BY <1>1, <1>3, <2>1, <3>1, <3>2
    <3>3. CASE HasFlush(i)
      <4>1. li'[i] = [li[i] EXCEPT !.buf = <<>>, !.has_data = FALSE]
        BY <1>3, <2>1, <3>3
      <4>2. <<>> \in Seq(Nat)
        OBVIOUS
      <4>3. li'[i] \in Entries
        BY <3>1, <4>1, <4>2 DEF Entries
      <4>4. /\ li'[i].name = li[i].name /\ li'[i].div = li[i].div /\ li'[i].head = li[i].head
            /\ li'[i].last = li[i].last /\ li'[i].filename = li[i].filename
            /\ li'[i].file = li[i].file /\ li'[i].buf = <<>>
        BY <3>1, <4>1 DEF Entries
      <4> QED
        BY <1>1, <3>1, <4>3, <4>4 DEF EntrySound
    <3> QED
      BY <3>2, <3>3
  <2>3. li' \in Seq(Entries) /\ Len(li') = Len(li)
    <3>1. li' \in [1 .. Len(li) -> Entries]
      BY <1>3, <2>1, <2>2
    <3> QED
      BY <2>1, <3>1
  <2> QED
    BY <1>1, <2>2, <2>3, EntriesStay, IdsStay DEF TableInv
<1> QED
  BY <1>1, <1>2, <1>3

LEMMA InitTable == LogInit => LogTable /\ LogNumbers /\ LogIds
<1> SUFFICES ASSUME LogInit PROVE LogTable /\ LogNumbers /\ LogIds
  OBVIOUS
<1>1. li = <<>> /\ regs = {} /\ \A k \in Queues : wrPc[k] = "idle" /\ pushed[k] = <<>>
  BY DEF LogInit, Fresh
<1> QED
  BY <1>1, LogAssumption DEF LogTable, LogNumbers, LogIds

LEMMA AgainTable == StartAgain => LogTable' /\ LogNumbers' /\ LogIds'
<1> SUFFICES ASSUME StartAgain PROVE LogTable' /\ LogNumbers' /\ LogIds'
  OBVIOUS
<1>1. li' = <<>> /\ regs' = {} /\ \A k \in Queues : wrPc'[k] = "idle" /\ pushed'[k] = <<>>
  BY DEF StartAgain, Fresh
<1> QED
  BY <1>1, LogAssumption DEF LogTable, LogNumbers, LogIds

-----------------------------------------------------------------------------
(* The lines: each in one place *)

LinesInv == RingInv /\ LinesApart /\ LinesKept

LEMMA LinesStay ==
    ASSUME LinesInv, UNCHANGED <<back, q, wrPc, pushed, lines, base, urgent>>
    PROVE  LinesApart' /\ LinesKept'
BY DEF LinesInv, LinesApart, LinesKept, Filling

LEMMA InitLines == LogInit => LinesApart /\ LinesKept
<1> SUFFICES ASSUME LogInit PROVE LinesApart /\ LinesKept
  OBVIOUS
<1>1. lines = 0 /\ base = 0 /\ \A k \in Queues : wrPc[k] = "idle" /\ pushed[k] = <<>>
  BY DEF LogInit, Fresh
<1> QED
  BY <1>1 DEF LinesApart, LinesKept

LEMMA AgainLines == RingInv /\ StartAgain => LinesApart' /\ LinesKept'
<1> SUFFICES ASSUME RingInv, StartAgain PROVE LinesApart' /\ LinesKept'
  OBVIOUS
<1>1. /\ lines' = lines /\ base' = lines /\ lines \in Nat
      /\ \A k \in Queues : wrPc'[k] = "idle" /\ pushed'[k] = <<>>
  BY DEF StartAgain, Fresh, RingInv, LogTypes
<1> QED
  BY <1>1 DEF LinesApart, LinesKept

\* The new line is in the node that is filled, or in the urgent file.
LEMMA LineKeepsLines ==
    ASSUME LinesInv, NEW k \in Queues, NEW id \in Nat, WriteLine(k, id)
    PROVE  LinesApart' /\ LinesKept'
<1> DEFINE n == lines'
<1>1. UNCHANGED <<back, pushed, base>> /\ wrPc[k] = "idle"
  BY DEF WriteLine, worldVars
<1>2. /\ lines \in Nat /\ n = lines + 1 /\ base \in 0 .. lines
      /\ \A m \in urgent : m \in 1 .. lines
      /\ back[k] \in Slots /\ q \in [Queues -> [Slots -> Nodes]]
      /\ wrPc \in [Queues -> {"idle", "push"}]
  BY DEF WriteLine, Fill, Urgent, LinesInv, RingInv, LogTypes
<1>3. /\ n \in Nat /\ n \notin urgent /\ n \in (base + 1) .. n
      /\ \A m \in (base + 1) .. lines : m \in (base + 1) .. n /\ m # n
      /\ \A m \in (base + 1) .. n : m \in (base + 1) .. lines \/ m = n
  BY <1>2
<1> HIDE DEF n
<1>4. ASSUME NEW o \in Queues, wrPc[o] = "push"
      PROVE  /\ o # k /\ Filling(o).line \in (base + 1) .. lines /\ Filling(o).line \notin urgent
             /\ \A p \in Queues : wrPc[p] = "push" /\ Filling(p).line = Filling(o).line => p = o
  BY <1>1, <1>4 DEF LinesInv, LinesApart
<1>5. ASSUME NEW o \in Queues, NEW i \in 1 .. Len(pushed[o])
      PROVE  /\ pushed[o][i].line \in (base + 1) .. lines
             /\ pushed[o][i].line \notin urgent
             /\ \A p \in Queues : wrPc[p] = "push" => Filling(p).line # pushed[o][i].line
  BY <1>5 DEF LinesInv, LinesApart
<1>6. \A m \in (base + 1) .. lines :
         \/ m \in urgent
         \/ \E o \in Queues : wrPc[o] = "push" /\ Filling(o).line = m
         \/ \E o \in Queues : \E i \in 1 .. Len(pushed[o]) : pushed[o][i].line = m
  BY DEF LinesInv, LinesKept
<1>7. \A o \in Queues : o # k => wrPc'[o] = wrPc[o] /\ Filling(o)' = Filling(o)
  BY <1>1, <1>2 DEF WriteLine, Fill, Urgent, Filling
<1>8. CASE Fill(k, id)
  <2>1. wrPc'[k] = "push" /\ Filling(k)'.line = n /\ urgent' = urgent
    BY <1>1, <1>2, <1>8 DEF Fill, Filling, n
  <2>2. LinesApart'
    <3>1. ASSUME NEW o \in Queues, wrPc'[o] = "push"
          PROVE  /\ Filling(o)'.line \in (base + 1) .. n /\ Filling(o)'.line \notin urgent
                 /\ \A p \in Queues : wrPc'[p] = "push" /\ Filling(p)'.line = Filling(o)'.line => p = o
      <4>1. CASE o = k
        BY <1>3, <1>4, <1>7, <2>1, <4>1
      <4>2. CASE o # k
        BY <1>3, <1>4, <1>7, <2>1, <3>1, <4>2
      <4> QED
        BY <4>1, <4>2
    <3>2. ASSUME NEW o \in Queues, NEW i \in 1 .. Len(pushed[o])
          PROVE  /\ pushed[o][i].line \in (base + 1) .. n /\ pushed[o][i].line \notin urgent
                 /\ \A p \in Queues : wrPc'[p] = "push" => Filling(p)'.line # pushed[o][i].line
      BY <1>3, <1>5, <1>7, <2>1
    <3> QED
      BY <1>1, <2>1, <3>1, <3>2 DEF LinesApart, n
  <2>3. LinesKept'
    <3>1. ASSUME NEW m \in (base + 1) .. n
          PROVE  \/ m \in urgent
                 \/ \E o \in Queues : wrPc'[o] = "push" /\ Filling(o)'.line = m
                 \/ \E o \in Queues : \E i \in 1 .. Len(pushed[o]) : pushed[o][i].line = m
      <4>1. CASE m = n
        BY <2>1, <4>1
      <4>2. CASE m # n
        <5>1. m \in (base + 1) .. lines
          BY <1>3, <4>2, Zenon
        <5> QED
          BY <1>4, <1>6, <1>7, <5>1
      <4> QED
        BY <4>1, <4>2
    <3> QED
      BY <1>1, <2>1, <3>1 DEF LinesKept, n
  <2> QED
    BY <2>2, <2>3
<1>9. CASE Urgent(k)
  <2>1. wrPc' = wrPc /\ q' = q /\ urgent' = urgent \union {n}
    BY <1>9 DEF Urgent, n
  <2>2. \A o \in Queues : Filling(o)' = Filling(o)
    BY <1>1, <2>1 DEF Filling
  <2>3. LinesApart'
    <3>1. ASSUME NEW o \in Queues, wrPc[o] = "push"
          PROVE  /\ Filling(o).line \in (base + 1) .. n /\ Filling(o).line \notin urgent'
                 /\ \A p \in Queues : wrPc[p] = "push" /\ Filling(p).line = Filling(o).line => p = o
      BY <1>3, <1>4, <2>1, <3>1
    <3>2. ASSUME NEW o \in Queues, NEW i \in 1 .. Len(pushed[o])
          PROVE  /\ pushed[o][i].line \in (base + 1) .. n /\ pushed[o][i].line \notin urgent'
                 /\ \A p \in Queues : wrPc[p] = "push" => Filling(p).line # pushed[o][i].line
      BY <1>3, <1>5, <2>1
    <3> QED
      BY <1>1, <2>1, <2>2, <3>1, <3>2 DEF LinesApart, n
  <2>4. LinesKept'
    <3>1. ASSUME NEW m \in (base + 1) .. n
          PROVE  \/ m \in urgent'
                 \/ \E o \in Queues : wrPc'[o] = "push" /\ Filling(o)'.line = m
                 \/ \E o \in Queues : \E i \in 1 .. Len(pushed[o]) : pushed[o][i].line = m
      <4>1. m \in (base + 1) .. lines \/ m = n
        BY <1>3, Zenon
      <4> QED
        BY <1>6, <2>1, <2>2, <4>1
    <3> QED
      BY <1>1, <3>1 DEF LinesKept, n
  <2> QED
    BY <2>3, <2>4
<1> QED
  BY <1>8, <1>9 DEF WriteLine

\* The line in the node that is filled becomes a pushed one.
LEMMA PushKeepsLines ==
    ASSUME LinesInv, NEW k \in Queues, Push(k)
    PROVE  LinesApart' /\ LinesKept'
<1>1. UNCHANGED <<q, urgent, lines, base>>
  BY DEF Push, worldVars
<1>2. ~NodeFull(k) /\ wrPc[k] = "push"
  BY PushKeepsRings DEF Push, LinesInv
<1>3. /\ wrPc' = [wrPc EXCEPT ![k] = "idle"]
      /\ back' = [back EXCEPT ![k] = NextSlot(back[k])]
      /\ pushed' = [pushed EXCEPT ![k] = Append(@, Filling(k))]
  BY <1>2 DEF Push, Filling
<1>4. /\ back \in [Queues -> Slots] /\ pushed \in [Queues -> Seq(Nodes)]
      /\ wrPc \in [Queues -> {"idle", "push"}] /\ Filling(k) \in Nodes
  BY DEF LinesInv, RingInv, LogTypes, Filling
<1>5. /\ wrPc'[k] = "idle"
      /\ \A o \in Queues : o # k => /\ wrPc'[o] = wrPc[o] /\ Filling(o)' = Filling(o)
                                    /\ pushed'[o] = pushed[o]
  BY <1>1, <1>3, <1>4 DEF Filling
<1> DEFINE w == Len(pushed[k])
<1>6. /\ Len(pushed'[k]) = w + 1 /\ w \in Nat
      /\ pushed'[k][w + 1] = Filling(k)
      /\ \A j \in 1 .. w : pushed'[k][j] = pushed[k][j]
  BY <1>3, <1>4
<1> HIDE DEF w
<1>7. \A i \in 1 .. (w + 1) : i = w + 1 \/ i \in 1 .. w
  BY <1>6
<1>8. LinesApart'
  <2>1. ASSUME NEW o \in Queues, wrPc'[o] = "push"
        PROVE  /\ Filling(o)'.line \in (base + 1) .. lines /\ Filling(o)'.line \notin urgent
               /\ \A p \in Queues : wrPc'[p] = "push" /\ Filling(p)'.line = Filling(o)'.line => p = o
    <3>1. o # k
      BY <1>5, <2>1
    <3>2. /\ Filling(o).line \in (base + 1) .. lines /\ Filling(o).line \notin urgent
          /\ \A p \in Queues : wrPc[p] = "push" /\ Filling(p).line = Filling(o).line => p = o
      BY <1>5, <2>1, <3>1 DEF LinesInv, LinesApart
    <3> QED
      BY <1>5, <3>1, <3>2
  <2>2. ASSUME NEW o \in Queues, NEW i \in 1 .. Len(pushed'[o])
        PROVE  /\ pushed'[o][i].line \in (base + 1) .. lines /\ pushed'[o][i].line \notin urgent
               /\ \A p \in Queues : wrPc'[p] = "push" => Filling(p)'.line # pushed'[o][i].line
    <3>1. CASE o = k /\ i = w + 1
      <4>1. /\ Filling(k).line \in (base + 1) .. lines /\ Filling(k).line \notin urgent
            /\ \A p \in Queues : wrPc[p] = "push" /\ Filling(p).line = Filling(k).line => p = k
        BY <1>2 DEF LinesInv, LinesApart
      <4> QED
        BY <1>5, <1>6, <3>1, <4>1
    <3>2. CASE ~(o = k /\ i = w + 1)
      <4>1. i \in 1 .. Len(pushed[o]) /\ pushed'[o][i] = pushed[o][i]
        BY <1>5, <1>6, <1>7, <2>2, <3>2 DEF w
      <4>2. /\ pushed[o][i].line \in (base + 1) .. lines /\ pushed[o][i].line \notin urgent
            /\ \A p \in Queues : wrPc[p] = "push" => Filling(p).line # pushed[o][i].line
        BY <4>1 DEF LinesInv, LinesApart
      <4> QED
        BY <1>5, <4>1, <4>2
    <3> QED
      BY <3>1, <3>2
  <2> QED
    BY <1>1, <2>1, <2>2 DEF LinesApart
<1>9. LinesKept'
  <2>1. ASSUME NEW m \in (base + 1) .. lines
        PROVE  \/ m \in urgent
               \/ \E o \in Queues : wrPc'[o] = "push" /\ Filling(o)'.line = m
               \/ \E o \in Queues : \E i \in 1 .. Len(pushed'[o]) : pushed'[o][i].line = m
    <3>1. CASE \E o \in Queues : wrPc[o] = "push" /\ Filling(o).line = m
      <4>1. PICK o \in Queues : wrPc[o] = "push" /\ Filling(o).line = m
        BY <3>1
      <4>2. CASE o = k
        <5>1. w + 1 \in 1 .. Len(pushed'[k])
          BY <1>6
        <5> QED
          BY <1>6, <4>1, <4>2, <5>1
      <4>3. CASE o # k
        BY <1>5, <4>1, <4>3
      <4> QED
        BY <4>2, <4>3
    <3>2. CASE \E o \in Queues : \E i \in 1 .. Len(pushed[o]) : pushed[o][i].line = m
      <4>1. PICK o \in Queues : \E i \in 1 .. Len(pushed[o]) : pushed[o][i].line = m
        BY <3>2
      <4>2. PICK i \in 1 .. Len(pushed[o]) : pushed[o][i].line = m
        BY <4>1
      <4>3. i \in 1 .. Len(pushed'[o]) /\ pushed'[o][i] = pushed[o][i]
        BY <1>5, <1>6, <4>2 DEF w
      <4> QED
        BY <4>2, <4>3
    <3> QED
      BY <3>1, <3>2 DEF LinesInv, LinesKept
  <2> QED
    BY <1>1, <2>1 DEF LinesKept
<1> QED
  BY <1>8, <1>9

-----------------------------------------------------------------------------
(* The files and their column names *)

LEMMA LinesOfParts ==
    ASSUME NEW s \in Seq(Nat), NEW t \in Seq(Nat)
    PROVE  /\ s \o t \in Seq(Nat) /\ s \o <<>> = s /\ <<>> \o t = t
           /\ Begun(s) => Begun(s \o t)
           /\ \A n \in 0 .. Len(t) : SubSeq(t, 1, n) \in Seq(Nat)
           /\ HeadFirst(s \o t) => \A n \in 0 .. Len(t) : HeadFirst(s \o SubSeq(t, 1, n))
<1>1. s \o t \in Seq(Nat) /\ s \o <<>> = s /\ <<>> \o t = t
  OBVIOUS
<1>2. Begun(s) => Begun(s \o t)
  BY DEF Begun
<1>3. \A n \in 0 .. Len(t) : SubSeq(t, 1, n) \in Seq(Nat)
  OBVIOUS
<1>4. ASSUME HeadFirst(s \o t), NEW n \in 0 .. Len(t) PROVE HeadFirst(s \o SubSeq(t, 1, n))
  <2> DEFINE r == SubSeq(t, 1, n)
  <2>1. r \in Seq(Nat) /\ Len(r) = n /\ \A m \in 1 .. n : r[m] = t[m]
    OBVIOUS
  <2>2. Len(s) \in Nat /\ Len(t) \in Nat /\ n \in Nat /\ n <= Len(t)
    OBVIOUS
  <2> HIDE DEF r
  <2>3. Len(s \o r) = Len(s) + n /\ Len(s \o t) = Len(s) + Len(t)
    <3>1. Len(s \o r) = Len(s) + Len(r)
      <4>1. r \in Seq(Nat) /\ s \in Seq(Nat)
        BY <2>1, Zenon
      <4> QED
        BY <4>1
    <3>2. Len(s \o t) = Len(s) + Len(t)
      OBVIOUS
    <3> QED
      BY <2>1, <3>1, <3>2, Zenon
  <2>4. ASSUME NEW m \in 1 .. Len(s \o r) PROVE (s \o r)[m] = (s \o t)[m]
    <3>1. CASE m <= Len(s)
      BY <2>1, <2>2, <2>3, <3>1
    <3>2. CASE ~(m <= Len(s))
      <4>1. m - Len(s) \in 1 .. n
        BY <2>2, <2>3, <3>2
      <4>2. (s \o r)[m] = r[m - Len(s)] /\ (s \o t)[m] = t[m - Len(s)]
        BY <2>1, <2>2, <2>3, <3>2
      <4> QED
        BY <2>1, <4>1, <4>2
    <3> QED
      BY <3>1, <3>2
  <2>5. \A m \in 1 .. Len(s \o r) : m \in 1 .. Len(s \o t)
    BY <2>2, <2>3
  <2> QED
    BY <1>4, <2>4, <2>5 DEF HeadFirst, r
<1> QED
  BY <1>1, <1>2, <1>3, <1>4

LEMMA LinesOfPrefix ==
    ASSUME NEW s \in Seq(Nat), NEW t \in Seq(Nat), HeadFirst(s \o t)
    PROVE  HeadFirst(s)
<1>1. SubSeq(t, 1, 0) = <<>> /\ 0 \in 0 .. Len(t)
  OBVIOUS
<1>2. HeadFirst(s \o SubSeq(t, 1, 0))
  BY <1>1, LinesOfParts, Zenon
<1> QED
  BY <1>1, <1>2, LinesOfParts

LEMMA OneMoreLine ==
    ASSUME NEW s \in Seq(Nat), NEW n \in Nat \ {0}, HeadFirst(s)
    PROVE  HeadFirst(Append(s, n)) /\ s \o <<n>> = Append(s, n)
<1>1. s \o <<n>> = Append(s, n)
  OBVIOUS
<1>2. ASSUME NEW m \in 1 .. Len(Append(s, n)), Append(s, n)[m] = HeadLine PROVE m = 1
  <2>1. Len(Append(s, n)) = Len(s) + 1 /\ Len(s) \in Nat /\ Append(s, n)[Len(s) + 1] = n
        /\ \A i \in 1 .. Len(s) : Append(s, n)[i] = s[i]
    OBVIOUS
  <2>2. m # Len(s) + 1
    BY <1>2, <2>1 DEF HeadLine
  <2>3. m \in 1 .. Len(s)
    BY <2>1, <2>2
  <2> QED
    BY <1>2, <2>1, <2>3 DEF HeadFirst
<1> QED
  BY <1>1, <1>2 DEF HeadFirst

LEMMA PutAtEnd ==
    ASSUME NEW s \in Seq(Nat), NEW t \in Seq(Nat), NEW n \in Nat
    PROVE  /\ s \o Append(t, n) = Append(s \o t, n) /\ s \o t \in Seq(Nat)
           /\ Append(t, n) \in Seq(Nat)
OBVIOUS

\* Each entry has files of its own name, and each name one entry.
Owners(l) ==
    /\ l \in Seq(Entries)
    /\ \A i \in 1 .. Len(l) : l[i].file # NoFile => l[i].file \in FilesOf(l[i].name)
    /\ \A i, j \in 1 .. Len(l) : l[i].name = l[j].name => i = j

LEMMA OneUser ==
    ASSUME NEW l, Owners(l), NEW i \in 1 .. Len(l), NEW f \in FilesOf(l[i].name),
           NEW j \in 1 .. Len(l), j # i
    PROVE  l[j].file # f
<1>1. l[i].name \in Names /\ l[j].name \in Names /\ l[i].name # l[j].name
  <2>1. l \in Seq(Entries)
    BY DEF Owners
  <2>2. l[i] \in Entries /\ l[j] \in Entries
    BY <2>1
  <2> QED
    BY <2>2 DEF Owners, Entries
<1>2. f # NoFile
  BY <1>1, FilesOfNames
<1>3. ASSUME l[j].file = f PROVE FALSE
  <2>1. f \in FilesOf(l[j].name)
    BY <1>2, <1>3 DEF Owners
  <2> QED
    BY <1>1, <2>1, FilesApart
<1> QED
  BY <1>3

LEMMA TableOwners == LogTable => Owners(li)
BY DEF LogTable, EntrySound, Owners

\* The new entries have no file, the old ones keep theirs with what is buffered.
LEMMA FilesStay ==
    ASSUME NEW d, NEW l, NEW c, FilesSound(d, l, c), NEW m,
           Len(l) \in Nat, Len(m) \in Nat, Len(l) <= Len(m),
           \A i \in 1 .. Len(m) :
              IF i \in 1 .. Len(l) THEN m[i].file = l[i].file /\ m[i].buf = l[i].buf
              ELSE m[i].file = NoFile
    PROVE  FilesSound(d, m, c)
<1>1. \A i \in 1 .. Len(l) : i \in 1 .. Len(m)
  OBVIOUS
<1> QED
  BY <1>1 DEF FilesSound

\* An entry gives its file up: what is buffered reaches the disk.
LEMMA CloseKeepsFiles ==
    ASSUME NEW d, NEW l, NEW c, FilesSound(d, l, c), Owners(l), NEW i \in 1 .. Len(l),
           NEW u, u.file = NoFile, u.buf = <<>>, NEW m, m = [l EXCEPT ![i] = u],
           NEW e, e = [f \in DOMAIN d |-> IF l[i].file = f THEN d[f] \o l[i].buf ELSE d[f]]
    PROVE  FilesSound(e, m, c)
<1>1. /\ l \in Seq(Entries) /\ DOMAIN l = 1 .. Len(l) /\ Len(l) \in Nat
      /\ d \in [DOMAIN d -> Seq(Nat)] /\ NoFile \notin DOMAIN d
  BY DEF Owners, FilesSound
<1>2. /\ Len(m) = Len(l) /\ m[i] = u
      /\ \A j \in 1 .. Len(l) : j # i => m[j] = l[j]
      /\ l[i].buf \in Seq(Nat)
  <2>1. l[i] \in Entries
    BY <1>1
  <2>2. l[i].buf \in Seq(Nat)
    BY <2>1 DEF Entries
  <2> QED
    BY <1>1, <2>2
<1>3. /\ DOMAIN e = DOMAIN d
      /\ \A f \in DOMAIN d : /\ f = l[i].file => e[f] = d[f] \o l[i].buf
                            /\ f # l[i].file => e[f] = d[f]
  OBVIOUS
<1>4. \A j \in 1 .. Len(l) : j # i /\ l[i].file # NoFile => l[j].file # l[i].file
  BY OneUser DEF Owners
<1>5. ASSUME NEW f \in DOMAIN d PROVE e[f] \in Seq(Nat) /\ HeadFirst(e[f])
  <2>1. CASE f = l[i].file
    <3>1. f # NoFile
      BY <1>1
    <3> QED
      BY <1>1, <1>2, <1>3, <2>1, <3>1, LinesOfParts DEF FilesSound
  <2>2. CASE f # l[i].file
    BY <1>1, <1>3, <2>2 DEF FilesSound
  <2> QED
    BY <2>1, <2>2
<1>6. ASSUME NEW j \in 1 .. Len(m), m[j].file # NoFile
      PROVE  m[j].file \in DOMAIN e /\ HeadFirst(e[m[j].file] \o m[j].buf)
  <2>1. j # i /\ j \in 1 .. Len(l) /\ m[j] = l[j]
    BY <1>2, <1>6
  <2>2. l[j].file \in DOMAIN d /\ HeadFirst(d[l[j].file] \o l[j].buf)
    BY <1>6, <2>1 DEF FilesSound
  <2>3. l[j].file # l[i].file
    BY <1>4, <1>6, <2>1
  <2> QED
    BY <1>3, <2>1, <2>2, <2>3
<1>7. ASSUME ~c, NEW f \in DOMAIN d \intersect HeadedFiles
      PROVE  \/ Begun(e[f])
             \/ e[f] = <<>> /\ \E j \in 1 .. Len(m) : m[j].file = f /\ Begun(m[j].buf)
  <2>1. \/ Begun(d[f])
        \/ d[f] = <<>> /\ \E j \in 1 .. Len(l) : l[j].file = f /\ Begun(l[j].buf)
    BY <1>7 DEF FilesSound
  <2>2. f # NoFile /\ d[f] \in Seq(Nat)
    BY <1>1
  <2>3. CASE f = l[i].file
    <3>1. e[f] = d[f] \o l[i].buf
      BY <1>3, <2>3
    <3>2. CASE Begun(d[f])
      BY <1>2, <2>2, <3>1, <3>2, LinesOfParts
    <3>3. CASE ~Begun(d[f])
      <4>1. d[f] = <<>> /\ Begun(l[i].buf)
        BY <1>4, <2>1, <2>2, <2>3, <3>3
      <4> QED
        BY <1>2, <2>2, <3>1, <4>1, LinesOfParts
    <3> QED
      BY <3>2, <3>3
  <2>4. CASE f # l[i].file
    <3>1. e[f] = d[f]
      BY <1>3, <2>4
    <3>2. ASSUME NEW j \in 1 .. Len(l), l[j].file = f PROVE j \in 1 .. Len(m) /\ m[j] = l[j]
      BY <1>2, <2>4, <3>2
    <3> QED
      BY <2>1, <3>1, <3>2
  <2> QED
    BY <2>3, <2>4
<1>8. e \in [DOMAIN e -> Seq(Nat)] /\ NoFile \notin DOMAIN e
  <2>1. \A f \in DOMAIN e : e[f] \in Seq(Nat)
    BY <1>3, <1>5
  <2> QED
    BY <1>1, <1>3, <2>1
<1>9. \A f \in DOMAIN e : HeadFirst(e[f])
  BY <1>3, <1>5
<1> QED
  BY <1>3, <1>6, <1>7, <1>8, <1>9 DEF FilesSound

\* An entry opens its file, unless it has, and puts a line into the buffer.
LEMMA OpenKeepsFiles ==
    ASSUME NEW d, NEW l, NEW c, FilesSound(d, l, c), Owners(l), NEW i \in 1 .. Len(l),
           NEW t, EntrySound(l[i], t), l[i].filename \in FilesOf(l[i].name),
           NEW n \in Nat \ {0}, NEW p, p = Put(OpenFile(l[i], DOMAIN d), n),
           NEW m, m = [l EXCEPT ![i] = p],
           NEW e, e = Created(d, l[i].filename)
    PROVE  FilesSound(e, m, c)
<1> DEFINE g == l[i].filename
           u == l[i]
<1>1. /\ l \in Seq(Entries) /\ DOMAIN l = 1 .. Len(l) /\ Len(l) \in Nat
      /\ d \in [DOMAIN d -> Seq(Nat)] /\ NoFile \notin DOMAIN d
  BY DEF Owners, FilesSound
<1>2. u \in Entries /\ u.name \in Names /\ u.buf \in Seq(Nat) /\ g # NoFile
  <2>1. u \in Entries
    BY <1>1
  <2> QED
    BY <2>1, FilesOfNames DEF Entries
<1>3. /\ p.file = g
      /\ u.file # NoFile => p.buf = Append(u.buf, n)
      /\ u.file = NoFile /\ g \notin DOMAIN d /\ u.head => p.buf = Append(<<HeadLine>>, n)
      /\ u.file = NoFile /\ (g \in DOMAIN d \/ ~u.head) => p.buf = <<n>>
  <2>1. /\ u.filename = g /\ g \in FilesOf(u.name) /\ n \in Nat /\ EntrySound(u, t)
        /\ p = Put(OpenFile(u, DOMAIN d), n)
    OBVIOUS
  <2> HIDE DEF u, g
  <2> QED
    BY <1>2, <2>1, EntryWritten, SMTT(20)
<1>4. /\ Len(m) = Len(l) /\ m[i] = p
      /\ \A j \in 1 .. Len(l) : j # i => m[j] = l[j]
  BY <1>1
<1>5. \A j \in 1 .. Len(l) : j # i => l[j].file # g
  BY OneUser
<1>6. /\ DOMAIN e = DOMAIN d \union {g}
      /\ \A f \in DOMAIN d : e[f] = d[f]
      /\ g \notin DOMAIN d => e[g] = <<>>
  BY DEF Created
<1>7. u.file # NoFile => u.file = g /\ g \in DOMAIN d /\ HeadFirst(d[g] \o u.buf)
  BY DEF EntrySound, FilesSound
<1>8. ASSUME u.file = NoFile, g \notin DOMAIN d, g \in HeadedFiles PROVE u.head
  <2>1. PICK name \in Headed : g \in FilesOf(name)
    BY <1>8 DEF HeadedFiles
  <2>2. name \in Names
    BY LogAssumption
  <2>3. name = u.name
    BY <1>2, <2>1, <2>2, FilesApart
  <2> QED
    BY <2>3 DEF EntrySound
<1> HIDE DEF u, g
<1>9. e[g] \in Seq(Nat) /\ HeadFirst(e[g]) /\ HeadFirst(e[g] \o p.buf) /\ p.buf \in Seq(Nat)
  <2>1. CASE u.file # NoFile
    <3>1. e[g] = d[g] /\ d[g] \in Seq(Nat) /\ HeadFirst(d[g])
      BY <1>1, <1>6, <1>7, <2>1 DEF FilesSound
    <3>2. d[g] \o Append(u.buf, n) = Append(d[g] \o u.buf, n) /\ d[g] \o u.buf \in Seq(Nat)
          /\ Append(u.buf, n) \in Seq(Nat)
      BY <1>2, <3>1, PutAtEnd
    <3>3. HeadFirst(Append(d[g] \o u.buf, n))
      BY <1>7, <2>1, <3>2, OneMoreLine
    <3> QED
      BY <1>3, <2>1, <3>1, <3>2, <3>3
  <2>2. CASE u.file = NoFile /\ g \in DOMAIN d
    <3>1. e[g] = d[g] /\ d[g] \in Seq(Nat) /\ HeadFirst(d[g])
      BY <1>1, <1>6, <2>2 DEF FilesSound
    <3>2. HeadFirst(d[g] \o <<n>>)
      BY <3>1, OneMoreLine
    <3>3. <<n>> \in Seq(Nat)
      OBVIOUS
    <3> QED
      BY <1>3, <2>2, <3>1, <3>2, <3>3
  <2>3. CASE u.file = NoFile /\ g \notin DOMAIN d
    <3>1. e[g] = <<>>
      BY <1>6, <2>3
    <3>2. <<>> \in Seq(Nat) /\ <<HeadLine>> \in Seq(Nat) /\ HeadFirst(<<>>) /\ HeadFirst(<<HeadLine>>)
      BY DEF HeadLine, HeadFirst
    <3>3. HeadFirst(Append(<<HeadLine>>, n)) /\ HeadFirst(Append(<<>>, n))
      BY <3>2, OneMoreLine
    <3>4. Append(<<HeadLine>>, n) \in Seq(Nat) /\ Append(<<>>, n) = <<n>> /\ <<n>> \in Seq(Nat)
      BY <3>2
    <3>5. p.buf = Append(<<HeadLine>>, n) \/ p.buf = Append(<<>>, n)
      BY <1>3, <2>3, <3>4
    <3>6. p.buf \in Seq(Nat) /\ HeadFirst(p.buf)
      BY <3>3, <3>4, <3>5
    <3>7. <<>> \o p.buf = p.buf
      BY <3>6
    <3> QED
      BY <3>1, <3>2, <3>6, <3>7
  <2> QED
    BY <2>1, <2>2, <2>3
<1>10. e \in [DOMAIN e -> Seq(Nat)] /\ NoFile \notin DOMAIN e
  <2>1. \A f \in DOMAIN e : e[f] \in Seq(Nat)
    BY <1>1, <1>6, <1>9
  <2>2. e = [f \in DOMAIN e |-> e[f]]
    BY DEF Created
  <2> QED
    BY <1>1, <1>2, <1>6, <2>1, <2>2
<1>11. \A f \in DOMAIN e : HeadFirst(e[f])
  BY <1>6, <1>9 DEF FilesSound
<1>12. ASSUME NEW j \in 1 .. Len(m), m[j].file # NoFile
       PROVE  m[j].file \in DOMAIN e /\ HeadFirst(e[m[j].file] \o m[j].buf)
  <2>1. CASE j = i
    BY <1>3, <1>4, <1>6, <1>9, <2>1
  <2>2. CASE j # i
    <3>1. j \in 1 .. Len(l) /\ m[j] = l[j]
      BY <1>4, <2>2
    <3>2. l[j].file \in DOMAIN d /\ HeadFirst(d[l[j].file] \o l[j].buf)
      BY <1>12, <3>1 DEF FilesSound
    <3> QED
      BY <1>6, <3>1, <3>2
  <2> QED
    BY <2>1, <2>2
<1>13. ASSUME ~c, NEW f \in DOMAIN e \intersect HeadedFiles
       PROVE  \/ Begun(e[f])
              \/ e[f] = <<>> /\ \E j \in 1 .. Len(m) : m[j].file = f /\ Begun(m[j].buf)
  <2>1. CASE f \in DOMAIN d
    <3>1. \/ Begun(d[f])
          \/ d[f] = <<>> /\ \E j \in 1 .. Len(l) : l[j].file = f /\ Begun(l[j].buf)
      BY <1>13, <2>1 DEF FilesSound
    <3>2. e[f] = d[f]
      BY <1>6, <2>1
    <3>3. ASSUME NEW j \in 1 .. Len(l), l[j].file = f, Begun(l[j].buf)
          PROVE  j \in 1 .. Len(m) /\ m[j].file = f /\ Begun(m[j].buf)
      <4>1. CASE j # i
        BY <1>4, <3>3, <4>1
      <4>2. CASE j = i
        <5>1. u.file = f /\ f # NoFile /\ Begun(u.buf)
          BY <1>1, <2>1, <3>3, <4>2 DEF u
        <5>2. p.buf = Append(u.buf, n) /\ p.file = f
          BY <1>3, <1>7, <5>1
        <5>3. Begun(Append(u.buf, n))
          BY <1>2, <5>1 DEF Begun
        <5> QED
          BY <1>4, <4>2, <5>2, <5>3
      <4> QED
        BY <4>1, <4>2
    <3> QED
      BY <3>1, <3>2, <3>3
  <2>2. CASE f \notin DOMAIN d
    <3>1. f = g /\ e[f] = <<>>
      BY <1>6, <2>2
    <3>2. u.file = NoFile /\ u.head
      BY <1>7, <1>8, <1>13, <2>2, <3>1
    <3>3. p.buf = Append(<<HeadLine>>, n) /\ p.file = f
      BY <1>3, <2>2, <3>1, <3>2
    <3>4. Begun(Append(<<HeadLine>>, n))
      BY DEF Begun, HeadLine
    <3>5. i \in 1 .. Len(m) /\ m[i].file = f /\ Begun(m[i].buf)
      BY <1>4, <3>3, <3>4
    <3> QED
      BY <3>1, <3>5
  <2> QED
    BY <2>1, <2>2
<1> QED
  BY <1>10, <1>11, <1>12, <1>13 DEF FilesSound

LEMMA WriteKeepsFiles ==
    ASSUME TableInv, LinesApart, LogFiles, Write \/ WriteUnopened
    PROVE  LogFiles'
<1> DEFINE i == Node.id
           n == Node.line
<1>1. Written /\ crashed' = crashed
  BY DEF Write, WriteUnopened, Written, worldVars
<1>2. i \in 1 .. Len(li) /\ li[i] \in Entries /\ EntrySound(li[i], seconds)
  BY <1>1, NodeHasEntry
<1>3. n \in Nat \ {0}
  <2>1. /\ Len(written[lq]) \in Nat /\ Len(written[lq]) < Len(pushed[lq])
        /\ Node = pushed[lq][Len(written[lq]) + 1] /\ lq \in Queues /\ pushed[lq] \in Seq(Nodes)
    BY <1>1, NodeIsNext DEF Written, TableInv, RingInv, LogTypes
  <2>2. Len(written[lq]) + 1 \in 1 .. Len(pushed[lq])
    BY <2>1
  <2>3. Node.line \in (base + 1) .. lines
    BY <2>1, <2>2 DEF LinesApart
  <2>4. base \in Nat /\ lines \in Nat
    BY DEF TableInv, RingInv, LogTypes
  <2> QED
    BY <2>3, <2>4
<1>4. seconds \in Nat /\ seconds >= Start /\ li \in Seq(Entries) /\ DOMAIN li = 1 .. Len(li)
      /\ Owners(li) /\ FilesSound(disk, li, crashed)
  BY TableOwners DEF TableInv, RingInv, LogTypes, LogTable, LogFiles
<1>5. PICK stamp \in Stamps :
         LET e == UpdateFile(li[i], stamp)
         IN \/ li' = [li EXCEPT ![i] = e] /\ disk' = Closed
            \/ /\ li' = [li EXCEPT ![i] = Put(OpenFile(e, DOMAIN disk), n)]
               /\ disk' = Created(Closed, e.filename)
  BY DEF Write, WriteUnopened
<1> DEFINE u == UpdateFile(li[i], stamp)
<1>6. /\ u \in Entries /\ u.name = li[i].name /\ EntrySound(u, seconds)
      /\ u.filename \in FilesOf(u.name)
      /\ Expired(li[i]) => u.file = NoFile /\ u.buf = <<>>
      /\ ~Expired(li[i]) => u.file = li[i].file /\ u.buf = li[i].buf
  BY <1>2, <1>4, EntryUpdated
<1>7. \/ li' = [li EXCEPT ![i] = u] /\ disk' = Closed
      \/ li' = [li EXCEPT ![i] = Put(OpenFile(u, DOMAIN disk), n)] /\ disk' = Created(Closed, u.filename)
  BY <1>5
<1> HIDE DEF i, n, u
<1> DEFINE m == [li EXCEPT ![i] = u]
<1>8. /\ m \in Seq(Entries) /\ Len(m) = Len(li) /\ m[i] = u
      /\ \A j \in 1 .. Len(li) : j # i => m[j] = li[j]
  BY <1>2, <1>4, <1>6
<1>9. DOMAIN Closed = DOMAIN disk
  BY DEF Closed, Saved
<1>10. FilesSound(Closed, m, crashed)
  <2>1. CASE Expired(li[i])
    <3>1. Closed = [f \in DOMAIN disk |-> IF li[i].file = f THEN disk[f] \o li[i].buf ELSE disk[f]]
      BY <2>1 DEF Closed, Saved, i
    <3>2. FilesSound(disk, li, crashed) /\ Owners(li) /\ i \in 1 .. Len(li)
          /\ u.file = NoFile /\ u.buf = <<>>
      BY <1>2, <1>4, <1>6, <2>1
    <3>3. m = [li EXCEPT ![i] = u]
      OBVIOUS
    <3> HIDE DEF m
    <3> QED
      BY <3>1, <3>2, <3>3, CloseKeepsFiles
  <2>2. CASE ~Expired(li[i])
    <3>1. Closed = disk
      BY <2>2 DEF Closed, i
    <3>2. \A j \in 1 .. Len(m) : IF j \in 1 .. Len(li)
                                THEN m[j].file = li[j].file /\ m[j].buf = li[j].buf
                                ELSE m[j].file = NoFile
      BY <1>6, <1>8, <2>2
    <3>3. Len(li) \in Nat /\ Len(m) \in Nat /\ Len(li) <= Len(m)
      BY <1>4, <1>8
    <3> HIDE DEF m
    <3>4. FilesSound(disk, li, crashed)
      BY <1>4
    <3>5. FilesSound(disk, m, crashed)
      BY <3>2, <3>3, <3>4, FilesStay
    <3> QED
      BY <3>1, <3>5
  <2> QED
    BY <2>1, <2>2
<1>11. Owners(m)
  <2>1. ASSUME NEW j \in 1 .. Len(li) PROVE m[j].name = li[j].name
                                            /\ (m[j].file # NoFile => m[j].file \in FilesOf(m[j].name))
    <3>1. CASE j = i
      BY <1>6, <1>8, <3>1 DEF EntrySound
    <3>2. CASE j # i
      BY <1>4, <1>8, <3>2 DEF Owners
    <3> QED
      BY <3>1, <3>2
  <2> HIDE DEF m
  <2> QED
    BY <1>4, <1>8, <2>1 DEF Owners
<1>12. CASE li' = m /\ disk' = Closed
  BY <1>1, <1>10, <1>12 DEF LogFiles
<1>13. CASE /\ li' = [li EXCEPT ![i] = Put(OpenFile(u, DOMAIN disk), n)]
            /\ disk' = Created(Closed, u.filename)
  <2> DEFINE p == Put(OpenFile(m[i], DOMAIN Closed), n)
  <2>1. p = Put(OpenFile(u, DOMAIN disk), n)
    BY <1>8, <1>9
  <2> HIDE DEF p
  <2>2. li' = [m EXCEPT ![i] = p]
    BY <1>2, <1>4, <1>13, <2>1
  <2>3. disk' = Created(Closed, m[i].filename) /\ EntrySound(m[i], seconds)
        /\ m[i].filename \in FilesOf(m[i].name) /\ i \in 1 .. Len(m)
    BY <1>2, <1>6, <1>8, <1>13
  <2> HIDE DEF m
  <2>4. FilesSound(disk', li', crashed)
    BY <1>3, <1>10, <1>11, <2>2, <2>3, OpenKeepsFiles DEF p
  <2> QED
    BY <1>1, <2>4 DEF LogFiles
<1> QED
  BY <1>7, <1>12, <1>13

\* The entry of a file, and what is buffered for it.
LEMMA BufferedFor ==
    ASSUME LogTable, NEW f, f # NoFile
    PROVE  /\ (\E i \in 1 .. Len(li) : li[i].file = f) \/ (Users(f) = {} /\ Buffered(f) = <<>>)
           /\ \A i \in 1 .. Len(li) : li[i].file = f =>
                 Users(f) = {i} /\ Buffered(f) = li[i].buf
           /\ Buffered(f) \in Seq(Nat)
<1>1. li \in Seq(Entries) /\ DOMAIN li = 1 .. Len(li) /\ Owners(li)
  BY TableOwners DEF LogTable
<1>2. ASSUME NEW i \in 1 .. Len(li), li[i].file = f
      PROVE  Users(f) = {i} /\ Buffered(f) = li[i].buf
  <2>1. f \in FilesOf(li[i].name)
    BY <1>1, <1>2 DEF Owners
  <2>2. \A j \in 1 .. Len(li) : j # i => li[j].file # f
    BY <1>1, <2>1, OneUser
  <2>3. Users(f) = {i}
    BY <1>1, <1>2, <2>2 DEF Users
  <2>4. Users(f) # {} /\ (CHOOSE j \in Users(f) : TRUE) = i
    BY <2>3
  <2> QED
    BY <2>3, <2>4 DEF Buffered
<1>3. CASE \E i \in 1 .. Len(li) : li[i].file = f
  <2>1. PICK i \in 1 .. Len(li) : li[i].file = f
    BY <1>3
  <2>2. li[i] \in Entries
    BY <1>1
  <2>3. li[i].buf \in Seq(Nat)
    BY <2>2 DEF Entries
  <2> QED
    BY <1>2, <1>3, <2>1, <2>3
<1>4. CASE ~\E i \in 1 .. Len(li) : li[i].file = f
  <2>1. Users(f) = {}
    BY <1>1, <1>4 DEF Users
  <2>2. Buffered(f) = <<>>
    BY <2>1 DEF Buffered
  <2> QED
    BY <1>2, <1>4, <2>1, <2>2
<1> QED
  BY <1>3, <1>4

\* Bytes that reach the disk are the first ones of what is buffered.
LEMMA SavedIsSound ==
    ASSUME LogTable, LogFiles, NEW f \in DOMAIN disk, NEW n \in 0 .. Len(Buffered(f))
    PROVE  /\ disk[f] \in Seq(Nat) /\ Buffered(f) \in Seq(Nat)
           /\ SubSeq(Buffered(f), 1, n) \in Seq(Nat)
           /\ HeadFirst(disk[f] \o SubSeq(Buffered(f), 1, n)) /\ HeadFirst(disk[f] \o Buffered(f))
<1>1. disk[f] \in Seq(Nat) /\ f # NoFile /\ HeadFirst(disk[f])
  BY DEF LogFiles, FilesSound
<1>2. Buffered(f) \in Seq(Nat)
  BY <1>1, BufferedFor
<1>3. HeadFirst(disk[f] \o Buffered(f))
  <2>1. CASE \E i \in 1 .. Len(li) : li[i].file = f
    <3>1. PICK i \in 1 .. Len(li) : li[i].file = f
      BY <2>1
    <3>2. HeadFirst(disk[f] \o li[i].buf)
      BY <1>1, <3>1 DEF LogFiles, FilesSound
    <3> QED
      BY <1>1, <3>1, <3>2, BufferedFor
  <2>2. CASE ~\E i \in 1 .. Len(li) : li[i].file = f
    <3>1. Buffered(f) = <<>>
      BY <1>1, <2>2, BufferedFor
    <3> QED
      BY <1>1, <3>1, LinesOfParts
  <2> QED
    BY <2>1, <2>2
<1> QED
  BY <1>1, <1>2, <1>3, LinesOfParts

LEMMA FlushKeepsFiles ==
    ASSUME TableInv, LogFiles, Flush
    PROVE  LogFiles'
<1>1. /\ crashed' = crashed /\ li \in Seq(Entries) /\ DOMAIN li = 1 .. Len(li)
      /\ Len(li) \in Nat /\ LogTable
  <2>1. crashed' = crashed
    BY DEF Flush, worldVars
  <2>2. LogTable /\ li \in Seq(Entries)
    BY DEF TableInv, LogTable
  <2>3. DOMAIN li = 1 .. Len(li) /\ Len(li) \in Nat
    BY <2>2
  <2> QED
    BY <2>1, <2>2, <2>3
<1>2. CASE disk' = disk /\ li' = li
  BY <1>1, <1>2 DEF LogFiles
<1>3. CASE /\ disk' = [f \in DOMAIN disk |-> IF \E i \in Users(f) : HasFlush(i)
                                            THEN disk[f] \o Buffered(f) ELSE disk[f]]
           /\ li' = [i \in DOMAIN li |->
                        IF HasFlush(i) THEN [li[i] EXCEPT !.buf = <<>>, !.has_data = FALSE]
                                       ELSE li[i]]
  <2>1. /\ DOMAIN disk' = DOMAIN disk /\ NoFile \notin DOMAIN disk
        /\ disk \in [DOMAIN disk -> Seq(Nat)] /\ \A f \in DOMAIN disk : HeadFirst(disk[f])
    BY <1>3 DEF LogFiles, FilesSound
  <2>2. Len(li') = Len(li) /\ Len(li') \in Nat
    <3>1. DOMAIN li' = 1 .. Len(li)
      BY <1>1, <1>3
    <3>2. li' \in Seq(Entries)
      BY <1>1, FlushKeepsTable DEF LogTable
    <3> QED
      BY <1>1, <3>1, <3>2
  <2>3. ASSUME NEW i \in 1 .. Len(li)
        PROVE  /\ li'[i].file = li[i].file
               /\ HasFlush(i) => li'[i].buf = <<>>
               /\ ~HasFlush(i) => li'[i].buf = li[i].buf
    <3>1. li[i] \in Entries
      BY <1>1
    <3>2. CASE HasFlush(i)
      <4>1. li'[i] = [li[i] EXCEPT !.buf = <<>>, !.has_data = FALSE]
        BY <1>1, <1>3, <3>2
      <4> QED
        BY <3>1, <3>2, <4>1 DEF Entries
    <3>3. CASE ~HasFlush(i)
      BY <1>1, <1>3, <3>3
    <3> QED
      BY <3>2, <3>3
  <2>4. ASSUME NEW f \in DOMAIN disk, NEW i \in 1 .. Len(li), li[i].file = f
        PROVE  /\ Buffered(f) = li[i].buf
               /\ HasFlush(i) => disk'[f] = disk[f] \o Buffered(f)
               /\ ~HasFlush(i) => disk'[f] = disk[f]
    <3>1. Users(f) = {i} /\ Buffered(f) = li[i].buf
      BY <1>1, <2>1, <2>4, BufferedFor
    <3> QED
      BY <1>3, <3>1
  <2>5. ASSUME NEW f \in DOMAIN disk
        PROVE  /\ disk'[f] = disk[f] \/ disk'[f] = disk[f] \o Buffered(f)
               /\ disk'[f] \in Seq(Nat) /\ HeadFirst(disk'[f])
               /\ Begun(disk[f]) => Begun(disk'[f])
    <3>1. disk'[f] = disk[f] \/ disk'[f] = disk[f] \o Buffered(f)
      BY <1>3
    <3>2. 0 \in 0 .. Len(Buffered(f)) /\ disk[f] \in Seq(Nat) /\ HeadFirst(disk[f])
      <4>1. Buffered(f) \in Seq(Nat)
        BY <1>1, <2>1, BufferedFor
      <4> QED
        BY <2>1, <4>1
    <3>3. Buffered(f) \in Seq(Nat) /\ HeadFirst(disk[f] \o Buffered(f))
      BY <1>1, <3>2, SavedIsSound
    <3>4. disk[f] \o Buffered(f) \in Seq(Nat) /\ (Begun(disk[f]) => Begun(disk[f] \o Buffered(f)))
      BY <3>2, <3>3, LinesOfParts
    <3> QED
      BY <3>1, <3>2, <3>3, <3>4
  <2>6. ASSUME NEW i \in 1 .. Len(li'), li'[i].file # NoFile
        PROVE  li'[i].file \in DOMAIN disk' /\ HeadFirst(disk'[li'[i].file] \o li'[i].buf)
    <3> DEFINE f == li[i].file
    <3>1. i \in 1 .. Len(li) /\ li'[i].file = f /\ f # NoFile
      BY <2>2, <2>3, <2>6
    <3>2. f \in DOMAIN disk /\ HeadFirst(disk[f] \o li[i].buf)
      BY <3>1 DEF LogFiles, FilesSound
    <3> HIDE DEF f
    <3>3. CASE HasFlush(i)
      <4>1. li'[i].buf = <<>> /\ disk'[f] \in Seq(Nat) /\ HeadFirst(disk'[f])
        BY <2>3, <2>5, <3>1, <3>2, <3>3
      <4>2. disk'[f] \o <<>> = disk'[f]
        BY <4>1
      <4> QED
        BY <2>1, <3>1, <3>2, <4>1, <4>2
    <3>4. CASE ~HasFlush(i)
      <4>1. li'[i].buf = li[i].buf /\ disk'[f] = disk[f]
        BY <2>3, <2>4, <3>1, <3>2, <3>4 DEF f
      <4> QED
        BY <2>1, <3>1, <3>2, <4>1
    <3> QED
      BY <3>3, <3>4
  <2>7. ASSUME ~crashed, NEW f \in DOMAIN disk' \intersect HeadedFiles
        PROVE  \/ Begun(disk'[f])
               \/ disk'[f] = <<>> /\ \E i \in 1 .. Len(li') : li'[i].file = f /\ Begun(li'[i].buf)
    <3>1. f \in DOMAIN disk /\ f \in HeadedFiles
      BY <2>1
    <3>2. CASE Begun(disk[f])
      BY <2>5, <3>1, <3>2
    <3>3. CASE ~Begun(disk[f])
      <4>1. PICK i \in 1 .. Len(li) : disk[f] = <<>> /\ li[i].file = f /\ Begun(li[i].buf)
        BY <2>7, <3>1, <3>3 DEF LogFiles, FilesSound
      <4>2. li[i].buf \in Seq(Nat)
        <5>1. li[i] \in Entries
          BY <1>1
        <5> QED
          BY <5>1 DEF Entries
      <4>3. CASE HasFlush(i)
        <5>1. disk'[f] = disk[f] \o li[i].buf
          BY <2>4, <3>1, <4>1, <4>3
        <5>2. <<>> \o li[i].buf = li[i].buf
          BY <4>2
        <5> QED
          BY <4>1, <5>1, <5>2
      <4>4. CASE ~HasFlush(i)
        <5>1. disk'[f] = <<>> /\ li'[i].file = f /\ Begun(li'[i].buf) /\ i \in 1 .. Len(li')
          BY <2>2, <2>3, <2>4, <3>1, <4>1, <4>4
        <5> QED
          BY <5>1
      <4> QED
        BY <4>3, <4>4
    <3> QED
      BY <3>2, <3>3
  <2>8. disk' \in [DOMAIN disk' -> Seq(Nat)] /\ NoFile \notin DOMAIN disk'
        /\ \A f \in DOMAIN disk' : HeadFirst(disk'[f])
    <3>1. \A f \in DOMAIN disk' : disk'[f] \in Seq(Nat)
      BY <2>1, <2>5
    <3>2. disk' = [f \in DOMAIN disk' |-> disk'[f]]
      BY <1>3
    <3> QED
      BY <2>1, <2>5, <3>1, <3>2
  <2> QED
    BY <1>1, <2>6, <2>7, <2>8 DEF LogFiles, FilesSound
<1> QED
  BY <1>2, <1>3 DEF Flush

\* After an end nothing is open; after exit all is on the disk.
LEMMA EndKeepsFiles ==
    ASSUME TableInv, LogFiles, Exit \/ Crash
    PROVE  LogFiles'
<1>1. li' = <<>> /\ Len(li') = 0 /\ LogTable
  BY DEF Exit, Crash, StartAgain, TableInv
<1>2. /\ NoFile \notin DOMAIN disk
      /\ disk \in [DOMAIN disk -> Seq(Nat)] /\ \A f \in DOMAIN disk : HeadFirst(disk[f])
  BY DEF LogFiles, FilesSound
<1>3. ASSUME NEW f \in DOMAIN disk PROVE Buffered(f) \in Seq(Nat) /\ 0 \in 0 .. Len(Buffered(f))
  <2>1. Buffered(f) \in Seq(Nat)
    BY <1>1, <1>2, BufferedFor
  <2> QED
    BY <2>1
<1>4. CASE Exit
  <2>1. disk' = [f \in DOMAIN disk |-> disk[f] \o Buffered(f)] /\ crashed' = crashed
    BY <1>4 DEF Exit
  <2>2. ASSUME NEW f \in DOMAIN disk
        PROVE  disk'[f] = disk[f] \o Buffered(f) /\ disk'[f] \in Seq(Nat) /\ HeadFirst(disk'[f])
    <3>1. disk[f] \in Seq(Nat) /\ HeadFirst(disk[f] \o Buffered(f))
      BY <1>1, <1>3, SavedIsSound
    <3> QED
      BY <1>3, <2>1, <3>1
  <2>3. ASSUME ~crashed, NEW f \in DOMAIN disk \intersect HeadedFiles PROVE Begun(disk'[f])
    <3>1. disk'[f] = disk[f] \o Buffered(f) /\ disk[f] \in Seq(Nat) /\ Buffered(f) \in Seq(Nat)
      BY <1>2, <1>3, <2>2
    <3>2. CASE Begun(disk[f])
      BY <3>1, <3>2, LinesOfParts
    <3>3. CASE ~Begun(disk[f])
      <4>1. PICK i \in 1 .. Len(li) : disk[f] = <<>> /\ li[i].file = f /\ Begun(li[i].buf)
        BY <2>3, <3>3 DEF LogFiles, FilesSound
      <4>2. Buffered(f) = li[i].buf
        BY <1>1, <1>2, <4>1, BufferedFor
      <4>3. disk'[f] = Buffered(f)
        BY <3>1, <4>1
      <4> QED
        BY <4>1, <4>2, <4>3
    <3> QED
      BY <3>2, <3>3
  <2>4. DOMAIN disk' = DOMAIN disk /\ disk' \in [DOMAIN disk' -> Seq(Nat)]
    BY <2>1, <2>2
  <2> QED
    BY <1>1, <1>2, <2>1, <2>2, <2>3, <2>4 DEF LogFiles, FilesSound
<1>5. CASE Crash
  <2>1. PICK n \in [DOMAIN disk -> 0 .. MaxLines + 1] :
           /\ \A f \in DOMAIN disk : n[f] <= Len(Buffered(f))
           /\ disk' = [f \in DOMAIN disk |-> disk[f] \o SubSeq(Buffered(f), 1, n[f])]
    BY <1>5 DEF Crash
  <2>2. ASSUME NEW f \in DOMAIN disk PROVE disk'[f] \in Seq(Nat) /\ HeadFirst(disk'[f])
    <3>1. n[f] \in 0 .. Len(Buffered(f))
      <4>1. Len(Buffered(f)) \in Nat /\ n[f] \in 0 .. MaxLines + 1 /\ MaxLines \in Nat
        BY <1>3, <2>1, LogAssumption
      <4>2. n[f] <= Len(Buffered(f))
        BY <2>1
      <4> QED
        BY <4>1, <4>2
    <3>2. /\ disk[f] \in Seq(Nat) /\ SubSeq(Buffered(f), 1, n[f]) \in Seq(Nat)
          /\ HeadFirst(disk[f] \o SubSeq(Buffered(f), 1, n[f]))
      BY <1>1, <3>1, SavedIsSound
    <3>3. disk'[f] = disk[f] \o SubSeq(Buffered(f), 1, n[f])
      BY <2>1
    <3> QED
      BY <3>2, <3>3
  <2>3. DOMAIN disk' = DOMAIN disk /\ disk' \in [DOMAIN disk' -> Seq(Nat)]
    BY <2>1, <2>2
  <2>4. crashed'
    BY <1>5 DEF Crash
  <2> QED
    BY <1>1, <1>2, <2>2, <2>3, <2>4 DEF LogFiles, FilesSound
<1> QED
  BY <1>4, <1>5

-----------------------------------------------------------------------------
(* The invariant *)

LEMMA LogInvParts ==
    ASSUME LogInv
    PROVE  RingInv /\ TableInv /\ LinesInv /\ LinesApart /\ LogFiles
BY DEF LogInv, RingInv, TableInv, LinesInv

LEMMA LogInvStart == LogInit => LogInv
<1> SUFFICES ASSUME LogInit PROVE LogInv
  OBVIOUS
<1>1. LogFiles
  <2>1. DOMAIN disk = {} /\ li = <<>> /\ disk = [f \in {} |-> <<>>]
    BY DEF LogInit
  <2>2. disk \in [DOMAIN disk -> Seq(Nat)]
    BY <2>1
  <2> QED
    BY <2>1, <2>2 DEF LogFiles, FilesSound
<1> QED
  BY <1>1, InitRings, InitTable, InitLines DEF LogInv, RingInv

LEMMA LogInvStep == LogInv /\ [LogNext]_threadLogVars => LogInv'
<1> SUFFICES ASSUME LogInv, [LogNext]_threadLogVars PROVE LogInv'
  OBVIOUS
<1>1. RingInv /\ TableInv /\ LinesInv /\ LinesApart /\ LogFiles
  BY LogInvParts
<1> HIDE DEF LogInv
<1> DEFINE Kept == RingInv' /\ LogTable' /\ LogNumbers' /\ LogIds' /\ LinesApart' /\ LinesKept'
                   /\ LogFiles'
<1>2. ASSUME NEW name \in Names, Reg(name) PROVE Kept
  <2>1. UNCHANGED <<ringVars, prodVars, logVars, worldVars, disk>>
    BY <1>2 DEF Reg
  <2>2. RingInv' /\ LinesApart' /\ LinesKept'
    BY <1>1, <2>1, QuietKeepsRings, LinesStay DEF ringVars, prodVars, logVars, worldVars
  <2>3. LogTable' /\ LogNumbers' /\ LogIds'
    BY <1>1, <1>2, RegKeepsTable
  <2>4. li' = li \/ li' = Append(li, NewEntry(name))
    BY <1>2 DEF Reg
  <2>5. li \in Seq(Entries) /\ NewEntry(name) \in Entries /\ NewEntry(name).file = NoFile
    BY <1>1, EntryNew DEF TableInv, LogTable
  <2>6. /\ Len(li) \in Nat /\ Len(li') \in Nat /\ Len(li) <= Len(li')
        /\ \A i \in 1 .. Len(li') : IF i \in 1 .. Len(li)
                                   THEN li'[i].file = li[i].file /\ li'[i].buf = li[i].buf
                                   ELSE li'[i].file = NoFile
    BY <2>4, <2>5
  <2>7. FilesSound(disk, li', crashed)
    BY <1>1, <2>6, FilesStay DEF LogFiles
  <2>8. disk' = disk /\ crashed' = crashed
    BY <2>1 DEF worldVars
  <2>9. LogFiles'
    BY <2>7, <2>8 DEF LogFiles
  <2> QED
    BY <2>2, <2>3, <2>9
<1>3. ASSUME NEW k \in Queues, NEW id \in Numbers(k), WriteLine(k, id) PROVE Kept
  <2>1. id \in Nat /\ LogTable' /\ LogNumbers' /\ LogIds'
    BY <1>1, <1>3, LineKeepsTable
  <2>2. RingInv' /\ LinesApart' /\ LinesKept'
    BY <1>1, <1>3, <2>1, LineKeepsRings, LineKeepsLines
  <2>3. LogFiles'
    BY <1>1, <1>3 DEF WriteLine, regVars, worldVars, LogFiles
  <2> QED
    BY <2>1, <2>2, <2>3
<1>4. ASSUME NEW k \in Queues, Push(k) PROVE Kept
  <2>1. LogFiles'
    BY <1>1, <1>4 DEF Push, regVars, worldVars, LogFiles
  <2> QED
    BY <1>1, <1>4, <2>1, PushKeepsRings, PushKeepsTable, PushKeepsLines
<1>5. ASSUME Round \/ GetFront PROVE Kept
  <2>1. UNCHANGED <<ringVars, prodVars, regVars, worldVars, disk>>
    BY <1>5 DEF Round, GetFront
  <2>2. LogTable' /\ LogNumbers' /\ LogIds'
    BY <1>1, <2>1, TableStays, IdsStay DEF TableInv, ringVars, prodVars, regVars, worldVars
  <2>3. LinesApart' /\ LinesKept'
    BY <1>1, <2>1, LinesStay DEF ringVars, prodVars, worldVars
  <2>4. LogFiles'
    BY <1>1, <2>1 DEF LogFiles, regVars, worldVars
  <2> QED
    BY <1>1, <1>5, <2>2, <2>3, <2>4, RoundKeepsRings
<1>6. ASSUME Write \/ WriteUnopened PROVE Kept
  <2>1. Written /\ UNCHANGED <<ringVars, prodVars, worldVars>>
    BY <1>6 DEF Write, WriteUnopened, Written
  <2>2. LinesApart' /\ LinesKept'
    BY <1>1, <2>1, LinesStay DEF ringVars, prodVars, worldVars
  <2> QED
    BY <1>1, <1>6, <2>1, <2>2, WrittenKeepsRings, WriteKeepsTable, WriteKeepsFiles
<1>7. ASSUME Pop PROVE Kept
  <2>1. UNCHANGED <<back, q, prodVars, regVars, worldVars, disk>>
    BY <1>7 DEF Pop
  <2>2. LogTable' /\ LogNumbers' /\ LogIds'
    BY <1>1, <2>1, TableStays, IdsStay DEF TableInv, prodVars, regVars, worldVars
  <2>3. LinesApart' /\ LinesKept'
    BY <1>1, <2>1, LinesStay DEF prodVars, worldVars
  <2>4. LogFiles'
    BY <1>1, <2>1 DEF LogFiles, regVars, worldVars
  <2> QED
    BY <1>1, <1>7, <2>2, <2>3, <2>4, PopKeepsRings
<1>8. ASSUME Flush PROVE Kept
  <2>1. UNCHANGED <<ringVars, prodVars, worldVars>>
    BY <1>8 DEF Flush
  <2>2. LinesApart' /\ LinesKept'
    BY <1>1, <2>1, LinesStay DEF ringVars, prodVars, worldVars
  <2> QED
    BY <1>1, <1>8, <2>2, FlushKeepsRings, FlushKeepsTable, FlushKeepsFiles
<1>9. ASSUME SecondPasses \/ UNCHANGED threadLogVars PROVE Kept
  <2>1. /\ UNCHANGED <<ringVars, prodVars, logVars, regVars, base, crashed, disk>>
        /\ seconds' = seconds \/ seconds' = seconds + 1
    BY <1>9 DEF SecondPasses, threadLogVars, worldVars
  <2>2. RingInv'
    BY <1>1, <2>1, QuietKeepsRings DEF ringVars, prodVars, logVars
  <2>3. LogTable' /\ LogNumbers' /\ LogIds'
    BY <1>1, <2>1, TableStays, IdsStay DEF TableInv, ringVars, prodVars, regVars
  <2>4. LinesApart' /\ LinesKept'
    BY <1>1, <2>1, LinesStay DEF ringVars, prodVars
  <2>5. LogFiles'
    BY <1>1, <2>1 DEF LogFiles, regVars
  <2> QED
    BY <2>2, <2>3, <2>4, <2>5
<1>10. ASSUME Exit \/ Crash PROVE Kept
  <2>1. StartAgain
    BY <1>10 DEF Exit, Crash
  <2>2. crashed' \in BOOLEAN
    BY <1>1, <1>10 DEF Exit, Crash, RingInv, LogTypes
  <2>3. RingInv' /\ LinesApart' /\ LinesKept'
    BY <1>1, <2>1, <2>2, AgainKeepsRings, AgainLines
  <2> QED
    BY <1>1, <1>10, <2>1, <2>3, AgainTable, EndKeepsFiles
<1>11. Kept
  BY <1>2, <1>3, <1>4, <1>5, <1>6, <1>7, <1>8, <1>9, <1>10 DEF LogNext, LogStep
<1> QED
  BY <1>11 DEF LogInv, RingInv

-----------------------------------------------------------------------------
(* What it implies *)

LEMMA SameLines ==
    ASSUME NEW s \in Seq(Nodes), NEW t \in Seq(Nodes), Len(s) = Len(t),
           \A n \in 1 .. Len(t) : s[n] = t[n]
    PROVE  s = t
<1>1. DOMAIN s = 1 .. Len(t) /\ DOMAIN t = 1 .. Len(t)
  OBVIOUS
<1>2. s = [n \in 1 .. Len(t) |-> s[n]] /\ t = [n \in 1 .. Len(t) |-> t[n]]
  BY <1>1
<1> QED
  BY <1>1, <1>2

LEMMA OrderFollows == LogInv => LinesInOrder
<1> SUFFICES ASSUME LogInv, NEW k \in Queues PROVE written[k] \o Waiting(k) = pushed[k]
  BY DEF LinesInOrder
<1>1. RingInv /\ LogRing(k)
  BY LogInvParts DEF RingInv, LogRings
<1> DEFINE f == front[k]
           b == back[k]
           w == Len(written[k])
           d == Popping(k)
           size == InRing(k)
           ring == [n \in 1 .. size |-> q[k][(f + n - 1) % cap]]
<1>2. /\ f \in Slots /\ b \in Slots /\ cap \in Nat \ {0} /\ q[k] \in [Slots -> Nodes]
      /\ written[k] \in Seq(Nodes) /\ pushed[k] \in Seq(Nodes)
  BY <1>1, LogAssumption DEF RingInv, LogTypes
<1>3. w \in Nat /\ d \in 0 .. 1 /\ size = RingSize(f, b)
  BY <1>2 DEF Popping, InRing
<1>4. size \in 0 .. (cap - 1) /\ size = (b + cap - f) % cap
  BY <1>2, <1>3, RingSizes
<1>5. Waiting(k) = IF d = 1 THEN Tail(ring) ELSE ring
  BY <1>4 DEF Waiting, Popping
<1>6. /\ (d = 1 => size >= 1) /\ d <= w
      /\ Len(pushed[k]) = w - d + size
      /\ \A n \in 1 .. size : q[k][RingAt(f, n)] = pushed[k][w - d + n]
      /\ \A n \in 1 .. w : written[k][n] = pushed[k][n]
  <2>1. d = 1 => size >= 1
    BY <1>1 DEF LogRing, Popping
  <2>2. /\ d <= w /\ Len(pushed[k]) = w - d + size
        /\ \A n \in 1 .. size : q[k][RingAt(f, n)] = pushed[k][w - d + n]
        /\ \A n \in 1 .. w : written[k][n] = pushed[k][n]
    BY <1>1 DEF LogRing
  <2> QED
    BY <2>1, <2>2
<1>7. \A n \in 1 .. size : RingAt(f, n) \in Slots /\ RingAt(f, n) = (f + n - 1) % cap
  <2>1. \A n \in 1 .. cap : RingAt(f, n) \in Slots /\ RingAt(f, n) = (f + n - 1) % cap
    BY <1>2, RingPlaces
  <2> HIDE DEF size
  <2>2. \A n \in 1 .. size : n \in 1 .. cap
    BY <1>2, <1>4
  <2> QED
    BY <2>1, <2>2
<1> HIDE DEF f, b, w, d, size
<1>8. ring \in Seq(Nodes) /\ Len(ring) = size
      /\ \A n \in 1 .. size : ring[n] = pushed[k][w - d + n]
  <2>1. size \in Nat
    BY <1>2, <1>4
  <2>2. \A n \in 1 .. size : q[k][(f + n - 1) % cap] \in Nodes
    BY <1>2, <1>7
  <2>3. ring \in [1 .. size -> Nodes]
    BY <2>2
  <2>4. \A n \in 1 .. size : ring[n] = pushed[k][w - d + n]
    BY <1>6, <1>7
  <2> HIDE DEF ring
  <2> QED
    BY <2>1, <2>3, <2>4
<1> HIDE DEF ring
<1> DEFINE rest == Waiting(k)
<1>9. /\ rest \in Seq(Nodes) /\ Len(rest) = size - d
      /\ \A n \in 1 .. (size - d) : rest[n] = pushed[k][w + n]
  <2>1. CASE d = 0
    <3>1. rest = ring
      BY <1>5, <2>1
    <3>2. \A n \in 1 .. size : w - d + n = w + n
      BY <1>2, <1>3, <1>4, <2>1
    <3>3. size - d = size
      BY <1>2, <1>4, <2>1
    <3> QED
      BY <1>8, <3>1, <3>2, <3>3
  <2>2. CASE d = 1
    <3>1. rest = Tail(ring) /\ size \in Nat /\ size >= 1
      BY <1>2, <1>4, <1>5, <1>6, <2>2
    <3>2. rest \in Seq(Nodes) /\ Len(rest) = size - 1
          /\ \A n \in 1 .. (size - 1) : rest[n] = ring[n + 1]
      BY <1>8, <3>1
    <3> HIDE DEF rest
    <3>3. ASSUME NEW n \in 1 .. (size - 1) PROVE rest[n] = pushed[k][w + n]
      <4>1. n + 1 \in 1 .. size /\ w - d + (n + 1) = w + n
        BY <1>3, <2>2, <3>1
      <4> QED
        BY <1>8, <3>2, <4>1
    <3>4. size - d = size - 1
      BY <2>2
    <3> QED
      BY <3>2, <3>3, <3>4
  <2>3. d = 0 \/ d = 1
    BY <1>3
  <2> QED
    BY <2>1, <2>2, <2>3, Zenon
<1> HIDE DEF rest
<1>10. w + Len(rest) = Len(pushed[k]) /\ Len(rest) \in Nat
  BY <1>2, <1>3, <1>4, <1>6, <1>9
<1>11. Len(written[k] \o rest) = Len(pushed[k]) /\ written[k] \o rest \in Seq(Nodes)
  BY <1>2, <1>9, <1>10 DEF w
<1>12. ASSUME NEW n \in 1 .. Len(pushed[k]) PROVE (written[k] \o rest)[n] = pushed[k][n]
  <2>1. CASE n <= w
    <3>1. (written[k] \o rest)[n] = written[k][n] /\ n \in 1 .. w
      BY <1>2, <1>3, <1>9, <1>10, <2>1 DEF w
    <3> QED
      BY <1>6, <3>1
  <2>2. CASE ~(n <= w)
    <3>1. (written[k] \o rest)[n] = rest[n - w] /\ n - w \in 1 .. Len(rest) /\ w + (n - w) = n
      BY <1>2, <1>3, <1>9, <1>10, <2>2 DEF w
    <3> QED
      BY <1>9, <3>1
  <2> QED
    BY <2>1, <2>2
<1>13. written[k] \o rest = pushed[k]
  BY <1>2, <1>11, <1>12, SameLines
<1> QED
  BY <1>13 DEF rest

LEMMA SoundFollows == LogInv => LogSound
<1> SUFFICES ASSUME LogInv PROVE LogSound
  OBVIOUS
<1>1. LogTypes /\ LogTable /\ LogNumbers /\ LogFiles
  BY DEF LogInv
<1>2. LogTypeOK
  BY <1>1 DEF LogTypes, LogTable, EntrySound, LogTypeOK
<1>3. HeadOnlyFirst
  <2> SUFFICES ASSUME NEW f \in DOMAIN disk
               PROVE  /\ \A n \in DOMAIN disk[f] : disk[f][n] = HeadLine => n = 1
                      /\ ~crashed /\ disk[f] # <<>> /\ (\E name \in Headed : f \in FilesOf(name))
                            => disk[f][1] = HeadLine
    BY DEF HeadOnlyFirst
  <2>1. disk[f] \in Seq(Nat) /\ HeadFirst(disk[f])
    BY <1>1 DEF LogFiles, FilesSound
  <2>2. DOMAIN disk[f] = 1 .. Len(disk[f])
    BY <2>1
  <2>3. ASSUME ~crashed, disk[f] # <<>>, \E name \in Headed : f \in FilesOf(name)
        PROVE  disk[f][1] = HeadLine
    <3>1. f \in HeadedFiles
      BY <2>3 DEF HeadedFiles
    <3> QED
      BY <1>1, <2>3, <3>1 DEF LogFiles, FilesSound, Begun
  <2> QED
    BY <2>1, <2>2, <2>3 DEF HeadFirst
<1>4. NumbersOfTheirOwn
  BY <1>1 DEF LogNumbers, NumbersOfTheirOwn
<1> QED
  BY <1>2, <1>3, <1>4, OrderFollows DEF LogSound

LEMMA KeptFollows == LogInv => LoggedOrUrgent
<1> SUFFICES ASSUME LogInv, NEW n \in (base + 1) .. lines
             PROVE  LET underway == \E k \in Queues : wrPc[k] = "push" /\ q[k][back[k]].line = n
                    IN IF n \in urgent \/ underway THEN ~IsPushed(n) ELSE IsPushed(n)
  BY DEF LoggedOrUrgent
<1>1. LinesApart /\ LinesKept /\ LogTypes
  BY DEF LogInv
<1>2. IsPushed(n) <=> \E k \in Queues : \E i \in 1 .. Len(pushed[k]) : pushed[k][i].line = n
  <2>1. \A k \in Queues : DOMAIN pushed[k] = 1 .. Len(pushed[k])
    BY <1>1 DEF LogTypes
  <2> QED
    BY <2>1 DEF IsPushed, ToSet
<1>3. CASE n \in urgent
  BY <1>1, <1>2, <1>3 DEF LinesApart
<1>4. CASE \E k \in Queues : wrPc[k] = "push" /\ q[k][back[k]].line = n
  BY <1>1, <1>2, <1>4 DEF LinesApart, Filling
<1>5. CASE ~(n \in urgent \/ \E k \in Queues : wrPc[k] = "push" /\ q[k][back[k]].line = n)
  BY <1>1, <1>2, <1>5 DEF LinesKept, Filling
<1> QED
  BY <1>3, <1>4, <1>5

-----------------------------------------------------------------------------
(***************************************************************************)
(* Column names stand at the beginning of a file only, a number belongs to *)
(* a file whose name begins with the registered one unless the table is    *)
(* full, and the lines of each thread are written in their order, each     *)
(* once (thread_log.h:79-97, :147-180, :196-205).                          *)
(***************************************************************************)
THEOREM LogSafe == LogSpec => []LogSound
<1>1. LogSpec => []LogInv
  BY LogInvStart, LogInvStep, PTL DEF LogSpec
<1> QED
  BY <1>1, SoundFollows, PTL

(***************************************************************************)
(* No line of a process is in neither the rings nor the urgent file, and   *)
(* none is in both (thread_log.h:342-365, :381-399).                       *)
(***************************************************************************)
THEOREM NoLineLost == LogSpec => []LoggedOrUrgent
<1>1. LogSpec => []LogInv
  BY LogInvStart, LogInvStep, PTL DEF LogSpec
<1> QED
  BY <1>1, KeptFollows, PTL
=============================================================================
