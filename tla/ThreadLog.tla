----------------------------- MODULE ThreadLog -----------------------------
(***************************************************************************)
(* The log of src/common/thread_log.h: the io and the logic thread put     *)
(* lines into a message_queue each (src/common/msg_queue.h:82), the log    *)
(* thread writes them to files it opens, names anew and flushes.           *)
(* Number i of the code is entry i + 1 of li.                              *)
(***************************************************************************)
EXTENDS Integers, SequencesExt

CONSTANTS cap,         \* slots of each ring
          MaxIds,      \* size of li
          FlushEvery,  \* rounds of the log thread between flushes
          Names,       \* file names, as sequences
          Div,         \* the div_time each name is registered with
          Headed,      \* the names registered with column names
          Stamps,      \* what the local time can look like in a file name
          MaxSeconds,  \* bound: seconds the clock counts
          MaxLines,    \* bound: lines that are logged
          MaxEnds,     \* bound: times the process ends and is started again
          MaxFails     \* bound: times a file cannot be opened

\* The clock starts late enough for a first file of every entry.
Start == 100

\* What update_file calls the files of a name.
FilesOf(name) == {name \o <<"log">>} \union {name \o <<stamp, "log">> : stamp \in Stamps}

\* What the names of files are made of.
Parts == {"log"} \union Stamps \union UNION {ToSet(name) : name \in Names}

\* No name goes on from another one the way its files do.
ASSUME LogAssumption ==
    /\ cap \in Nat \ {0} /\ MaxIds \in Nat \ {0} /\ FlushEvery \in Nat \ {0}
    /\ Names \subseteq Seq(Parts) /\ Headed \subseteq Names
    /\ \A a, b \in Names : \A f \in FilesOf(b) : IsPrefix(a, f) => IsPrefix(a, b)
    /\ Div \in [Names -> 0 .. Start]
    /\ MaxLines \in Nat

Queues == {"q_io", "q_list"}
Slots == 0 .. (cap - 1)
NoFile == <<>>
NoLine == [line |-> 0, id |-> 0]

VARIABLES
    back, front, q,       \* of both rings; back is the producer's
    wrPc,                 \* where a producer is in write
    li,                   \* the registered files
    logPc, lq,            \* where the log thread is, and at which queue
    step,
    seconds,
    disk,                 \* the files: a function from names to their lines
    lines, ends,
    base,                 \* the lines of earlier processes
    pushed, written,      \* history: what went into each ring, and out of it
    urgent,               \* lines that went to the urgent file
    unopened,             \* lines whose file could not be opened
    regs,                 \* the names registered, with their numbers
    crashed

ringVars == <<back, front, q>>
prodVars == <<wrPc, pushed, urgent, lines>>
logVars == <<logPc, lq, step, written, unopened>>
regVars == <<li, regs>>
worldVars == <<seconds, ends, base, crashed>>
threadLogVars == <<ringVars, prodVars, logVars, regVars, worldVars, disk>>

\* A process that has just started.
Fresh(X) == [k \in Queues |-> X]

LogInit ==
    /\ back = Fresh(0) /\ front = Fresh(0) /\ q = Fresh([s \in Slots |-> NoLine])
    /\ wrPc = Fresh("idle")
    /\ li = <<>> /\ regs = {}
    /\ logPc = "sleep" /\ lq = "q_io" /\ step = 0
    /\ pushed = Fresh(<<>>) /\ written = Fresh(<<>>) /\ urgent = {} /\ unopened = {}
    /\ seconds = Start /\ disk = [f \in {} |-> <<>>]
    /\ lines = 0 /\ base = 0 /\ ends = 0 /\ crashed = FALSE

-----------------------------------------------------------------------------
(* thread_log::reg, by the main and then the logic thread *)

\* Seeded bug: memcmp over the length of the registered name.
SameFileShort(name, e) == IsPrefix(e.name, name)

\* memcmp over the length of the new name.
SameFile(name, e) == IsPrefix(name, e.filename)

NewEntry(name) ==
    [name |-> name, filename |-> name, div |-> Div[name], head |-> name \in Headed,
     file |-> NoFile, buf |-> <<>>, has_data |-> FALSE, last |-> 0]

Registered(name) == {i \in DOMAIN li : SameFile(name, li[i])}

RegTo(name, id) == regs' = regs \union {<<name, id>>}

\* With a full table the number is that of the first file.
Reg(name) ==
    /\ wrPc["q_list"] = "idle"
    /\ \/ /\ Len(li) = MaxIds
          /\ RegTo(name, 1)
          /\ UNCHANGED li
       \/ /\ Len(li) < MaxIds
          /\ \E i \in Registered(name) :
                (\A j \in Registered(name) : i <= j) /\ RegTo(name, i)
          /\ UNCHANGED li
       \/ /\ Len(li) < MaxIds
          /\ Registered(name) = {}
          /\ RegTo(name, Len(li) + 1)
          /\ li' = Append(li, NewEntry(name))
    /\ UNCHANGED <<ringVars, prodVars, logVars, worldVars, disk>>

-----------------------------------------------------------------------------
(* write and write_c_log: the io thread into q_io, the logic into q_list *)

\* Seeded bug: the ring index without its wrap.
NextSlotNoWrap(i) == i + 1

NextSlot(i) == (i + 1) % cap

\* Seeded bug: the ring is never full.
NodeFullNever(k) == FALSE

NodeFull(k) == NextSlot(back[k]) = front[k]

\* getback finds no node, or the line does not fit: it goes to the urgent file.
Urgent(k) ==
    /\ lines' = lines + 1
    /\ urgent' = urgent \union {lines'}
    /\ UNCHANGED <<q, wrPc>>

\* The node is filled in place.
Fill(k, id) ==
    /\ ~NodeFull(k)
    /\ lines' = lines + 1
    /\ q' = [q EXCEPT ![k][back[k]] = [line |-> lines', id |-> id]]
    /\ wrPc' = [wrPc EXCEPT ![k] = "push"]
    /\ UNCHANGED urgent

\* Seeded bug: the answer of getback is not looked at.
WriteLineOver(k, id) ==
    /\ wrPc[k] = "idle"
    /\ lines < MaxLines
    /\ lines' = lines + 1
    /\ q' = [q EXCEPT ![k][back[k]] = [line |-> lines', id |-> id]]
    /\ wrPc' = [wrPc EXCEPT ![k] = "push"]
    /\ UNCHANGED <<urgent, back, front, pushed, logVars, regVars, worldVars, disk>>

\* The io thread has one file, registered first (thread_io.h:301).
Numbers(k) == IF k = "q_io" THEN DOMAIN li \intersect {1} ELSE {r[2] : r \in regs}

\* write, write_c_log
WriteLine(k, id) ==
    /\ wrPc[k] = "idle"
    /\ lines < MaxLines
    /\ Fill(k, id) \/ Urgent(k)
    /\ UNCHANGED <<back, front, pushed, logVars, regVars, worldVars, disk>>

\* message_queue::push; its own test for a full ring comes after getback's.
Push(k) ==
    /\ wrPc[k] = "push"
    /\ wrPc' = [wrPc EXCEPT ![k] = "idle"]
    /\ IF NodeFull(k)
       THEN UNCHANGED <<back, pushed>>
       ELSE /\ back' = [back EXCEPT ![k] = NextSlot(back[k])]
            /\ pushed' = [pushed EXCEPT ![k] = Append(@, q[k][back[k]])]
    /\ UNCHANGED <<front, q, urgent, lines, logVars, regVars, worldVars, disk>>

-----------------------------------------------------------------------------
(* thread_log::run *)

Round ==
    /\ logPc = "sleep"
    /\ logPc' = "front"
    /\ lq' = "q_io"
    /\ UNCHANGED <<ringVars, prodVars, step, written, unopened, regVars, worldVars, disk>>

\* getfront: the node stays in the ring while it is written.
GetFront ==
    /\ logPc = "front"
    /\ IF front[lq] # back[lq]
       THEN logPc' = "write" /\ UNCHANGED lq
       ELSE IF lq = "q_io"
            THEN lq' = "q_list" /\ UNCHANGED logPc
            ELSE logPc' = "flush" /\ UNCHANGED lq
    /\ UNCHANGED <<ringVars, prodVars, step, written, unopened, regVars, worldVars, disk>>

\* No two entries have a file in common.
Users(f) == {i \in DOMAIN li : li[i].file = f}

\* What fclose, or the end of the process, writes to the disk.
Buffered(f) == IF Users(f) = {} THEN <<>> ELSE li[CHOOSE i \in Users(f) : TRUE].buf

Saved(i) == [f \in DOMAIN disk |->
                IF li[i].file = f THEN disk[f] \o li[i].buf ELSE disk[f]]

\* update_file: an entry with an interval begins a file when it has passed.
Expired(e) == e.div # 0 /\ seconds >= e.last + e.div

\* The local time in a name may be old or torn: the logic thread writes it.
UpdateFile(e, stamp) ==
    CASE Expired(e) -> [e EXCEPT !.last = seconds, !.file = NoFile, !.buf = <<>>,
                                 !.filename = e.name \o <<stamp, "log">>]
      [] e.div = 0 /\ e.file = NoFile -> [e EXCEPT !.filename = e.name \o <<"log">>]
      [] OTHER -> e

\* Line 0 stands for the column names.
HeadLine == 0

\* Seeded bug: column names whenever the file is opened.
OpenFileHeadAlways(e, files) ==
    IF e.file # NoFile THEN e
    ELSE [e EXCEPT !.file = e.filename, !.buf = IF e.head THEN <<HeadLine>> ELSE <<>>]

OpenFile(e, files) ==
    IF e.file # NoFile THEN e
    ELSE [e EXCEPT !.file = e.filename,
                   !.buf = IF e.filename \notin files /\ e.head
                           THEN <<HeadLine>> ELSE <<>>]

\* fopen for appending makes a file that is not there.
Created(files, f) ==
    [x \in DOMAIN files \union {f} |-> IF x \in DOMAIN files THEN files[x] ELSE <<>>]

\* Seeded bug: the entry is not marked for the next flush.
PutUnmarked(e, n) == [e EXCEPT !.buf = Append(@, n)]

Put(e, n) == [e EXCEPT !.buf = Append(@, n), !.has_data = TRUE]

\* The node at the front, and the files once update_file has closed its own.
Node == q[lq][front[lq]]
Closed == IF Expired(li[Node.id]) THEN Saved(Node.id) ELSE disk

Written ==
    /\ logPc = "write"
    /\ written' = [written EXCEPT ![lq] = Append(@, Node)]
    /\ logPc' = "pop"
    /\ UNCHANGED <<ringVars, prodVars, lq, step, regs, worldVars>>

\* log_info::write
Write ==
    /\ Written
    /\ \E stamp \in Stamps :
          LET e == UpdateFile(li[Node.id], stamp)
          IN /\ li' = [li EXCEPT ![Node.id] =
                          Put(OpenFile(e, DOMAIN disk), Node.line)]
             /\ disk' = Created(Closed, e.filename)
    /\ UNCHANGED unopened

\* fopen gives no file: the line is lost, the next one tries again.
WriteUnopened ==
    /\ Cardinality(unopened) < MaxFails
    /\ Written
    /\ \E stamp \in Stamps :
          LET e == UpdateFile(li[Node.id], stamp)
          IN /\ e.file = NoFile
             /\ li' = [li EXCEPT ![Node.id] = e]
    /\ disk' = Closed
    /\ unopened' = unopened \union {Node.line}

Pop ==
    /\ logPc = "pop"
    /\ front' = [front EXCEPT ![lq] = NextSlot(@)]
    /\ logPc' = "front"
    /\ UNCHANGED <<back, q, prodVars, lq, step, written, unopened, regVars, worldVars, disk>>

HasFlush(i) == li[i].file # NoFile /\ li[i].has_data

\* The end of a round: in every FlushEvery-th all files are flushed.
Flush ==
    /\ logPc = "flush"
    /\ IF step = 0
       THEN /\ disk' = [f \in DOMAIN disk |->
                           IF \E i \in Users(f) : HasFlush(i)
                           THEN disk[f] \o Buffered(f) ELSE disk[f]]
            /\ li' = [i \in DOMAIN li |->
                         IF HasFlush(i) THEN [li[i] EXCEPT !.buf = <<>>, !.has_data = FALSE]
                                        ELSE li[i]]
       ELSE UNCHANGED <<disk, li>>
    /\ step' = (step + 1) % FlushEvery
    /\ logPc' = "sleep"
    /\ UNCHANGED <<ringVars, prodVars, lq, written, unopened, regs, worldVars>>

-----------------------------------------------------------------------------
(* The surroundings *)

SecondPasses ==
    /\ seconds < Start + MaxSeconds
    /\ seconds' = seconds + 1
    /\ UNCHANGED <<ringVars, prodVars, logVars, regVars, ends, base, crashed, disk>>

\* A new process begins with empty rings and an empty table.
StartAgain ==
    /\ ends < MaxEnds
    /\ ends' = ends + 1 /\ base' = lines
    /\ back' = Fresh(0) /\ front' = Fresh(0) /\ q' = Fresh([s \in Slots |-> NoLine])
    /\ wrPc' = Fresh("idle")
    /\ li' = <<>> /\ regs' = {}
    /\ logPc' = "sleep" /\ lq' = "q_io" /\ step' = 0
    /\ pushed' = Fresh(<<>>) /\ written' = Fresh(<<>>)
    /\ UNCHANGED <<seconds, lines, urgent, unopened>>

\* exit(0), by the logic after a signal or by the watchdog: the C library
\* flushes the files, what is in the rings is gone.
Exit ==
    /\ StartAgain
    /\ disk' = [f \in DOMAIN disk |-> disk[f] \o Buffered(f)]
    /\ UNCHANGED crashed

\* The process is killed: some of what is buffered has reached the disk.
Crash ==
    /\ StartAgain
    /\ crashed' = TRUE
    /\ \E n \in [DOMAIN disk -> 0 .. MaxLines + 1] :
          /\ \A f \in DOMAIN disk : n[f] <= Len(Buffered(f))
          /\ disk' = [f \in DOMAIN disk |-> disk[f] \o SubSeq(Buffered(f), 1, n[f])]

-----------------------------------------------------------------------------
LogStep == Round \/ GetFront \/ Write \/ WriteUnopened \/ Pop \/ Flush

LogNext ==
    \/ \E name \in Names : Reg(name)
    \/ \E k \in Queues :
          \/ \E id \in Numbers(k) : WriteLine(k, id)
          \/ Push(k)
    \/ LogStep
    \/ SecondPasses \/ Exit \/ Crash

LogSpec == LogInit /\ [][LogNext]_threadLogVars

\* The log thread keeps running.
LogFairSpec == LogSpec /\ WF_threadLogVars(LogStep)

-----------------------------------------------------------------------------
(* Properties *)

LogTypeOK ==
    /\ back \in [Queues -> Slots] /\ front \in [Queues -> Slots]
    /\ wrPc \in [Queues -> {"idle", "push"}]
    /\ logPc \in {"sleep", "front", "write", "pop", "flush"} /\ lq \in Queues
    /\ step \in 0 .. (FlushEvery - 1)
    /\ Len(li) <= MaxIds
    /\ \A i \in DOMAIN li : li[i].last \in {0} \union Start .. seconds
    /\ urgent \subseteq 1 .. lines

\* The nodes between front and back, but for one already written.
Waiting(k) ==
    LET size == (back[k] + cap - front[k]) % cap
        ring == [n \in 1 .. size |-> q[k][(front[k] + n - 1) % cap]]
    IN IF logPc = "pop" /\ lq = k THEN Tail(ring) ELSE ring

(***************************************************************************)
(* The log thread writes the lines of each thread in their order, each     *)
(* once: a node is not filled anew while it waits or is being written      *)
(* (msg_queue.h:88-131, thread_log.h:196-205).                             *)
(***************************************************************************)
LinesInOrder == \A k \in Queues : written[k] \o Waiting(k) = pushed[k]

\* Pushed by the process that runs.
IsPushed(n) == \E k \in Queues : n \in {p.line : p \in ToSet(pushed[k])}

OnDisk(n) == \E f \in DOMAIN disk : n \in ToSet(disk[f])

(***************************************************************************)
(* Each line of this process goes to the log or to the urgent file, none   *)
(* to neither and none to both (thread_log.h:342-365, :381-399).           *)
(***************************************************************************)
LoggedOrUrgent ==
    \A n \in (base + 1) .. lines :
        LET underway == \E k \in Queues : wrPc[k] = "push" /\ q[k][back[k]].line = n
        IN IF n \in urgent \/ underway THEN ~IsPushed(n) ELSE IsPushed(n)

(***************************************************************************)
(* A name gets the number of another file only where that file's name      *)
(* begins with it or the table is full, although update_file renames the   *)
(* entries meanwhile (thread_log.h:147-180).                               *)
(***************************************************************************)
NumbersOfTheirOwn ==
    \A r \in regs : \/ IsPrefix(r[1], li[r[2]].name)
                    \/ Len(li) = MaxIds /\ r[2] = 1

(***************************************************************************)
(* Column names are the first line of a file, and there only, over renewed *)
(* names and restarts; a file has them unless the process was killed       *)
(* between creating and flushing it (thread_log.h:79-97).                  *)
(***************************************************************************)
HeadOnlyFirst ==
    \A f \in DOMAIN disk :
        /\ \A n \in DOMAIN disk[f] : disk[f][n] = HeadLine => n = 1
        /\ ~crashed /\ disk[f] # <<>> /\ (\E name \in Headed : f \in FilesOf(name)) =>
              disk[f][1] = HeadLine

(***************************************************************************)
(* The registered names and the files are what their callers take them     *)
(* for, and each thread's lines are written in its order, each once.       *)
(***************************************************************************)
LogSound == LogTypeOK /\ HeadOnlyFirst /\ NumbersOfTheirOwn /\ LinesInOrder

(***************************************************************************)
(* A line that was pushed reaches the disk unless its file cannot be       *)
(* opened or the process ends first (thread_log.h:222-231).                *)
(***************************************************************************)
LineReachesDisk ==
    \A n \in 1 .. MaxLines : IsPushed(n) ~> (OnDisk(n) \/ n \in unopened \/ ~IsPushed(n))
=============================================================================
