------------------------------ MODULE PkLimit ------------------------------
(***************************************************************************)
(* The rate limit of client messages, src/logic/pk_limit.h, for one        *)
(* descriptor and one message number: the io thread checks each message    *)
(* (thread_io.h:134) while the logic may call set_limit.  The two threads  *)
(* share second and cnt without a lock; each read and store of them is a   *)
(* step.  Times are in one unit and the clock does not go back.            *)
(***************************************************************************)
EXTENDS Integers, Sequences, FiniteSets

CONSTANTS Limits,    \* the limits the logic sets: <<second, cnt>>
          CharMax,   \* the largest value of cnt and last_cnt, signed chars: 127
          Start,     \* the time at which the engine starts
          MaxTime,   \* bound: how far the clock goes
          MaxMsgs,   \* bound: messages that are checked
          MaxSets    \* bound: calls of set_limit

CharMin == -CharMax - 1
Chars == CharMin .. CharMax

\* The engine starts long after the time 0 of an empty entry.
ASSUME PkAssumption ==
    /\ CharMax \in Nat \ {0} /\ Start \in Nat \ {0}
    /\ MaxTime \in Nat /\ MaxMsgs \in Nat /\ MaxSets \in Nat
    /\ \A l \in Limits : l[1] \in Int /\ l[1] <= Start /\ l[2] \in Chars

VARIABLES
    second, cnt,          \* the limit, shared
    last_cnt, last_time,  \* of the io thread
    clock,
    cur_time,             \* the time cb_read has asked for, 0 before
    ckPc,                 \* where check_pk_limit is
    window,               \* second, as read for the comparison
    pending,              \* the stores set_limit has still to make
    accepted,             \* when messages were let through
    since,                \* the messages let through before the last set_limit
    stale,                \* the check began before the last store
    msgs, sets,
    refusal,              \* the last refusal: when, and the limit read
    wrapped               \* last_cnt went past CharMax

limitVars == <<second, cnt, pending, sets>>
checkVars == <<last_cnt, last_time, ckPc, window, accepted, msgs, refusal,
              wrapped>>
pkVars == <<limitVars, checkVars, clock, cur_time, since, stale>>

NoRefusal == [at |-> 0, second |-> 0, cnt |-> 0]

\* The conversion to the type of last_cnt.
Char(x) == ((x - CharMin) % (2 * (CharMax + 1))) + CharMin

\* The tables are static: nothing is let through until limits are set.
PkInit ==
    /\ second = 0 /\ cnt = 0 /\ pending = <<>> /\ sets = 0
    /\ last_cnt = 0 /\ last_time = 0
    /\ clock = Start /\ cur_time = 0
    /\ ckPc = "idle" /\ window = 0
    /\ accepted = <<>> /\ since = 0 /\ stale = FALSE
    /\ msgs = 0 /\ refusal = NoRefusal /\ wrapped = FALSE

Tick ==
    /\ clock < Start + MaxTime
    /\ clock' = clock + 1
    /\ UNCHANGED <<limitVars, checkVars, cur_time, since, stale>>

-----------------------------------------------------------------------------
(* check_pk_limit, for each message of one cb_read *)

\* cb_read asks for the time once for all the messages it finds.
Message ==
    /\ ckPc = "idle"
    /\ msgs < MaxMsgs
    /\ msgs' = msgs + 1
    /\ cur_time' = IF cur_time = 0 THEN clock ELSE cur_time
    /\ ckPc' = "fixing"
    /\ stale' = FALSE
    /\ UNCHANGED <<limitVars, last_cnt, last_time, window, accepted, refusal,
                   wrapped, clock, since>>

EndOfRead ==
    /\ ckPc = "idle"
    /\ cur_time' = 0
    /\ UNCHANGED <<limitVars, checkVars, clock, since, stale>>

\* A message let through: it counts for the limit it was checked against.
LetThrough ==
    /\ accepted' = Append(accepted, cur_time)
    /\ since' = IF stale THEN Len(accepted') ELSE since
    /\ ckPc' = "idle"

\* err_fixing
CheckFixing ==
    /\ ckPc = "fixing"
    /\ ckPc' = IF cnt <= 0 THEN "idle" ELSE "unlimited"
    /\ UNCHANGED <<limitVars, last_cnt, last_time, window, accepted, msgs,
                   refusal, wrapped, clock, cur_time, since, stale>>

CheckUnlimited ==
    /\ ckPc = "unlimited"
    /\ IF second <= 0 THEN LetThrough ELSE ckPc' = "second" /\ UNCHANGED <<accepted, since>>
    /\ UNCHANGED <<limitVars, last_cnt, last_time, window, msgs, refusal,
                   wrapped, clock, cur_time, stale>>

ReadSecond ==
    /\ ckPc = "second"
    /\ window' = second
    /\ ckPc' = IF cur_time < last_time + second THEN "fast" ELSE "count"
    /\ UNCHANGED <<limitVars, last_cnt, last_time, accepted, msgs, refusal,
                   wrapped, clock, cur_time, since, stale>>

\* Seeded bug: one message too many in a window.
TooFastLate == cnt < last_cnt

TooFast == cnt <= last_cnt

\* err_too_fast
CheckFast ==
    /\ ckPc = "fast"
    /\ IF TooFast
       THEN /\ refusal' = [at |-> cur_time, second |-> window, cnt |-> cnt]
            /\ ckPc' = "idle"
       ELSE /\ ckPc' = "count"
            /\ UNCHANGED refusal
    /\ UNCHANGED <<limitVars, last_cnt, last_time, window, accepted, msgs,
                   wrapped, clock, cur_time, since, stale>>

\* Seeded bug: the count of the last window goes on.
CountKeeps ==
    /\ ckPc = "count"
    /\ last_time' = IF last_time + second <= cur_time THEN cur_time ELSE last_time
    /\ last_cnt' = Char(last_cnt + 1)
    /\ wrapped' = wrapped
    /\ LetThrough
    /\ UNCHANGED <<limitVars, window, msgs, refusal, clock, cur_time, stale>>

\* Seeded bug: a new window begins where the last one ended.
CountDrifts ==
    /\ ckPc = "count"
    /\ LET expired == last_time + second <= cur_time
       IN /\ last_time' = IF expired THEN last_time + second ELSE last_time
          /\ last_cnt' = IF expired THEN 1 ELSE Char(last_cnt + 1)
    /\ wrapped' = wrapped
    /\ LetThrough
    /\ UNCHANGED <<limitVars, window, msgs, refusal, clock, cur_time, stale>>

\* second is read again: a new window, or one more in this one.
Count ==
    /\ ckPc = "count"
    /\ LET expired == last_time + second <= cur_time
       IN /\ last_time' = IF expired THEN cur_time ELSE last_time
          /\ last_cnt' = IF expired THEN 1 ELSE Char(last_cnt + 1)
          /\ wrapped' = (wrapped \/ (~expired /\ last_cnt = CharMax))
    /\ LetThrough
    /\ UNCHANGED <<limitVars, window, msgs, refusal, clock, cur_time, stale>>

-----------------------------------------------------------------------------
(* set_limit *)

\* Seeded bug: the count is stored before the interval.
StoresCntFirst(l) == <<[field |-> "cnt", to |-> l[2]], [field |-> "second", to |-> l[1]]>>

Stores(l) == <<[field |-> "second", to |-> l[1]], [field |-> "cnt", to |-> l[2]]>>

SetLimit(l) ==
    /\ pending = <<>>
    /\ sets < MaxSets
    /\ sets' = sets + 1
    /\ pending' = Stores(l)
    /\ UNCHANGED <<second, cnt, checkVars, clock, cur_time, since, stale>>

Store ==
    /\ pending # <<>>
    /\ LET s == Head(pending)
       IN /\ second' = IF s.field = "second" THEN s.to ELSE second
          /\ cnt' = IF s.field = "cnt" THEN s.to ELSE cnt
    /\ pending' = Tail(pending)
    /\ since' = Len(accepted)
    /\ stale' = TRUE
    /\ UNCHANGED <<sets, checkVars, clock, cur_time>>

-----------------------------------------------------------------------------
PkNext ==
    \/ Tick
    \/ Message \/ EndOfRead
    \/ CheckFixing \/ CheckUnlimited \/ ReadSecond \/ CheckFast \/ Count
    \/ \E l \in Limits : SetLimit(l)
    \/ Store

PkSpec == PkInit /\ [][PkNext]_pkVars

-----------------------------------------------------------------------------
(* Properties *)

PkTypeOK ==
    /\ second \in Int /\ second <= Start /\ {cnt, last_cnt} \subseteq Chars
    /\ {last_time, cur_time} \subseteq {0} \union Start .. clock
    /\ ckPc \in {"idle", "fixing", "unlimited", "second", "fast", "count"}
    /\ window \in Int /\ wrapped \in BOOLEAN
    /\ Len(pending) <= 2
    /\ Len(accepted) <= msgs /\ since <= Len(accepted)

\* The messages of accepted from index i on, in the s units from time t on.
Within(i, t, s) == {k \in i .. Len(accepted) : accepted[k] \in t .. (t + s - 1)}

(***************************************************************************)
(* Counting in fixed windows lets a burst end one window and begin the     *)
(* next: any interval of the length second sees at most 2 * cnt - 1        *)
(* messages after the limit was set, whatever was counted before.  When an *)
(* interval set during a check made the count go on past CharMax, it goes  *)
(* on from CharMin: so many more messages pass (pk_limit.h:32-40).         *)
(***************************************************************************)
Extra == IF wrapped THEN CharMax + 2 ELSE 0
Burst == 2 * cnt - 1 + Extra

RateBounded ==
    second > 0 /\ cnt > 0 /\ pending = <<>> =>
        \A k \in (since + 1) .. Len(accepted) :
            Cardinality(Within(since + 1, accepted[k], second)) <= Burst

(***************************************************************************)
(* A message is refused as too fast only after cnt others were let through *)
(* in the last interval: a client that keeps to the limit never is, not    *)
(* while the limit changes either (pk_limit.h:32).                         *)
(***************************************************************************)
RefusedOnlyAfterBurst ==
    refusal.at # 0 =>
        Cardinality(Within(1, refusal.at - refusal.second + 1, refusal.second))
            >= refusal.cnt

(***************************************************************************)
(* A limit that is being set for the first time lets nothing through: the  *)
(* interval is stored before the count (pk_limit.h:59).                    *)
(***************************************************************************)
NothingBeforeFirstLimit ==
    accepted # <<>> /\ sets = 1 => pending = <<>>

(***************************************************************************)
(* The limiter lets through neither more than the limit nor anything before *)
(* the first limit is complete, whichever step of the logic thread it meets. *)
(***************************************************************************)
LimitKept == PkTypeOK /\ RateBounded /\ NothingBeforeFirstLimit
=============================================================================
