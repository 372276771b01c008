----------------------------- MODULE HttpClient -----------------------------
(***************************************************************************)
(* Outgoing HTTP requests (src/common/thread_http.h): the logic queues     *)
(* requests, an event loop writes them to one connection that is made when *)
(* a request waits.  When the connection ends, or is refused, every        *)
(* request still queued is dropped.  Requests are numbered as they are     *)
(* queued.                                                                 *)
(***************************************************************************)
EXTENDS Integers, Sequences

CONSTANTS Cap,         \* blocks of http_send_pool
          MaxRequests  \* bound: requests the scripts make

ASSUME HttpAssumption == Cap \in Nat \ {0} /\ MaxRequests \in Nat

VARIABLES
    be,             \* the bufferevent: "none", "new", "connecting", "up"
    connect_state,  \* 0, 1 or 2, as the code believes
    pc, cur,        \* the event loop and the request it holds
    free,           \* free blocks of http_send_pool
    q_http_send,
    lgPc, out,      \* thread_http::send and its request
    nrequests,
    attempts,       \* connections tried
    sent,           \* the requests written, with the attempt that carried each
    dropped         \* requests given up

loopVars == <<be, connect_state, pc, cur>>
lgVars == <<lgPc, out, nrequests>>
history == <<attempts, sent, dropped>>
vars == <<loopVars, free, q_http_send, lgVars, history>>

\* at: the attempt when it was queued; fits: it fits the buffers of cb_time.
Requests == [n : 1 .. MaxRequests, at : 0 .. MaxRequests, fits : BOOLEAN]
None == [n |-> 0]
SlotsTight == Cap  \* seeded bug
Slots == Cap + 1   \* thread_http.h:159

Init ==
    /\ be = "none" /\ connect_state = 0 /\ pc = "loop" /\ cur = None
    /\ free = Cap /\ q_http_send = <<>>
    /\ lgPc = "idle" /\ out = None /\ nrequests = 0
    /\ attempts = 0 /\ sent = <<>> /\ dropped = {}

-----------------------------------------------------------------------------
(* thread_http::send, called by the scripts *)

\* Without a block the request goes to a log and no further.
SendAlloc(fits) ==
    /\ lgPc = "idle" /\ free > 0 /\ nrequests < MaxRequests
    /\ free' = free - 1
    /\ nrequests' = nrequests + 1
    /\ out' = [n |-> nrequests', at |-> attempts, fits |-> fits]
    /\ lgPc' = "push"
    /\ UNCHANGED <<loopVars, q_http_send, history>>

SendPush ==
    /\ lgPc = "push"
    /\ q_http_send' = IF Len(q_http_send) < Slots - 1
                      THEN Append(q_http_send, [out EXCEPT !.at = attempts])
                      ELSE q_http_send
    /\ lgPc' = "idle" /\ out' = None
    /\ UNCHANGED <<loopVars, free, nrequests, history>>

-----------------------------------------------------------------------------
(* cb_time *)

Waiting == pc = "loop" /\ q_http_send # <<>>

\* bufferevent_socket_new, then bufferevent_socket_connect without a socket.
DialNoSocket ==
    /\ Waiting
    /\ be = "none" \/ connect_state = 0
    /\ be' = "new" /\ connect_state' = 0
    /\ UNCHANGED <<pc, cur, free, q_http_send, lgVars, history>>

\* The connection is on its way.
DialPending ==
    /\ Waiting
    /\ be = "none" \/ connect_state = 0
    /\ be' = "connecting" /\ connect_state' = 1
    /\ attempts' = attempts + 1
    /\ UNCHANGED <<pc, cur, free, q_http_send, lgVars, sent, dropped>>

\* Seeded bug: connect_state is stored whatever the dial returned.
DialRefusedStored ==
    /\ Waiting
    /\ be = "none" \/ connect_state = 0
    /\ be' = "new" /\ connect_state' = 1
    /\ attempts' = attempts + 1
    /\ UNCHANGED <<pc, cur, free, q_http_send, lgVars, sent, dropped>>

\* The dial fails at once and calls cb_event before it returns.
DialRefused ==
    /\ Waiting
    /\ be = "none" \/ connect_state = 0
    /\ be' = "none" /\ connect_state' = 0
    /\ attempts' = attempts + 1
    /\ pc' = "drain"
    /\ UNCHANGED <<cur, free, q_http_send, lgVars, sent, dropped>>

\* One request is written at each tick; one that does not fit is given up.
PopAndWrite ==
    /\ Waiting /\ be # "none" /\ connect_state = 2
    /\ cur' = Head(q_http_send) /\ q_http_send' = Tail(q_http_send)
    /\ sent' = IF cur'.fits THEN Append(sent, [req |-> cur', on |-> attempts])
                            ELSE sent
    /\ dropped' = IF cur'.fits THEN dropped ELSE dropped \union {cur'.n}
    /\ pc' = "free"
    /\ UNCHANGED <<be, connect_state, free, lgVars, attempts>>

\* Seeded bug: a request that does not fit keeps its block.
FreeFitting ==
    /\ pc \in {"free", "drainFree"}
    /\ free' = IF cur.fits THEN free + 1 ELSE free
    /\ pc' = IF pc = "free" THEN "loop" ELSE "drain"
    /\ cur' = None
    /\ UNCHANGED <<be, connect_state, q_http_send, lgVars, history>>

FreeBlock ==
    /\ pc \in {"free", "drainFree"}
    /\ free' = free + 1
    /\ pc' = IF pc = "free" THEN "loop" ELSE "drain"
    /\ cur' = None
    /\ UNCHANGED <<be, connect_state, q_http_send, lgVars, history>>

-----------------------------------------------------------------------------
(* cb_event *)

Connected ==
    /\ pc = "loop" /\ be = "connecting"
    /\ be' = "up" /\ connect_state' = 2
    /\ UNCHANGED <<pc, cur, free, q_http_send, lgVars, history>>

\* The connection is refused, reset or closed by the peer.
Ended ==
    /\ pc = "loop" /\ be \in {"connecting", "up"}
    /\ be' = "none"
    /\ pc' = "drain"
    /\ UNCHANGED <<connect_state, cur, free, q_http_send, lgVars, history>>

\* Seeded bug: the request at the head is kept for the next connection.
DrainButOne ==
    /\ pc = "drain"
    /\ IF Len(q_http_send) < 2
       THEN pc' = "loop" /\ UNCHANGED <<cur, q_http_send, dropped>>
       ELSE /\ cur' = q_http_send[2]
            /\ q_http_send' = <<Head(q_http_send)>> \o Tail(Tail(q_http_send))
            /\ dropped' = dropped \union {cur'.n}
            /\ pc' = "drainFree"
    /\ UNCHANGED <<be, connect_state, free, lgVars, attempts, sent>>

\* The loop of cb_event, as long as it finds a request.
Drain ==
    /\ pc = "drain"
    /\ IF q_http_send = <<>>
       THEN pc' = "loop" /\ UNCHANGED <<cur, q_http_send, dropped>>
       ELSE /\ cur' = Head(q_http_send) /\ q_http_send' = Tail(q_http_send)
            /\ dropped' = dropped \union {cur'.n}
            /\ pc' = "drainFree"
    /\ UNCHANGED <<be, connect_state, free, lgVars, attempts, sent>>

-----------------------------------------------------------------------------
Dial == DialPending \/ DialRefused
Resolve == Connected \/ Ended
Next ==
    \/ \E fits \in BOOLEAN : SendAlloc(fits)
    \/ SendPush
    \/ DialNoSocket \/ Dial \/ PopAndWrite \/ FreeBlock \/ Resolve \/ Drain

Spec == Init /\ [][Next]_vars

(***************************************************************************)
(* The timer of the loop is periodic, the threads go on, the kernel ends   *)
(* an attempt to connect one way or the other, and there is a socket again *)
(* some time.  A connection that stands need not end.                      *)
(***************************************************************************)
Fairness ==
    /\ WF_vars(Dial) /\ WF_vars(PopAndWrite) /\ WF_vars(FreeBlock \/ Drain)
    /\ WF_vars(be = "connecting" /\ Resolve)
    /\ WF_vars(SendPush)

FairSpec == Spec /\ Fairness

-----------------------------------------------------------------------------
(* Properties *)

TypeOK ==
    /\ be \in {"none", "new", "connecting", "up"} /\ connect_state \in 0 .. 2
    /\ pc \in {"loop", "free", "drain", "drainFree"}
    /\ lgPc \in {"idle", "push"}
    /\ {cur, out} \subseteq Requests \union {None}
    /\ free \in 0 .. Cap /\ q_http_send \in Seq(Requests)
    /\ attempts \in 0 .. MaxRequests /\ nrequests \in 0 .. MaxRequests
    /\ dropped \subseteq 1 .. MaxRequests

(***************************************************************************)
(* connect_state tells the truth whenever there is a bufferevent, although *)
(* cb_event may run inside the dial of cb_time and only the pointer is     *)
(* cleared there (thread_http.h:21, :58, :61): nothing is written to a     *)
(* connection that does not stand, and no second dial is made.             *)
(***************************************************************************)
StateTellsTruth ==
    /\ be = "new" => connect_state = 0
    /\ be = "connecting" => connect_state = 1
    /\ be = "up" => connect_state = 2

(***************************************************************************)
(* Every block is free, queued or in one hand: neither the paths that give *)
(* a request up nor the drain forget one, and the ring never refuses one.  *)
(***************************************************************************)
BlocksConserved ==
    free + Len(q_http_send) + (IF cur # None THEN 1 ELSE 0)
         + (IF out # None THEN 1 ELSE 0) = Cap

(***************************************************************************)
(* The client knows the state of its connection and of all its blocks.     *)
(***************************************************************************)
HttpSound == TypeOK /\ StateTellsTruth /\ BlocksConserved

(***************************************************************************)
(* Requests are written in the order they were made, each once, and a      *)
(* request meets one attempt to connect at most: the one under way when it *)
(* was queued or the next.  It does not outlive a failure (cb_event).      *)
(***************************************************************************)
SentOnceInOrder ==
    \A i \in 1 .. Len(sent) :
        /\ sent[i].on <= sent[i].req.at + 1
        /\ sent[i].req.n \notin dropped
        /\ \A j \in 1 .. (i - 1) : sent[j].req.n < sent[i].req.n

(***************************************************************************)
(* A queued request is written or given up some time: the drain that drops *)
(* the queue does not leave the loop in a state that dials no more.        *)
(***************************************************************************)
RequestSettled ==
    \A n \in 1 .. MaxRequests :
        nrequests >= n ~> (n \in dropped \/ \E i \in 1 .. Len(sent) : sent[i].req.n = n)
=============================================================================
