---------------------------- MODULE StreamProofs ----------------------------
(***************************************************************************)
(* What the byte streams carry, and how it is written.                     *)
(*                                                                         *)
(* The HTTP client, for every pool and any number of requests: what it     *)
(* believes of its connection is true, no block is lost, each attempt to   *)
(* connect costs a request, and requests are written once and in order.    *)
(*                                                                         *)
(* The upgrade request and the frames of a client, for every buffer, every *)
(* frame and every cut of the stream: its messages reach the logic whole   *)
(* and in order, and the connection is closed only for cause.              *)
(*                                                                         *)
(* The messages of the inner link, for every block and any fields: what    *)
(* leaves can be read back as it was written, whatever a script gave up.   *)
(*                                                                         *)
(* The conversions beside them, for inputs of any length: unzip undoes zip *)
(* and stays in its buffer, base64_decode undoes base64_encode, SHA-1 cuts *)
(* a message as the standard does, a header announces its message, and a   *)
(* number is read as it was written.                                       *)
(***************************************************************************)
EXTENDS HttpClient, WebSocket, InnerMessage, ProtoNumbers, Lz77, Base64, Sha1,
        SequenceTheorems, FiniteSetTheorems, WellFoundedInduction, TLAPS

-----------------------------------------------------------------------------
(* HttpClient *)

\* The event loop holds a request between a pop and the free that follows.
Holding == cur # None <=> pc \in {"free", "drainFree"}
LogicHolding == out # None <=> lgPc = "push"

(***************************************************************************)
(* A connection is being made, stands or is being cleared up: no other is  *)
(* begun meanwhile.                                                        *)
(***************************************************************************)
Engaged == be \in {"connecting", "up"} \/ pc \in {"drain", "drainFree"}

PlaceInv ==
    /\ pc = "free" => be = "up"
    /\ pc \in {"drain", "drainFree"} => be = "none"

(***************************************************************************)
(* Requests that have left the queue pay for the attempts, and the head of *)
(* the queue for the one under way: the drain leaves nothing behind that a *)
(* second attempt could be made for.                                       *)
(***************************************************************************)
Left == nrequests - Len(q_http_send) - (IF out # None THEN 1 ELSE 0)
AttemptsPaid ==
    attempts <= Left + (IF Engaged /\ q_http_send # <<>> THEN 1 ELSE 0)

\* What waits was queued during this attempt or just before it.
QueuedAt ==
    \A i \in 1 .. Len(q_http_send) :
        /\ q_http_send[i].at <= attempts
        /\ attempts <= q_http_send[i].at + (IF Engaged THEN 1 ELSE 0)

\* The numbers of the requests, from those settled to the one in hand.
Numbers ==
    /\ \A i, j \in 1 .. Len(q_http_send) : i < j => q_http_send[i].n < q_http_send[j].n
    /\ \A i \in 1 .. Len(q_http_send) :
        q_http_send[i].n + (IF out # None THEN 1 ELSE 0) <= nrequests
    /\ out # None => out.n = nrequests

Settled == dropped \union {sent[i].req.n : i \in 1 .. Len(sent)}
SettledFirst ==
    \A n \in Settled :
        /\ n + (IF out # None THEN 1 ELSE 0) <= nrequests
        /\ \A i \in 1 .. Len(q_http_send) : n < q_http_send[i].n

SentType == sent \in Seq([req : Requests, on : Nat])

HttpInv ==
    /\ TypeOK /\ SentType /\ StateTellsTruth /\ BlocksConserved
    /\ Holding /\ LogicHolding /\ PlaceInv /\ AttemptsPaid
    /\ QueuedAt /\ Numbers /\ SettledFirst /\ SentOnceInOrder

-----------------------------------------------------------------------------
\* A request is never mistaken for the absence of one.
LEMMA RequestIsSome == \A r \in Requests : r # None /\ r.n \in Nat
<1> SUFFICES ASSUME NEW r \in Requests PROVE r # None /\ r.n \in Nat
  OBVIOUS
<1>1. r.n \in 1 .. MaxRequests
  BY DEF Requests
<1> QED
  BY <1>1, HttpAssumption DEF None

LEMMA ElementIn ==
    ASSUME NEW S, NEW q \in Seq(S), NEW i \in 1 .. Len(q) PROVE q[i] \in S
OBVIOUS

\* What a pop leaves in a queue.
LEMMA PopFacts ==
    ASSUME NEW S, NEW q \in Seq(S), q # <<>>
    PROVE  /\ Head(q) \in S /\ Head(q) = q[1]
           /\ Tail(q) \in Seq(S) /\ Len(Tail(q)) = Len(q) - 1 /\ Len(q) \in Nat \ {0}
           /\ \A i \in 1 .. Len(Tail(q)) : Tail(q)[i] = q[i + 1]
OBVIOUS

LEMMA InitHttp == Init => HttpInv
BY HttpAssumption
   DEF Init, HttpInv, TypeOK, SentType, StateTellsTruth, BlocksConserved,
       Holding, LogicHolding, PlaceInv, AttemptsPaid, Left, Engaged, QueuedAt,
       Numbers, Settled, SettledFirst, SentOnceInOrder, Requests, None

(***************************************************************************)
(* Both places that take a request out of the queue settle it: it is the   *)
(* oldest one, and it pays for the attempt that is under way.              *)
(***************************************************************************)
LEMMA PopStep ==
    ASSUME HttpInv, q_http_send # <<>>, cur = None, Engaged, Engaged',
           q_http_send' = Tail(q_http_send), cur' = Head(q_http_send),
           Settled' = Settled \union {cur'.n},
           UNCHANGED <<free, lgPc, out, nrequests, attempts>>
    PROVE  BlocksConserved' /\ AttemptsPaid' /\ QueuedAt' /\ Numbers' /\ SettledFirst'
<1> USE HttpAssumption DEF HttpInv, TypeOK
<1>1. /\ cur' \in Requests /\ cur' = q_http_send[1] /\ q_http_send' \in Seq(Requests)
      /\ Len(q_http_send') = Len(q_http_send) - 1 /\ Len(q_http_send) \in Nat \ {0}
      /\ \A i \in 1 .. Len(q_http_send') : q_http_send'[i] = q_http_send[i + 1]
  BY PopFacts
<1>2. cur' # None /\ cur'.n \in Nat
  BY <1>1, RequestIsSome
<1>3. BlocksConserved'
  BY <1>1, <1>2 DEF BlocksConserved
<1>4. AttemptsPaid'
  BY <1>1 DEF AttemptsPaid, Left
<1>5. QueuedAt'
  BY <1>1 DEF QueuedAt
<1>6. \A i \in 1 .. Len(q_http_send) : q_http_send[i].n \in Nat
  BY RequestIsSome
<1>7. Numbers'
  <2>1. /\ \A i, j \in 1 .. Len(q_http_send) : i < j => q_http_send[i].n < q_http_send[j].n
        /\ \A i \in 1 .. Len(q_http_send) :
            q_http_send[i].n + (IF out # None THEN 1 ELSE 0) <= nrequests
        /\ out # None => out.n = nrequests
    BY DEF Numbers
  <2>2. \A i \in 1 .. Len(q_http_send') : i + 1 \in 1 .. Len(q_http_send)
    BY <1>1
  <2>3. \A i, j \in 1 .. Len(q_http_send') :
          i < j => q_http_send'[i].n < q_http_send'[j].n
    BY <1>1, <2>1, <2>2
  <2>4. \A i \in 1 .. Len(q_http_send') :
            q_http_send'[i].n + (IF out' # None THEN 1 ELSE 0) <= nrequests'
    BY <1>1, <2>1, <2>2
  <2> QED
    BY <2>1, <2>3, <2>4 DEF Numbers
<1>8. SettledFirst'
  <2> SUFFICES ASSUME NEW n \in Settled'
               PROVE  /\ n + (IF out' # None THEN 1 ELSE 0) <= nrequests'
                      /\ \A i \in 1 .. Len(q_http_send') : n < q_http_send'[i].n
    BY DEF SettledFirst
  <2>1. CASE n \in Settled
    BY <1>1, <2>1 DEF SettledFirst
  <2>2. CASE n = cur'.n
    BY <1>1, <1>6, <2>2 DEF Numbers
  <2> QED
    BY <2>1, <2>2
<1> QED
  BY <1>3, <1>4, <1>5, <1>7, <1>8

-----------------------------------------------------------------------------
(***************************************************************************)
(* What is written is the oldest request: all that was settled before it   *)
(* has a smaller number.                                                   *)
(***************************************************************************)
LEMMA WriteStep == HttpInv /\ PopAndWrite => HttpInv'
<1> SUFFICES ASSUME HttpInv, PopAndWrite PROVE HttpInv'
  OBVIOUS
<1> USE HttpAssumption DEF HttpInv, TypeOK, PopAndWrite, Waiting
<1>1. /\ cur' \in Requests /\ cur' = q_http_send[1] /\ q_http_send' \in Seq(Requests)
      /\ cur' = Head(q_http_send) /\ Len(q_http_send) \in Nat \ {0}
  BY PopFacts
<1>2. cur' # None /\ cur'.n \in 1 .. MaxRequests /\ cur'.at \in 0 .. MaxRequests
  BY <1>1, RequestIsSome DEF Requests
<1>3. cur = None /\ be = "up" /\ be' = "up"
  BY DEF Holding, StateTellsTruth
<1>4. SentType' /\ (cur'.fits => sent' = Append(sent, [req |-> cur', on |-> attempts]))
      /\ (~cur'.fits => sent' = sent)
  <2>1. [req |-> cur', on |-> attempts] \in [req : Requests, on : Nat]
    BY <1>1
  <2>2. CASE cur'.fits
    BY <2>1, <2>2 DEF SentType
  <2>3. CASE ~cur'.fits
    BY <2>3 DEF SentType
  <2> QED
    BY <2>2, <2>3
<1>5. Settled' = Settled \union {cur'.n}
  <2>1. CASE cur'.fits
    <3>1. Len(sent) \in Nat /\ Len(sent') = Len(sent) + 1
      BY <1>4, <2>1 DEF SentType
    <3>2. sent'[Len(sent) + 1].req = cur'
      BY <1>4, <2>1 DEF SentType
    <3>3. \A i \in 1 .. Len(sent) : sent'[i] = sent[i]
      BY <1>4, <2>1 DEF SentType
    <3>4. dropped' = dropped
      BY <2>1
    <3> QED
      BY <3>1, <3>2, <3>3, <3>4 DEF Settled
  <2>2. CASE ~cur'.fits
    BY <1>4, <2>2 DEF Settled
  <2> QED
    BY <2>1, <2>2
<1>6. BlocksConserved' /\ AttemptsPaid' /\ QueuedAt' /\ Numbers' /\ SettledFirst'
  <2>1. Engaged /\ Engaged'
    BY <1>3 DEF Engaged
  <2> QED
    BY <1>1, <1>3, <1>5, <2>1, PopStep DEF lgVars
<1>7. TypeOK'
  BY <1>1, <1>2 DEF lgVars
<1>8. Holding' /\ LogicHolding' /\ PlaceInv' /\ StateTellsTruth'
  BY <1>2, <1>3 DEF Holding, LogicHolding, PlaceInv, StateTellsTruth, lgVars
<1>9. SentOnceInOrder'
  <2>1. cur'.n \notin Settled /\ attempts <= cur'.at + 1 /\ attempts \in Nat
    <3>1. \A n \in Settled : n < cur'.n
      BY <1>1 DEF SettledFirst
    <3> QED
      BY <1>1, <1>2, <3>1 DEF QueuedAt
  <2>2. CASE ~cur'.fits
    <3>1. \A i \in 1 .. Len(sent) : sent[i].req.n # cur'.n
      BY <2>1 DEF Settled
    <3> QED
      BY <1>4, <2>2, <3>1 DEF SentOnceInOrder
  <2>3. CASE cur'.fits
    <3>1. Len(sent) \in Nat /\ Len(sent') = Len(sent) + 1
      BY <1>4, <2>3 DEF SentType
    <3>2. sent'[Len(sent) + 1] = [req |-> cur', on |-> attempts]
      BY <1>4, <2>3 DEF SentType
    <3>3. \A i \in 1 .. Len(sent) : sent'[i] = sent[i]
      BY <1>4, <2>3 DEF SentType
    <3>4. dropped' = dropped /\ cur'.n \notin dropped
      BY <2>1, <2>3 DEF Settled
    <3>5. \A i \in 1 .. Len(sent) : sent[i].req.n < cur'.n
      <4>1. \A n \in Settled : n < cur'.n
        BY <1>1 DEF SettledFirst
      <4> QED
        BY <4>1 DEF Settled
    <3> QED
      BY <2>1, <3>1, <3>2, <3>3, <3>4, <3>5 DEF SentOnceInOrder
  <2> QED
    BY <2>2, <2>3
<1> QED
  BY <1>4, <1>6, <1>7, <1>8, <1>9

\* The end of a connection settles what waits.
LEMMA DrainStep == HttpInv /\ Drain => HttpInv'
<1> SUFFICES ASSUME HttpInv, Drain PROVE HttpInv'
  OBVIOUS
<1> USE HttpAssumption DEF HttpInv, TypeOK, Drain
<1>1. CASE q_http_send = <<>>
  <2>1. pc' = "loop" /\ UNCHANGED <<be, connect_state, free, lgVars, cur, q_http_send, history>>
    BY <1>1 DEF history
  <2>2. TypeOK' /\ SentType' /\ StateTellsTruth' /\ BlocksConserved' /\ SentOnceInOrder'
    BY <2>1 DEF SentType, StateTellsTruth, BlocksConserved, SentOnceInOrder,
       lgVars, history
  <2>3. Holding' /\ LogicHolding' /\ PlaceInv'
    BY <2>1 DEF Holding, LogicHolding, PlaceInv, lgVars
  <2>4. AttemptsPaid' /\ QueuedAt'
    BY <1>1, <2>1 DEF AttemptsPaid, Left, QueuedAt, lgVars, history
  <2>5. Numbers' /\ SettledFirst'
    BY <2>1 DEF Numbers, Settled, SettledFirst, lgVars, history
  <2> QED
    BY <2>2, <2>3, <2>4, <2>5
<1>2. CASE q_http_send # <<>>
  <2>1. /\ cur' \in Requests /\ cur' = q_http_send[1] /\ q_http_send' \in Seq(Requests)
        /\ cur' = Head(q_http_send) /\ Len(q_http_send) \in Nat \ {0}
    BY <1>2, PopFacts
  <2>2. cur' # None /\ cur'.n \in 1 .. MaxRequests
    BY <2>1, RequestIsSome DEF Requests
  <2>3. cur = None /\ Engaged /\ Engaged' /\ sent' = sent /\ dropped' = dropped \union {cur'.n}
    BY <1>2 DEF Holding, Engaged
  <2>4. Settled' = Settled \union {cur'.n}
    BY <2>3 DEF Settled
  <2>5. BlocksConserved' /\ AttemptsPaid' /\ QueuedAt' /\ Numbers' /\ SettledFirst'
    BY <1>2, <2>1, <2>3, <2>4, PopStep DEF lgVars
  <2>6. TypeOK' /\ SentType'
    BY <1>2, <2>1, <2>2 DEF SentType, lgVars
  <2>7. Holding' /\ LogicHolding' /\ PlaceInv' /\ StateTellsTruth'
    BY <1>2, <2>2 DEF Holding, LogicHolding, PlaceInv, StateTellsTruth, lgVars
  <2>8. SentOnceInOrder'
    <3>1. \A n \in Settled : n < cur'.n
      BY <2>1 DEF SettledFirst
    <3>2. \A i \in 1 .. Len(sent) : sent[i].req.n # cur'.n
      BY <2>2, <3>1 DEF Settled
    <3> QED
      BY <2>3, <3>2 DEF SentOnceInOrder, lgVars
  <2> QED
    BY <2>5, <2>6, <2>7, <2>8
<1> QED
  BY <1>1, <1>2

\* A block goes back to the pool.
LEMMA FreeStep == HttpInv /\ FreeBlock => HttpInv'
<1> SUFFICES ASSUME HttpInv, FreeBlock PROVE HttpInv'
  OBVIOUS
<1> USE HttpAssumption DEF HttpInv, TypeOK, FreeBlock
<1>1. cur # None /\ cur' = None /\ free' = free + 1 /\ Len(q_http_send) \in Nat
  BY DEF Holding
<1>2. BlocksConserved'
  BY <1>1 DEF BlocksConserved, lgVars
<1>3. free' <= Cap
  BY <1>1 DEF BlocksConserved
<1>4. TypeOK' /\ SentType' /\ StateTellsTruth' /\ Holding' /\ LogicHolding' /\ PlaceInv'
  BY <1>1, <1>3 DEF SentType, StateTellsTruth, Holding, LogicHolding, PlaceInv,
     lgVars, history
<1>5. AttemptsPaid' /\ QueuedAt' /\ Numbers' /\ SettledFirst' /\ SentOnceInOrder'
  <2>1. Engaged' <=> Engaged
    BY DEF Engaged, PlaceInv
  <2> QED
    BY <2>1 DEF AttemptsPaid, Left, QueuedAt, Numbers, Settled, SettledFirst,
       SentOnceInOrder, lgVars, history
<1> QED
  BY <1>2, <1>4, <1>5

-----------------------------------------------------------------------------
\* The scripts make a request.
LEMMA AllocStep == HttpInv /\ (\E fits \in BOOLEAN : SendAlloc(fits)) => HttpInv'
<1> SUFFICES ASSUME HttpInv, NEW fits \in BOOLEAN, SendAlloc(fits) PROVE HttpInv'
  OBVIOUS
<1> USE HttpAssumption DEF HttpInv, TypeOK, SendAlloc
<1>1. /\ out' \in Requests /\ out = None /\ out'.n = nrequests + 1
      /\ UNCHANGED <<be, connect_state, pc, cur, q_http_send, attempts, sent, dropped>>
  BY DEF Requests, LogicHolding, loopVars, history
<1>2. out' # None
  BY <1>1, RequestIsSome
<1>3. TypeOK' /\ SentType' /\ StateTellsTruth' /\ Holding' /\ LogicHolding' /\ PlaceInv'
  BY <1>1, <1>2 DEF SentType, StateTellsTruth, Holding, LogicHolding, PlaceInv
<1>4. QueuedAt' /\ SentOnceInOrder'
  BY <1>1 DEF Engaged, QueuedAt, SentOnceInOrder
<1>5. BlocksConserved'
  BY <1>1, <1>2 DEF BlocksConserved
<1>6. AttemptsPaid'
  <2>1. Left' = Left /\ Left \in Int /\ (Engaged' <=> Engaged)
    BY <1>1, <1>2 DEF Left, Engaged
  <2> QED
    BY <1>1, <2>1 DEF AttemptsPaid
<1>7. Numbers'
  <2>1. \A i \in 1 .. Len(q_http_send) : q_http_send[i].n \in Nat
    BY RequestIsSome
  <2> QED
    BY <1>1, <1>2, <2>1 DEF Numbers
<1>8. SettledFirst'
  <2>1. Settled' = Settled
    BY <1>1 DEF Settled
  <2>2. nrequests' = nrequests + 1
    OBVIOUS
  <2>3. \A n \in Settled : n + 1 <= nrequests'
    BY <1>1, <2>2 DEF SettledFirst, Settled, SentType, Requests
  <2> QED
    BY <1>1, <1>2, <2>1, <2>3 DEF SettledFirst
<1> QED
  BY <1>3, <1>4, <1>5, <1>6, <1>7, <1>8

\* The ring has room for every block of the pool.
LEMMA PushStep == HttpInv /\ SendPush => HttpInv'
<1> SUFFICES ASSUME HttpInv, SendPush PROVE HttpInv'
  OBVIOUS
<1> USE HttpAssumption DEF HttpInv, TypeOK, SendPush
<1> DEFINE r == [out EXCEPT !.at = attempts]
<1>1. /\ out \in Requests /\ out # None /\ out' = None
      /\ UNCHANGED <<be, connect_state, pc, cur, free, nrequests, attempts, sent, dropped>>
  BY DEF LogicHolding, loopVars, history
<1>2. r \in Requests /\ r.n = out.n /\ r.at = attempts /\ out.n \in Nat
  BY <1>1, RequestIsSome DEF Requests
<1>3. Len(q_http_send) < Slots - 1
  <2>1. Len(q_http_send) \in Nat
    OBVIOUS
  <2> QED
    BY <1>1, <2>1 DEF BlocksConserved, Slots
<1>4. q_http_send' = Append(q_http_send, r)
  BY <1>3
<1> HIDE DEF r
<1>5. /\ q_http_send' \in Seq(Requests) /\ Len(q_http_send) \in Nat
      /\ Len(q_http_send') = Len(q_http_send) + 1
      /\ q_http_send'[Len(q_http_send) + 1] = r
      /\ \A i \in 1 .. Len(q_http_send) : q_http_send'[i] = q_http_send[i]
  BY <1>2, <1>4
<1>6. TypeOK' /\ SentType' /\ StateTellsTruth' /\ Holding' /\ LogicHolding' /\ PlaceInv'
  BY <1>1, <1>5 DEF SentType, StateTellsTruth, Holding, LogicHolding, PlaceInv
<1>7. BlocksConserved'
  <2>1. free + Len(q_http_send) + (IF cur # None THEN 1 ELSE 0) + 1 = Cap
    BY <1>1 DEF BlocksConserved
  <2>2. free' = free /\ cur' = cur /\ out' = None /\ free \in Nat
    BY <1>1
  <2> HIDE DEF HttpInv, TypeOK, SendPush
  <2> QED
    BY <1>5, <2>1, <2>2 DEF BlocksConserved
<1>8. SentOnceInOrder'
  BY <1>1 DEF SentOnceInOrder
<1>9. AttemptsPaid'
  <2>1. Left' = Left /\ Left \in Int /\ (Engaged' <=> Engaged) /\ q_http_send' # <<>>
    BY <1>1, <1>5 DEF Left, Engaged
  <2> QED
    BY <1>1, <2>1 DEF AttemptsPaid
<1>10. QueuedAt'
  BY <1>1, <1>2, <1>5 DEF QueuedAt, Engaged
<1>11. \A i \in 1 .. Len(q_http_send) : q_http_send[i].n \in Nat /\ q_http_send[i].n < out.n
  <2>1. \A i \in 1 .. Len(q_http_send) : q_http_send[i].n \in Nat
    BY RequestIsSome
  <2> QED
    BY <1>1, <2>1 DEF Numbers
<1>12. Numbers'
  BY <1>1, <1>2, <1>5, <1>11 DEF Numbers
<1>13. SettledFirst'
  <2>1. Settled' = Settled
    BY <1>1 DEF Settled
  <2>2. \A n \in Settled : n \in Nat
    <3>1. \A i \in 1 .. Len(sent) : sent[i].req \in Requests
      <4> SUFFICES ASSUME NEW i \in 1 .. Len(sent) PROVE sent[i].req \in Requests
        OBVIOUS
      <4>1. sent \in Seq([req : Requests, on : Nat])
        BY DEF SentType
      <4>2. sent[i] \in [req : Requests, on : Nat]
        BY Zenon, <4>1, ElementIn
      <4> QED
        BY <4>2
    <3> QED
      BY <3>1, RequestIsSome DEF Settled
  <2>3. \A n \in Settled : n < out.n
    BY <1>1, <1>2, <2>2 DEF SettledFirst, Numbers
  <2> QED
    BY <1>1, <1>2, <1>5, <2>1, <2>2, <2>3 DEF SettledFirst
<1> QED
  BY <1>6, <1>7, <1>9, <1>8, <1>10, <1>12, <1>13

\* A new connection is tried only for a request that has met none.
LEMMA DialStep == HttpInv /\ (DialNoSocket \/ Dial) => HttpInv'
<1> SUFFICES ASSUME HttpInv, DialNoSocket \/ Dial PROVE HttpInv'
  OBVIOUS
<1> USE HttpAssumption DEF HttpInv, TypeOK, Waiting
<1>1. /\ pc = "loop" /\ q_http_send # <<>> /\ ~Engaged
      /\ UNCHANGED <<cur, free, q_http_send, lgPc, out, nrequests, sent, dropped>>
  BY DEF DialNoSocket, Dial, DialPending, DialRefused, StateTellsTruth, Engaged,
     lgVars, history
<1>2. Len(q_http_send) \in Nat \ {0}
  BY <1>1
<1>3. attempts + 1 <= MaxRequests
  BY <1>1, <1>2 DEF AttemptsPaid, Left
<1>4. attempts' = attempts \/ (attempts' = attempts + 1 /\ Engaged')
  BY DEF DialNoSocket, Dial, DialPending, DialRefused, Engaged, history
<1>5. TypeOK' /\ StateTellsTruth' /\ Holding' /\ LogicHolding' /\ PlaceInv'
  BY <1>1, <1>3 DEF DialNoSocket, Dial, DialPending, DialRefused, lgVars, history,
     StateTellsTruth, Holding, LogicHolding, PlaceInv
<1>6. SentType' /\ BlocksConserved' /\ SentOnceInOrder' /\ Numbers'
  BY <1>1 DEF SentType, BlocksConserved, SentOnceInOrder, Numbers
<1>7. AttemptsPaid'
  <2>1. Left' = Left /\ Left \in Int /\ attempts <= Left
    BY <1>1, <1>2 DEF AttemptsPaid, Left
  <2>2. q_http_send' # <<>>
    BY <1>1
  <2> QED
    BY <1>4, <2>1, <2>2 DEF AttemptsPaid
<1>8. QueuedAt'
  <2>1. \A i \in 1 .. Len(q_http_send) : q_http_send[i].at \in Nat
    <3> SUFFICES ASSUME NEW i \in 1 .. Len(q_http_send) PROVE q_http_send[i].at \in Nat
      OBVIOUS
    <3>1. q_http_send[i] \in Requests
      OBVIOUS
    <3> QED
      BY <3>1 DEF Requests
  <2> QED
    BY <1>1, <1>4, <2>1 DEF QueuedAt
<1>9. SettledFirst'
  BY <1>1 DEF Settled, SettledFirst
<1> QED
  BY <1>5, <1>6, <1>7, <1>8, <1>9

\* The connection is established or ends.
LEMMA ResolveStep == HttpInv /\ Resolve => HttpInv'
<1> SUFFICES ASSUME HttpInv, Resolve PROVE HttpInv'
  OBVIOUS
<1> USE HttpAssumption DEF HttpInv, TypeOK
<1>1. /\ Engaged /\ Engaged'
      /\ UNCHANGED <<cur, free, q_http_send, lgPc, out, nrequests, attempts, sent, dropped>>
  BY DEF Resolve, Connected, Ended, Engaged, lgVars, history
<1>2. TypeOK' /\ StateTellsTruth' /\ Holding' /\ LogicHolding' /\ PlaceInv'
  BY <1>1 DEF Resolve, Connected, Ended, StateTellsTruth, Holding, LogicHolding, PlaceInv
<1>3. SentType' /\ BlocksConserved' /\ SentOnceInOrder' /\ Numbers'
  BY <1>1 DEF SentType, BlocksConserved, SentOnceInOrder, Numbers
<1>4. AttemptsPaid' /\ QueuedAt' /\ SettledFirst'
  BY <1>1 DEF AttemptsPaid, Left, QueuedAt, Settled, SettledFirst
<1> QED
  BY <1>2, <1>3, <1>4

LEMMA StepHttp == HttpInv /\ [Next]_vars => HttpInv'
<1>1. HttpInv /\ UNCHANGED vars => HttpInv'
  BY DEF vars, loopVars, lgVars, history, HttpInv, TypeOK, SentType,
     StateTellsTruth, BlocksConserved, Holding, LogicHolding, PlaceInv,
     AttemptsPaid, Left, Engaged, QueuedAt, Numbers, Settled, SettledFirst,
     SentOnceInOrder
<1> QED
  BY <1>1, AllocStep, PushStep, DialStep, WriteStep, FreeStep, ResolveStep,
     DrainStep DEF Next

(***************************************************************************)
(* The client believes the truth of its connection, its ring never refuses *)
(* a block, and it tries to connect no more often than requests are made   *)
(* (thread_http.h:15-61, :159).                                            *)
(***************************************************************************)
THEOREM HttpSafe == Spec => []HttpSound
<1>1. HttpInv => HttpSound
  BY DEF HttpInv, HttpSound
<1> QED
  BY InitHttp, StepHttp, <1>1, PTL DEF Spec

(***************************************************************************)
(* Requests are written in order and once, at the attempt under way when   *)
(* they were queued or the next, and never after they were given up        *)
(* (thread_http.h:21-35, :62-110).                                         *)
(***************************************************************************)
THEOREM HttpInOrder == Spec => []SentOnceInOrder
<1>1. HttpInv => SentOnceInOrder
  BY DEF HttpInv
<1> QED
  BY InitHttp, StepHttp, <1>1, PTL DEF Spec

-----------------------------------------------------------------------------
(* WebSocket *)

(***************************************************************************)
(* The bytes of a stream that a client has sent and the server has not     *)
(* taken: those of its frames fs from some frame on, all of them, in order.*)
(***************************************************************************)
Bytes == in \o wire

SizeIn(fs, f) == IF f = 0 THEN ReqLen ELSE Size(fs[f])

\* A byte is followed by the others of its frame, ...
Follows(s, fs) ==
    \A i, j \in 1 .. Len(s) :
        i < j /\ s[i][2] + (j - i) <= SizeIn(fs, s[i][1]) =>
            s[j][1] = s[i][1] /\ s[j][2] = s[i][2] + (j - i)

\* ... the last one by the next frame.
NextBegins(s, fs) ==
    \A i \in 1 .. Len(s) :
        i < Len(s) /\ s[i][2] = SizeIn(fs, s[i][1]) =>
            s[i + 1][1] = s[i][1] + 1 /\ s[i + 1][2] = 1

Rising(s) == \A i, j \in 1 .. Len(s) : i < j => s[i][1] <= s[j][1]

\* No frame is missing.
Complete(s, fs) ==
    \A f \in 0 .. Len(fs) :
        s # <<>> /\ s[1][1] <= f => \E i \in 1 .. Len(s) : s[i][1] = f

Streamed(s, fs) ==
    /\ s \in Seq(Nat \X Nat)
    /\ \A i \in 1 .. Len(s) : s[i][1] \in 0 .. Len(fs) /\ s[i][2] \in 1 .. SizeIn(fs, s[i][1])
    /\ Follows(s, fs) /\ NextBegins(s, fs) /\ Rising(s) /\ Complete(s, fs)
    /\ s # <<>> => /\ s[1][2] = 1
                   /\ s[Len(s)][1] = Len(fs) /\ s[Len(s)][2] = SizeIn(fs, Len(fs))

\* The frame that is taken next.
NextFrame(s, fs) == IF s = <<>> THEN Len(fs) + 1 ELSE s[1][1]

WsTypes ==
    /\ up \in BOOLEAN /\ open \in BOOLEAN /\ reading \in BOOLEAN /\ early \in BOOLEAN
    /\ in \in Seq(Nat \X Nat) /\ wire \in Seq(Nat \X Nat)
    /\ buf \in Seq((Nat \X Nat) \union {Stale}) /\ Len(buf) = BufSize
    /\ frames \in Seq(FrameKinds)
    /\ got \in Seq(Seq(Nat \X Nat))

\* Before its request is answered a client sends nothing else.
Asking ==
    ~up => /\ frames = <<>> /\ got = <<>> /\ open
           /\ Bytes = Cells(0, ReqLen)
           /\ reading => in # <<>>

Wanted(fs, f) == HasMessage(fs[f]) /\ fs[f].fate = "ok"

\* The messages are those of the frames before n.
GotSound(g, fs, n) ==
    /\ \A i \in 1 .. Len(g) :
          /\ FrameOf(g[i]) \in 1 .. (n - 1) /\ Wanted(fs, FrameOf(g[i]))
          /\ g[i] = Payload(FrameOf(g[i]), fs[FrameOf(g[i])])
    /\ \A i, j \in 1 .. Len(g) : i < j => FrameOf(g[i]) < FrameOf(g[j])
    /\ \A f \in 1 .. (n - 1) : Wanted(fs, f) => \E i \in 1 .. Len(g) : FrameOf(g[i]) = f

Harmless(fs, n) == \A f \in 1 .. (n - 1) : ~Deadly(fs[f])

Sound(g, fs, n, o) ==
    /\ n >= 1
    /\ GotSound(g, fs, n)
    /\ o <=> Harmless(fs, n)

\* What the last callback left was too little.
TooLittle ==
    up /\ open /\ ~reading /\ ~early /\ in # <<>> =>
        ~Enough \/ Looked < Size(frames[in[1][1]])

WsInv ==
    /\ WsTypes /\ Streamed(Bytes, frames) /\ Asking /\ TooLittle
    /\ up => Sound(got, frames, NextFrame(Bytes, frames), open)

-----------------------------------------------------------------------------
LEMMA ConcatIs ==
    ASSUME NEW S, NEW s \in Seq(S), NEW t \in Seq(S)
    PROVE  /\ s \o t \in Seq(S) /\ Len(s \o t) = Len(s) + Len(t)
           /\ Len(s) \in Nat /\ Len(t) \in Nat
           /\ \A i \in 1 .. Len(s) : (s \o t)[i] = s[i]
           /\ \A i \in 1 .. Len(t) : (s \o t)[Len(s) + i] = t[i]
OBVIOUS

LEMMA SubSeqIs ==
    ASSUME NEW S, NEW s \in Seq(S), NEW m \in Nat \ {0}, NEW n \in Nat,
           m <= n + 1, n <= Len(s)
    PROVE  /\ SubSeq(s, m, n) \in Seq(S) /\ Len(SubSeq(s, m, n)) = n - m + 1
           /\ \A i \in 1 .. (n - m + 1) : SubSeq(s, m, n)[i] = s[m + i - 1]
OBVIOUS

LEMMA ToSetIs ==
    ASSUME NEW S, NEW s \in Seq(S)
    PROVE  \A x : x \in ToSet(s) <=> \E i \in 1 .. Len(s) : s[i] = x
<1>1. DOMAIN s = 1 .. Len(s)
  OBVIOUS
<1> QED
  BY <1>1 DEF ToSet

LEMMA EmptyIs ==
    ASSUME NEW S, NEW s \in Seq(S)
    PROVE  /\ Len(s) \in Nat /\ (s = <<>> <=> Len(s) = 0)
           /\ \A i \in 1 .. Len(s) : s[i] \in S
OBVIOUS

-----------------------------------------------------------------------------
LEMMA SizeIs ==
    ASSUME NEW fr \in FrameKinds
    PROVE  /\ HeaderLen(fr) \in Nat /\ HeaderLen(fr) >= 2 /\ fr.len \in Nat
           /\ Size(fr) \in Nat /\ Size(fr) = HeaderLen(fr) + fr.len
           /\ fr.masked => Size(fr) >= 6
<1>1. fr.len \in Nat /\ fr.masked \in BOOLEAN
  BY WsAssumption
<1>2. Extended \in Nat
  BY WsAssumption
<1>3. HeaderLen(fr) \in Nat /\ HeaderLen(fr) >= 2
  BY <1>1, <1>2 DEF HeaderLen
<1>4. fr.masked => HeaderLen(fr) >= 6
  BY <1>1, <1>2 DEF HeaderLen
<1> QED
  BY <1>1, <1>3, <1>4 DEF Size

LEMMA CellsAre ==
    ASSUME NEW f \in Nat, NEW n \in Nat
    PROVE  /\ Cells(f, n) \in Seq(Nat \X Nat) /\ Len(Cells(f, n)) = n
           /\ \A k \in 1 .. n : Cells(f, n)[k][1] = f /\ Cells(f, n)[k][2] = k
<1>1. \A k \in 1 .. n : <<f, k>> \in Nat \X Nat
  OBVIOUS
<1>2. Cells(f, n) \in Seq(Nat \X Nat)
  BY <1>1 DEF Cells
<1>3. DOMAIN Cells(f, n) = 1 .. n
  BY DEF Cells
<1>4. Len(Cells(f, n)) = n
  BY <1>2, <1>3
<1> QED
  BY <1>2, <1>4 DEF Cells

\* A frame goes to the end of the stream.
LEMMA StreamAppend ==
    ASSUME NEW s, NEW fs \in Seq(FrameKinds), Streamed(s, fs), NEW fr \in FrameKinds
    PROVE  /\ Streamed(s \o Cells(Len(fs) + 1, Size(fr)), Append(fs, fr))
           /\ NextFrame(s \o Cells(Len(fs) + 1, Size(fr)), Append(fs, fr)) = NextFrame(s, fs)
<1> DEFINE n == Len(fs)
<1> DEFINE z == Size(fr)
<1> DEFINE c == Cells(n + 1, z)
<1> DEFINE t == s \o c
<1> DEFINE fs2 == Append(fs, fr)
<1> DEFINE L == Len(s)
<1>1. z \in Nat /\ z >= 2 /\ n \in Nat
  BY SizeIs
<1>2. /\ c \in Seq(Nat \X Nat) /\ Len(c) = z
      /\ \A k \in 1 .. z : c[k][1] = n + 1 /\ c[k][2] = k
  <2>1. n + 1 \in Nat
    BY <1>1
  <2> HIDE DEF z, n
  <2> QED
    BY <1>1, <2>1, CellsAre
<1>3. /\ Len(fs2) = n + 1
      /\ \A f \in 0 .. n : SizeIn(fs2, f) = SizeIn(fs, f)
      /\ SizeIn(fs2, n + 1) = z
  BY DEF SizeIn
<1>4. s \in Seq(Nat \X Nat) /\ L \in Nat
  BY DEF Streamed
<1> HIDE DEF z, c, fs2, n
<1>5. /\ t \in Seq(Nat \X Nat) /\ Len(t) = L + z
      /\ \A i \in 1 .. L : t[i] = s[i]
      /\ \A i \in 1 .. z : t[L + i] = c[i]
  <2> DEFINE S == Nat \X Nat
  <2>1. s \in Seq(S) /\ c \in Seq(S)
    BY <1>2, <1>4
  <2> HIDE DEF S
  <2>2. /\ t \in Seq(S) /\ Len(t) = Len(s) + Len(c)
        /\ \A i \in 1 .. Len(s) : t[i] = s[i]
        /\ \A i \in 1 .. Len(c) : t[Len(s) + i] = c[i]
    BY <2>1, ConcatIs
  <2>3. Len(c) = z
    BY <1>2
  <2> HIDE DEF t
  <2> QED
    BY <2>2, <2>3 DEF S
<1> DEFINE A(i) == t[i][1]
<1> DEFINE K(i) == t[i][2]
<1>6. \A i \in 1 .. (L + z) : A(i) \in Nat /\ K(i) \in Nat
  <2>1. \A i \in 1 .. (L + z) : t[i] \in Nat \X Nat
    <3> HIDE DEF t, L
    <3> QED
      BY <1>5, EmptyIs
  <2> QED
    BY <2>1
<1>7. /\ \A i \in 1 .. L : A(i) = s[i][1] /\ K(i) = s[i][2]
      /\ \A i \in (L + 1) .. (L + z) : A(i) = n + 1 /\ K(i) = i - L
  <2>1. ASSUME NEW i \in (L + 1) .. (L + z) PROVE A(i) = n + 1 /\ K(i) = i - L
    <3>1. i - L \in 1 .. z /\ L + (i - L) = i
      BY <1>1, <1>4
    <3>2. t[L + (i - L)] = c[i - L]
      BY <1>5, <3>1
    <3>3. t[i] = c[i - L]
      BY <3>1, <3>2
    <3> QED
      BY <1>2, <3>1, <3>3
  <2> QED
    BY <1>5, <2>1
<1>8. \A i \in 1 .. L : /\ A(i) \in 0 .. n /\ K(i) \in 1 .. SizeIn(fs, A(i))
                        /\ SizeIn(fs2, A(i)) = SizeIn(fs, A(i))
  BY <1>3, <1>7 DEF Streamed, n
<1>9. L > 0 => A(1) = s[1][1] /\ K(1) = 1 /\ A(L) = n /\ K(L) = SizeIn(fs, n) /\ s # <<>>
  BY <1>4, <1>7, EmptyIs DEF Streamed, n
<1>10. s = <<>> <=> L = 0
  BY <1>4, EmptyIs
<1>11. t # <<>> /\ A(1) = NextFrame(s, fs)
  <2>1. t # <<>>
    BY <1>1, <1>4, <1>5, EmptyIs
  <2>2. CASE L = 0
    BY <1>1, <1>7, <1>10, <2>2 DEF NextFrame, n
  <2>3. CASE L > 0
    BY <1>9, <2>3 DEF NextFrame
  <2> QED
    BY <1>4, <2>1, <2>2, <2>3
<1>12. \A i, j \in 1 .. L :
         i < j /\ K(i) + (j - i) <= SizeIn(fs, A(i)) => A(j) = A(i) /\ K(j) = K(i) + (j - i)
  BY <1>7 DEF Streamed, Follows
<1>13. \A i \in 1 .. L :
         i < L /\ K(i) = SizeIn(fs, A(i)) => A(i + 1) = A(i) + 1 /\ K(i + 1) = 1
  <2> TAKE i \in 1 .. L
  <2>1. i < L => i + 1 \in 1 .. L
    BY <1>4
  <2> QED
    BY <1>7, <2>1 DEF Streamed, NextBegins
<1>14. \A i, j \in 1 .. L : i < j => A(i) <= A(j)
  BY <1>7 DEF Streamed, Rising
<1>15. \A f \in 0 .. n : L > 0 /\ A(1) <= f => \E i \in 1 .. L : A(i) = f
  BY <1>7, <1>9 DEF Streamed, Complete, n
<1>16. \A f \in 0 .. n : SizeIn(fs, f) \in Nat
  <2>1. \A f \in 0 .. n : f # 0 => fs[f] \in FrameKinds
    BY <1>1 DEF n
  <2>2. ReqLen \in Nat
    BY WsAssumption
  <2> QED
    BY <2>1, <2>2, SizeIs DEF SizeIn
<1>17. /\ Len(t) = L + z
       /\ \A i \in 1 .. (L + z) : t[i][1] = A(i) /\ t[i][2] = K(i)
  BY <1>5
<1> HIDE DEF t, A, K, L
<1>18. ASSUME NEW i \in 1 .. (L + z)
       PROVE  A(i) \in 0 .. (n + 1) /\ K(i) \in 1 .. SizeIn(fs2, A(i))
  <2>1. CASE i <= L
    BY <1>1, <1>4, <1>8, <2>1
  <2>2. CASE i > L
    <3>1. A(i) = n + 1 /\ K(i) = i - L
      BY <1>1, <1>4, <1>7, <2>2
    <3> QED
      BY <1>1, <1>3, <1>4, <2>2, <3>1
  <2> QED
    BY <1>4, <2>1, <2>2
<1>19. ASSUME NEW i \in 1 .. (L + z), NEW j \in 1 .. (L + z), i < j,
              K(i) + (j - i) <= SizeIn(fs2, A(i))
       PROVE  A(j) = A(i) /\ K(j) = K(i) + (j - i)
  <2>1. CASE j <= L
    BY <1>1, <1>4, <1>8, <1>12, <1>19, <2>1
  <2>2. CASE i > L
    <3>1. A(i) = n + 1 /\ K(i) = i - L /\ A(j) = n + 1 /\ K(j) = j - L
      BY <1>1, <1>4, <1>7, <1>19, <2>2
    <3> QED
      BY <1>4, <3>1
  <2>3. CASE i <= L /\ j > L
    <3>1. i \in 1 .. L /\ L \in 1 .. L
      BY <1>4, <2>3
    <3>2. SizeIn(fs2, A(i)) = SizeIn(fs, A(i)) /\ A(i) \in 0 .. n /\ SizeIn(fs, A(i)) \in Nat
      BY <1>8, <1>16, <3>1
    <3>3. K(i) \in Nat /\ A(L) = n /\ K(L) = SizeIn(fs, n)
      BY <1>4, <1>8, <1>9, <3>1, <1>6, <1>1
    <3>4. i # L
      BY <1>19, <2>3, <3>2, <3>3, <1>4
    <3>5. i < L /\ K(i) + (L - i) <= SizeIn(fs, A(i))
      BY <1>19, <2>3, <3>1, <3>2, <3>3, <3>4, <1>4
    <3>6. A(L) = A(i) /\ K(L) = K(i) + (L - i)
      BY <1>12, <3>1, <3>5
    <3> QED
      BY <1>19, <1>4, <2>3, <3>2, <3>3, <3>6
  <2> QED
    BY <1>4, <2>1, <2>2, <2>3
<1>20. ASSUME NEW i \in 1 .. (L + z), i < L + z, K(i) = SizeIn(fs2, A(i))
       PROVE  A(i + 1) = A(i) + 1 /\ K(i + 1) = 1
  <2>1. CASE i < L
    BY <1>1, <1>4, <1>8, <1>13, <1>20, <2>1
  <2>2. CASE i = L
    <3>1. A(L) = n /\ L \in Nat /\ L > 0
      BY <1>4, <1>9, <2>2
    <3>2. L + 1 \in (L + 1) .. (L + z)
      BY <1>1, <3>1
    <3>3. A(L + 1) = n + 1 /\ K(L + 1) = (L + 1) - L
      BY <1>7, <3>2
    <3> QED
      BY <2>2, <3>1, <3>3
  <2>3. CASE i > L
    <3>1. A(i) = n + 1 /\ K(i) = i - L
      BY <1>1, <1>4, <1>7, <2>3
    <3> QED
      BY <1>1, <1>3, <1>4, <1>20, <3>1
  <2> QED
    BY <1>4, <2>1, <2>2, <2>3
<1>21. ASSUME NEW i \in 1 .. (L + z), NEW j \in 1 .. (L + z), i < j
       PROVE  A(i) <= A(j)
  <2>1. CASE j <= L
    BY <1>1, <1>4, <1>14, <1>21, <2>1
  <2>2. CASE j > L
    <3>1. A(j) = n + 1
      BY <1>1, <1>4, <1>7, <2>2
    <3> QED
      BY <1>18, <3>1, <1>1
  <2> QED
    BY <1>4, <2>1, <2>2
<1>22. ASSUME NEW f \in 0 .. (n + 1), A(1) <= f
       PROVE  \E i \in 1 .. (L + z) : A(i) = f
  <2>1. CASE f = n + 1
    <3>1. L + 1 \in 1 .. (L + z) /\ L + 1 \in (L + 1) .. (L + z)
      BY <1>1, <1>4
    <3> QED
      BY <1>7, <2>1, <3>1
  <2>2. CASE f <= n
    <3>1. L > 0
      <4> SUFFICES ASSUME L = 0 PROVE FALSE
        BY <1>4
      <4>1. 1 \in (L + 1) .. (L + z)
        BY <1>1
      <4> QED
        BY <1>1, <1>7, <1>22, <2>2, <4>1
    <3>2. \E i \in 1 .. L : A(i) = f
      BY <1>1, <1>15, <1>22, <2>2, <3>1
    <3>3. 1 .. L \subseteq 1 .. (L + z)
      BY <1>1, <1>4
    <3> QED
      BY <3>2, <3>3
  <2> QED
    BY <1>1, <2>1, <2>2
<1>23. K(1) = 1 /\ A(L + z) = n + 1 /\ K(L + z) = SizeIn(fs2, n + 1)
  <2>1. L + z \in (L + 1) .. (L + z)
    BY <1>1, <1>4
  <2>2. A(L + z) = n + 1 /\ K(L + z) = (L + z) - L
    BY <1>7, <2>1
  <2>3. K(1) = 1
    <3>1. CASE L > 0
      BY <1>9, <3>1
    <3>2. CASE L = 0
      <4>1. 1 \in (L + 1) .. (L + z)
        BY <1>1, <3>2
      <4> QED
        BY <1>7, <3>2, <4>1
    <3> QED
      BY <1>4, <3>1, <3>2
  <2> QED
    BY <1>1, <1>3, <1>4, <2>2, <2>3
<1>24. 1 \in 1 .. (L + z) /\ L + z \in 1 .. (L + z)
  BY <1>1, <1>4
<1>25. ASSUME NEW i \in 1 .. (L + z), i < L + z PROVE i + 1 \in 1 .. (L + z)
  BY <1>1, <1>4, <1>25
<1>26. Follows(t, fs2)
  BY <1>17, <1>19 DEF Follows
<1>27. NextBegins(t, fs2)
  BY <1>17, <1>20, <1>25 DEF NextBegins
<1>28. Rising(t)
  BY <1>17, <1>21 DEF Rising
<1>29. Complete(t, fs2)
  BY <1>3, <1>17, <1>22, <1>24 DEF Complete
<1>30. Streamed(t, fs2)
  BY <1>3, <1>5, <1>17, <1>18, <1>23, <1>24, <1>26, <1>27, <1>28, <1>29 DEF Streamed
<1>31. NextFrame(t, fs2) = NextFrame(s, fs)
  BY <1>11, <1>17, <1>24 DEF NextFrame
<1> QED
  BY <1>30, <1>31 DEF t, c, fs2, z, n

\* The first frame of the stream is there as a whole, and without it the
\* stream begins with the next one.
LEMMA StreamDrop ==
    ASSUME NEW s, NEW fs \in Seq(FrameKinds), Streamed(s, fs), s # <<>>,
           NEW z \in Nat, z = SizeIn(fs, s[1][1])
    PROVE  /\ z <= Len(s)
           /\ \A k \in 1 .. z : s[k][1] = s[1][1] /\ s[k][2] = k
           /\ Streamed(SubSeq(s, z + 1, Len(s)), fs)
           /\ NextFrame(SubSeq(s, z + 1, Len(s)), fs) = s[1][1] + 1
<1> DEFINE n == Len(fs)
<1> DEFINE L == Len(s)
<1> DEFINE f == s[1][1]
<1> DEFINE r == SubSeq(s, z + 1, L)
<1> DEFINE A(i) == s[i][1]
<1> DEFINE K(i) == s[i][2]
<1>1. s \in Seq(Nat \X Nat) /\ L \in Nat /\ L > 0 /\ n \in Nat
  <2>1. s \in Seq(Nat \X Nat)
    BY DEF Streamed
  <2> QED
    BY <2>1, EmptyIs
<1>2. /\ \A i \in 1 .. L : A(i) \in 0 .. n /\ K(i) \in 1 .. SizeIn(fs, A(i))
      /\ A(1) = f /\ K(1) = 1 /\ A(L) = n /\ K(L) = SizeIn(fs, n)
  BY DEF Streamed
<1>3. \A i, j \in 1 .. L :
        i < j /\ K(i) + (j - i) <= SizeIn(fs, A(i)) => A(j) = A(i) /\ K(j) = K(i) + (j - i)
  BY DEF Streamed, Follows
<1>4. \A i \in 1 .. L :
        i < L /\ K(i) = SizeIn(fs, A(i)) => A(i + 1) = A(i) + 1 /\ K(i + 1) = 1
  BY DEF Streamed, NextBegins
<1>5. \A i, j \in 1 .. L : i < j => A(i) <= A(j)
  BY DEF Streamed, Rising
<1>6. \A g \in 0 .. n : f <= g => \E i \in 1 .. L : A(i) = g
  BY DEF Streamed, Complete
<1>7. \A i \in 1 .. L : s[i][1] = A(i) /\ s[i][2] = K(i)
  OBVIOUS
<1>8. f = A(1) /\ z = SizeIn(fs, f)
  OBVIOUS
<1> HIDE DEF A, K, f
<1>9. f \in 0 .. n /\ z >= 1
  <2>1. 1 \in 1 .. L
    BY <1>1
  <2>2. K(1) \in 1 .. SizeIn(fs, A(1))
    BY <1>2, <2>1
  <2> QED
    BY <1>2, <1>8, <2>1, <2>2
<1>10. \A k \in 1 .. L : k <= z => A(k) = f /\ K(k) = k
  <2> SUFFICES ASSUME NEW k \in 1 .. L, k <= z PROVE A(k) = f /\ K(k) = k
    OBVIOUS
  <2>1. CASE k = 1
    BY <1>2, <2>1
  <2>2. CASE k > 1
    <3>1. 1 \in 1 .. L /\ 1 < k /\ K(1) + (k - 1) <= SizeIn(fs, A(1))
      BY <1>1, <1>2, <1>8, <2>2
    <3>2. A(k) = A(1) /\ K(k) = K(1) + (k - 1)
      BY <1>3, <3>1
    <3> QED
      BY <1>2, <3>2
  <2> QED
    BY <2>1, <2>2
<1>11. z <= L
  <2> SUFFICES ASSUME L < z PROVE FALSE
    BY <1>1
  <2>1. L \in 1 .. L
    BY <1>1
  <2>2. A(L) = f /\ K(L) = L
    BY <1>1, <1>10, <2>1
  <2> QED
    BY <1>1, <1>2, <1>8, <2>2
<1>12. A(z) = f /\ K(z) = z /\ z \in 1 .. L
  BY <1>1, <1>9, <1>10, <1>11
<1>13. /\ r \in Seq(Nat \X Nat) /\ Len(r) = L - z
       /\ \A i \in 1 .. (L - z) : r[i] = s[z + i]
  <2>1. z + 1 \in Nat \ {0} /\ z + 1 <= L + 1 /\ L - (z + 1) + 1 = L - z
    <3>1. L \in Nat /\ z <= L
      BY <1>1, <1>11
    <3> HIDE DEF L
    <3> QED
      BY <3>1
  <2>2. /\ r \in Seq(Nat \X Nat) /\ Len(r) = L - (z + 1) + 1
        /\ \A i \in 1 .. (L - (z + 1) + 1) : r[i] = s[(z + 1) + i - 1]
    <3>1. L <= Len(s)
      BY <1>1
    <3> DEFINE m == z + 1
    <3> HIDE DEF L, m
    <3>2. m \in Nat \ {0} /\ m <= L + 1
      BY <2>1 DEF m
    <3>3. /\ SubSeq(s, m, L) \in Seq(Nat \X Nat) /\ Len(SubSeq(s, m, L)) = L - m + 1
          /\ \A i \in 1 .. (L - m + 1) : SubSeq(s, m, L)[i] = s[m + i - 1]
      BY <1>1, <3>1, <3>2, SubSeqIs, SMTT(30)
    <3> QED
      BY <3>3 DEF m
  <2>3. \A i \in 1 .. (L - z) : (z + 1) + i - 1 = z + i
    BY <1>1
  <2> QED
    BY <2>1, <2>2, <2>3, SMTT(30)
<1>14. /\ \A i \in 1 .. (L - z) : z + i \in 1 .. L
       /\ \A i, j \in 1 .. (L - z) : i < j => z + i < z + j /\ (z + j) - (z + i) = j - i
       /\ \A i \in 1 .. (L - z) :
             i < L - z => i + 1 \in 1 .. (L - z) /\ z + i < L /\ z + (i + 1) = (z + i) + 1
  <2> HIDE DEF L
  <2>1. \A i \in 1 .. (L - z) : i \in Nat /\ z + i \in 1 .. L
    BY <1>1, <1>11
  <2>2. \A i, j \in Nat : i < j => z + i < z + j /\ (z + j) - (z + i) = j - i
    OBVIOUS
  <2>3. \A i \in Nat : z + (i + 1) = (z + i) + 1 /\ (i < L - z => z + i < L)
    BY <1>1
  <2>4. \A i \in 1 .. (L - z) : i < L - z => i + 1 \in 1 .. (L - z)
    BY <1>1
  <2> QED
    BY <2>1, <2>2, <2>3, <2>4
<1>15. \A i \in 1 .. (L - z) : r[i][1] = A(z + i) /\ r[i][2] = K(z + i)
  BY <1>7, <1>13, <1>14
<1>16. r = <<>> <=> L = z
  <2>1. r = <<>> <=> Len(r) = 0
    BY <1>13, EmptyIs
  <2> QED
    BY <1>1, <1>13, <2>1
<1> HIDE DEF r
<1>17. z < L => A(z + 1) = f + 1 /\ K(z + 1) = 1
  BY <1>4, <1>8, <1>12
<1>18. L = z => n = f
  BY <1>2, <1>12
<1>19. Follows(r, fs)
  <2> SUFFICES ASSUME NEW i \in 1 .. (L - z), NEW j \in 1 .. (L - z), i < j,
                      K(z + i) + (j - i) <= SizeIn(fs, A(z + i))
               PROVE  A(z + j) = A(z + i) /\ K(z + j) = K(z + i) + (j - i)
    BY <1>13, <1>15 DEF Follows
  <2>1. z + i \in 1 .. L /\ z + j \in 1 .. L
    BY <1>14
  <2>2. z + i < z + j /\ (z + j) - (z + i) = j - i
    BY <1>14
  <2> QED
    BY <1>3, <2>1, <2>2
<1>20. NextBegins(r, fs)
  <2> SUFFICES ASSUME NEW i \in 1 .. (L - z), i < L - z, r[i][2] = SizeIn(fs, r[i][1])
               PROVE  r[i + 1][1] = r[i][1] + 1 /\ r[i + 1][2] = 1
    <3>1. Len(r) = L - z
      BY <1>13
    <3> HIDE DEF L
    <3> QED
      BY <3>1 DEF NextBegins
  <2>0. r[i][1] = A(z + i) /\ r[i][2] = K(z + i)
    BY <1>15
  <2>1. z + i \in 1 .. L
    BY <1>14
  <2>2. i + 1 \in 1 .. (L - z) /\ z + i < L /\ z + (i + 1) = (z + i) + 1
    BY <1>14
  <2>3. A((z + i) + 1) = A(z + i) + 1 /\ K((z + i) + 1) = 1
    BY <1>4, <2>0, <2>1, <2>2
  <2> QED
    BY <1>15, <2>0, <2>2, <2>3
<1>21. Rising(r)
  <2> SUFFICES ASSUME NEW i \in 1 .. (L - z), NEW j \in 1 .. (L - z), i < j
               PROVE  A(z + i) <= A(z + j)
    <3>1. Len(r) = L - z /\ \A k \in 1 .. (L - z) : r[k][1] = A(z + k)
      BY <1>13, <1>15
    <3> HIDE DEF L
    <3> QED
      BY <3>1 DEF Rising
  <2>1. z + i \in 1 .. L /\ z + j \in 1 .. L /\ z + i < z + j
    BY <1>1, <1>14
  <2> QED
    BY <1>5, <2>1
<1>22. z < L => r[1][1] = f + 1 /\ r[1][2] = 1
  <2> SUFFICES ASSUME z < L PROVE r[1][1] = f + 1 /\ r[1][2] = 1
    OBVIOUS
  <2>1. 1 \in 1 .. (L - z)
    BY <1>1
  <2> QED
    BY <1>15, <1>17, <2>1
<1>23. Complete(r, fs)
  <2> SUFFICES ASSUME NEW g \in 0 .. n, r # <<>>, r[1][1] <= g
               PROVE  \E i \in 1 .. (L - z) : r[i][1] = g
    BY <1>13 DEF Complete
  <2>1. f + 1 <= g
    BY <1>1, <1>11, <1>16, <1>22
  <2>2. PICK i \in 1 .. L : A(i) = g
    BY <1>6, <1>9, <2>1
  <2>3. z < i
    <3> SUFFICES ASSUME i <= z PROVE FALSE
      BY <1>1
    <3>1. A(i) = f
      BY <1>10
    <3> QED
      BY <1>9, <2>1, <2>2, <3>1
  <2>4. i - z \in 1 .. (L - z) /\ z + (i - z) = i
    BY <1>1, <2>3
  <2>5. r[i - z][1] = g
    BY <1>15, <2>2, <2>4
  <2> QED
    BY <2>4, <2>5
<1>24. r # <<>> => r[1][2] = 1 /\ r[Len(r)][1] = n /\ r[Len(r)][2] = SizeIn(fs, n)
  <2> SUFFICES ASSUME r # <<>>
               PROVE  r[1][2] = 1 /\ r[Len(r)][1] = n /\ r[Len(r)][2] = SizeIn(fs, n)
    OBVIOUS
  <2>1. z < L
    BY <1>1, <1>11, <1>16
  <2>2. L - z \in 1 .. (L - z) /\ z + (L - z) = L
    BY <1>1, <2>1
  <2>3. r[L - z][1] = A(L) /\ r[L - z][2] = K(L)
    BY <1>15, <2>2
  <2> QED
    BY <1>2, <1>13, <1>22, <2>1, <2>3
<1>25. \A i \in 1 .. (L - z) : r[i][1] \in 0 .. n /\ r[i][2] \in 1 .. SizeIn(fs, r[i][1])
  BY <1>2, <1>14, <1>15
<1>26. Streamed(r, fs)
  BY <1>13, <1>19, <1>20, <1>21, <1>23, <1>24, <1>25 DEF Streamed
<1>27. NextFrame(r, fs) = f + 1
  BY <1>1, <1>11, <1>16, <1>18, <1>22 DEF NextFrame
<1>28. \A k \in 1 .. z : s[k][1] = f /\ s[k][2] = k
  <2> TAKE k \in 1 .. z
  <2>1. k \in 1 .. L /\ k <= z
    BY <1>1, <1>11
  <2> QED
    BY <1>7, <1>10, <2>1
<1> QED
  BY <1>11, <1>26, <1>27, <1>28 DEF r, f

-----------------------------------------------------------------------------
LEMMA CopyOutIs ==
    ASSUME NEW S, NEW bytes \in Seq(S), NEW old \in Seq(S), Len(old) = BufSize,
           Len(bytes) <= BufSize
    PROVE  /\ CopyOut(bytes, old) \in Seq(S) /\ Len(CopyOut(bytes, old)) = BufSize
           /\ \A i \in 1 .. Len(bytes) : CopyOut(bytes, old)[i] = bytes[i]
<1> DEFINE n == Len(bytes)
<1> DEFINE rest == SubSeq(old, n + 1, BufSize)
<1>1. n \in Nat /\ BufSize \in Nat /\ n + 1 \in Nat \ {0} /\ n + 1 <= BufSize + 1
  BY WsAssumption, EmptyIs
<1>2. rest \in Seq(S) /\ Len(rest) = BufSize - (n + 1) + 1
  <2> HIDE DEF n
  <2> DEFINE m == n + 1
  <2>1. m \in Nat \ {0} /\ m <= BufSize + 1 /\ BufSize <= Len(old)
    BY <1>1
  <2> HIDE DEF m
  <2>2. SubSeq(old, m, BufSize) \in Seq(S) /\ Len(SubSeq(old, m, BufSize)) = BufSize - m + 1
    BY <1>1, <2>1, SubSeqIs
  <2> QED
    BY <2>2 DEF m
<1>3. Len(rest) = BufSize - n
  BY <1>1, <1>2
<1> HIDE DEF rest
<1>4. /\ bytes \o rest \in Seq(S) /\ Len(bytes \o rest) = n + Len(rest)
      /\ \A i \in 1 .. n : (bytes \o rest)[i] = bytes[i]
  BY <1>2, ConcatIs
<1>5. n + (BufSize - n) = BufSize
  BY <1>1
<1> QED
  BY <1>3, <1>4, <1>5 DEF CopyOut, rest

\* A sequence cut in two.
LEMMA Cut ==
    ASSUME NEW S, NEW s \in Seq(S), NEW n \in Nat, n <= Len(s)
    PROVE  /\ SubSeq(s, 1, n) \in Seq(S) /\ SubSeq(s, n + 1, Len(s)) \in Seq(S)
           /\ Len(SubSeq(s, 1, n)) = n /\ Len(SubSeq(s, n + 1, Len(s))) = Len(s) - n
           /\ \A i \in 1 .. n : SubSeq(s, 1, n)[i] = s[i]
           /\ \A i \in 1 .. (Len(s) - n) : SubSeq(s, n + 1, Len(s))[i] = s[n + i]
           /\ SubSeq(s, 1, n) \o SubSeq(s, n + 1, Len(s)) = s
<1> DEFINE L == Len(s)
<1> DEFINE m == n + 1
<1> DEFINE one == SubSeq(s, 1, n)
<1> DEFINE two == SubSeq(s, m, L)
<1>1. L \in Nat /\ L <= Len(s) /\ n <= L /\ m \in Nat \ {0} /\ m <= L + 1 /\ L - m + 1 = L - n
  BY EmptyIs
<1>2. one \in Seq(S) /\ Len(one) = n - 1 + 1 /\ \A i \in 1 .. (n - 1 + 1) : one[i] = s[1 + i - 1]
  BY <1>1, SubSeqIs
<1>3. /\ two \in Seq(S) /\ Len(two) = L - m + 1
      /\ \A i \in 1 .. (L - m + 1) : two[i] = s[m + i - 1]
  <2> HIDE DEF m, L
  <2> QED
    BY <1>1, SubSeqIs
<1> HIDE DEF L, one, two
<1>4. n - 1 + 1 = n /\ (\A i \in Nat : 1 + i - 1 = i) /\ (\A i \in Nat : m + i - 1 = n + i)
  OBVIOUS
<1>5. Len(one) = n /\ \A i \in 1 .. n : one[i] = s[i]
  BY <1>2, <1>4
<1>6. Len(two) = L - n /\ \A i \in 1 .. (L - n) : two[i] = s[n + i]
  <2> HIDE DEF m
  <2>1. \A i \in 1 .. (L - n) : i \in Nat
    BY <1>1
  <2>2. /\ Len(two) = L - n
        /\ \A i \in 1 .. (L - n) : two[i] = s[m + i - 1]
    BY <1>1, <1>3
  <2> QED
    BY <1>4, <2>1, <2>2
<1>7. /\ one \o two \in Seq(S) /\ Len(one \o two) = n + (L - n)
      /\ \A i \in 1 .. n : (one \o two)[i] = one[i]
      /\ \A i \in 1 .. (L - n) : (one \o two)[n + i] = two[i]
  <2>1. /\ one \o two \in Seq(S) /\ Len(one \o two) = Len(one) + Len(two)
        /\ \A i \in 1 .. Len(one) : (one \o two)[i] = one[i]
        /\ \A i \in 1 .. Len(two) : (one \o two)[Len(one) + i] = two[i]
    <3>1. one \in Seq(S) /\ two \in Seq(S)
      BY <1>2, <1>3
    <3> QED
      BY <3>1, ConcatIs
  <2> QED
    BY <1>5, <1>6, <2>1
<1> DEFINE all == one \o two
<1> HIDE DEF all
<1>8. Len(all) = L
  BY <1>1, <1>7 DEF all
<1>9. ASSUME NEW i \in 1 .. L PROVE all[i] = s[i]
  <2>1. CASE i <= n
    BY <1>5, <1>7, <2>1 DEF all
  <2>2. CASE i > n
    <3>1. i - n \in 1 .. (L - n) /\ n + (i - n) = i
      BY <1>1, <2>2
    <3>2. all[n + (i - n)] = two[i - n] /\ two[i - n] = s[n + (i - n)]
      BY <1>6, <1>7, <3>1 DEF all
    <3> QED
      BY <3>1, <3>2
  <2> QED
    BY <2>1, <2>2
<1>10. all = s
  <2>1. all \in Seq(S) /\ Len(all) = Len(s)
    BY <1>7, <1>8 DEF all, L
  <2>2. \A i \in 1 .. Len(all) : all[i] = s[i]
    BY <1>8, <1>9
  <2> QED
    BY <2>1, <2>2, SeqEqual
<1> QED
  BY <1>2, <1>3, <1>5, <1>6, <1>10 DEF all, one, two, L

\* What is taken from the first of two sequences is taken from both.
LEMMA DropFirst ==
    ASSUME NEW S, NEW s \in Seq(S), NEW t \in Seq(S), NEW n \in Nat, n <= Len(s)
    PROVE  SubSeq(s, n + 1, Len(s)) \o t = SubSeq(s \o t, n + 1, Len(s \o t))
<1> DEFINE a == SubSeq(s, n + 1, Len(s))
<1> DEFINE all == s \o t
<1> DEFINE b == SubSeq(all, n + 1, Len(all))
<1> DEFINE c == a \o t
<1>1. /\ a \in Seq(S) /\ Len(a) = Len(s) - n
      /\ \A i \in 1 .. (Len(s) - n) : a[i] = s[n + i]
  BY Cut
<1>2. /\ all \in Seq(S) /\ Len(all) = Len(s) + Len(t) /\ Len(s) \in Nat /\ Len(t) \in Nat
      /\ \A i \in 1 .. Len(s) : all[i] = s[i]
      /\ \A i \in 1 .. Len(t) : all[Len(s) + i] = t[i]
  BY ConcatIs
<1> HIDE DEF all
<1>3. n <= Len(all)
  BY <1>2
<1>4. /\ b \in Seq(S) /\ Len(b) = Len(all) - n
      /\ \A i \in 1 .. (Len(all) - n) : b[i] = all[n + i]
  BY <1>2, <1>3, Cut
<1> HIDE DEF a, b
<1>5. /\ c \in Seq(S) /\ Len(c) = (Len(s) - n) + Len(t)
      /\ \A i \in 1 .. (Len(s) - n) : c[i] = a[i]
      /\ \A i \in 1 .. Len(t) : c[(Len(s) - n) + i] = t[i]
  <2>1. /\ c \in Seq(S) /\ Len(c) = Len(a) + Len(t)
        /\ \A i \in 1 .. Len(a) : c[i] = a[i]
        /\ \A i \in 1 .. Len(t) : c[Len(a) + i] = t[i]
    <3>1. a \in Seq(S)
      BY <1>1
    <3> QED
      BY <3>1, ConcatIs
  <2> HIDE DEF c
  <2> QED
    BY <1>1, <2>1
<1> HIDE DEF c
<1>6. Len(c) = Len(b)
  BY <1>2, <1>4, <1>5
<1>7. ASSUME NEW i \in 1 .. Len(c) PROVE c[i] = b[i]
  <2>0. i \in 1 .. (Len(all) - n) /\ b[i] = all[n + i]
    BY <1>4, <1>6
  <2>1. CASE i <= Len(s) - n
    <3>1. i \in 1 .. (Len(s) - n) /\ n + i \in 1 .. Len(s)
      BY <1>2, <1>5, <2>1
    <3> QED
      BY <1>1, <1>2, <1>5, <2>0, <3>1
  <2>2. CASE i > Len(s) - n
    <3> DEFINE j == i - (Len(s) - n)
    <3>1. j \in 1 .. Len(t) /\ (Len(s) - n) + j = i /\ Len(s) + j = n + i
      BY <1>2, <1>5, <2>2
    <3> HIDE DEF j
    <3>2. c[(Len(s) - n) + j] = t[j] /\ all[Len(s) + j] = t[j]
      BY <1>2, <1>5, <3>1
    <3> QED
      BY <2>0, <3>1, <3>2
  <2> QED
    BY <1>2, <1>5, <2>1, <2>2
<1>8. c = b
  BY <1>4, <1>5, <1>6, <1>7, SeqEqual
<1> QED
  BY <1>8 DEF c, b, a, all

-----------------------------------------------------------------------------
LEMMA InitStream == WsInit => WsInv
<1> SUFFICES ASSUME WsInit PROVE WsInv
  OBVIOUS
<1>1. ReqLen \in Nat /\ ReqLen >= 1 /\ BufSize \in Nat
  BY WsAssumption
<1> DEFINE c == Cells(0, ReqLen)
<1>2. /\ c \in Seq(Nat \X Nat) /\ Len(c) = ReqLen
      /\ \A k \in 1 .. ReqLen : c[k][1] = 0 /\ c[k][2] = k
  BY <1>1, CellsAre
<1>3. c # <<>>
  BY <1>1, <1>2, EmptyIs
<1> HIDE DEF c
<1>4. wire = c /\ in = <<>> /\ frames = <<>> /\ got = <<>> /\ ~up /\ open /\ ~reading /\ ~early
  BY DEF WsInit, c
<1>5. Bytes = c
  BY <1>2, <1>4 DEF Bytes
<1>6. SizeIn(<<>>, 0) = ReqLen /\ Len(<<>>) = 0
  BY DEF SizeIn
<1>7. Streamed(c, <<>>)
  <2>1. Follows(c, <<>>)
    <3> SUFFICES ASSUME NEW i \in 1 .. ReqLen, NEW j \in 1 .. ReqLen
                 PROVE  c[j][1] = c[i][1] /\ c[j][2] = c[i][2] + (j - i)
      BY <1>2 DEF Follows
    <3> QED
      BY <1>2
  <2>2. NextBegins(c, <<>>)
    <3> SUFFICES ASSUME NEW i \in 1 .. ReqLen, i < ReqLen, c[i][2] = SizeIn(<<>>, c[i][1])
                 PROVE  FALSE
      BY <1>2 DEF NextBegins
    <3> QED
      BY <1>1, <1>2, <1>6
  <2>3. Rising(c)
    <3>1. \A i, j \in 1 .. ReqLen : c[i][1] = 0 /\ c[j][1] = 0
      BY <1>2
    <3> QED
      BY <1>2, <3>1 DEF Rising
  <2>4. Complete(c, <<>>)
    <3>1. 1 \in 1 .. ReqLen /\ 0 .. 0 = {0}
      BY <1>1
    <3> QED
      BY <1>2, <1>6, <3>1 DEF Complete
  <2>5. 1 \in 1 .. ReqLen /\ ReqLen \in 1 .. ReqLen
    BY <1>1
  <2>6. \A i \in 1 .. Len(c) : c[i][1] \in 0 .. Len(<<>>) /\ c[i][2] \in 1 .. SizeIn(<<>>, c[i][1])
    BY <1>2, <1>6
  <2> QED
    BY <1>2, <1>6, <2>1, <2>2, <2>3, <2>4, <2>5, <2>6 DEF Streamed
<1>8. WsTypes
  <2>1. buf \in Seq((Nat \X Nat) \union {Stale}) /\ Len(buf) = BufSize
    BY <1>1 DEF WsInit
  <2>2. <<>> \in Seq(Nat \X Nat) /\ <<>> \in Seq(FrameKinds) /\ <<>> \in Seq(Seq(Nat \X Nat))
    OBVIOUS
  <2>3. up \in BOOLEAN /\ open \in BOOLEAN /\ reading \in BOOLEAN /\ early \in BOOLEAN
    BY DEF WsInit
  <2> QED
    BY <1>2, <1>4, <2>1, <2>2, <2>3 DEF WsTypes
<1> QED
  BY <1>4, <1>5, <1>7, <1>8 DEF WsInv, Asking, TooLittle, c

\* What the messages are of does not change with what is sent later.
LEMMA SoundGrows ==
    ASSUME NEW g, NEW fs \in Seq(FrameKinds), NEW fr \in FrameKinds,
           NEW n \in Nat, n - 1 <= Len(fs), NEW o, Sound(g, fs, n, o)
    PROVE  Sound(g, Append(fs, fr), n, o)
<1>1. \A f \in 1 .. (n - 1) : Append(fs, fr)[f] = fs[f]
  <2>1. \A f \in 1 .. (n - 1) : f \in 1 .. Len(fs)
    BY EmptyIs
  <2> QED
    BY <2>1
<1> DEFINE fs2 == Append(fs, fr)
<1> HIDE DEF fs2
<1>2. \A f \in 1 .. (n - 1) : fs2[f] = fs[f]
  BY <1>1 DEF fs2
<1>3. Harmless(fs2, n) <=> Harmless(fs, n)
  BY <1>2 DEF Harmless
<1>4. GotSound(g, fs2, n)
  BY <1>2 DEF Sound, GotSound, Wanted
<1> QED
  BY <1>3, <1>4 DEF Sound, fs2

\* The first byte of the stream and the one that is read first.
LEMMA Begins ==
    ASSUME WsTypes, Streamed(Bytes, frames)
    PROVE  /\ Bytes \in Seq(Nat \X Nat) /\ Len(Bytes) = Len(in) + Len(wire)
           /\ Len(in) \in Nat /\ Len(wire) \in Nat /\ Len(frames) \in Nat
           /\ \A i \in 1 .. Len(in) : Bytes[i] = in[i]
           /\ \A i \in 1 .. Len(wire) : Bytes[Len(in) + i] = wire[i]
           /\ in # <<>> => Bytes # <<>> /\ Bytes[1] = in[1] /\ Len(in) >= 1
           /\ NextFrame(Bytes, frames) \in 0 .. (Len(frames) + 1)
           /\ Bytes # <<>> => NextFrame(Bytes, frames) = Bytes[1][1]
                              /\ Bytes[1][1] \in 0 .. Len(frames) /\ Len(Bytes) >= 1
<1>1. in \in Seq(Nat \X Nat) /\ wire \in Seq(Nat \X Nat) /\ frames \in Seq(FrameKinds)
  BY DEF WsTypes
<1>2. /\ Bytes \in Seq(Nat \X Nat) /\ Len(Bytes) = Len(in) + Len(wire)
      /\ Len(in) \in Nat /\ Len(wire) \in Nat
      /\ \A i \in 1 .. Len(in) : Bytes[i] = in[i]
      /\ \A i \in 1 .. Len(wire) : Bytes[Len(in) + i] = wire[i]
  <2> DEFINE S == Nat \X Nat
  <2>1. in \in Seq(S) /\ wire \in Seq(S)
    BY <1>1
  <2> HIDE DEF S
  <2>2. /\ in \o wire \in Seq(S) /\ Len(in \o wire) = Len(in) + Len(wire)
        /\ Len(in) \in Nat /\ Len(wire) \in Nat
        /\ \A i \in 1 .. Len(in) : (in \o wire)[i] = in[i]
        /\ \A i \in 1 .. Len(wire) : (in \o wire)[Len(in) + i] = wire[i]
    BY <2>1, ConcatIs
  <2> QED
    BY <2>2 DEF Bytes, S
<1>3. Len(frames) \in Nat
  BY <1>1, EmptyIs
<1>4. in # <<>> => Len(in) >= 1
  BY <1>1, <1>2, EmptyIs
<1>5. (Bytes # <<>> => Len(Bytes) >= 1) /\ (Len(Bytes) >= 1 => Bytes # <<>>)
  BY <1>2, EmptyIs
<1>6. in # <<>> => Len(Bytes) >= 1 /\ Bytes[1] = in[1]
  BY <1>2, <1>4
<1>7. Bytes # <<>> => Bytes[1][1] \in 0 .. Len(frames)
  <2>1. Bytes # <<>> => 1 \in 1 .. Len(Bytes)
    BY <1>2, <1>5
  <2> QED
    BY <2>1 DEF Streamed
<1>8. /\ Bytes # <<>> => NextFrame(Bytes, frames) = Bytes[1][1]
      /\ Bytes = <<>> => NextFrame(Bytes, frames) = Len(frames) + 1
  BY DEF NextFrame
<1>9. NextFrame(Bytes, frames) \in 0 .. (Len(frames) + 1)
  BY <1>3, <1>7, <1>8
<1> QED
  BY <1>2, <1>3, <1>4, <1>5, <1>6, <1>7, <1>8, <1>9

LEMMA SendStep ==
    ASSUME WsInv, NEW fr \in FrameKinds, Send(fr)
    PROVE  WsInv'
<1> DEFINE n == Len(frames)
<1> DEFINE c == Cells(n + 1, Size(fr))
<1> DEFINE f == NextFrame(Bytes, frames)
<1>1. /\ up /\ open /\ up' = up /\ open' = open /\ in' = in /\ buf' = buf /\ got' = got
      /\ reading' = reading /\ early' = early
      /\ frames' = Append(frames, fr) /\ wire' = wire \o c
  BY DEF Send
<1>2. /\ in \in Seq(Nat \X Nat) /\ wire \in Seq(Nat \X Nat) /\ frames \in Seq(FrameKinds)
      /\ WsTypes /\ Streamed(Bytes, frames) /\ TooLittle /\ Sound(got, frames, f, open)
  BY <1>1 DEF WsInv, WsTypes
<1>3. c \in Seq(Nat \X Nat)
  <2>1. n + 1 \in Nat /\ Size(fr) \in Nat
    BY <1>2, SizeIs, EmptyIs
  <2> HIDE DEF n
  <2> QED
    BY <2>1, CellsAre
<1>4. Bytes' = Bytes \o c
  <2>1. (in \o wire) \o c = in \o (wire \o c)
    <3> HIDE DEF c
    <3>1. in \in Seq(Nat \X Nat) /\ wire \in Seq(Nat \X Nat) /\ c \in Seq(Nat \X Nat)
      BY <1>2, <1>3
    <3> DEFINE S == Nat \X Nat
    <3> HIDE DEF S
    <3>2. in \in Seq(S) /\ wire \in Seq(S) /\ c \in Seq(S)
      BY <3>1 DEF S
    <3> QED
      BY <3>2, ConcatAssociative, SMTT(20)
  <2> QED
    BY <1>1, <2>1 DEF Bytes
<1>5. Streamed(Bytes', frames') /\ NextFrame(Bytes', frames') = f
  BY <1>1, <1>2, <1>4, StreamAppend
<1>6. /\ n \in Nat /\ f \in 0 .. (n + 1)
      /\ in # <<>> => in[1][1] = f /\ f \in 0 .. n
  BY <1>2, Begins
<1>7. f >= 1
  BY <1>2 DEF Sound
<1> HIDE DEF f, n
<1>8. Sound(got', frames', f, open')
  <2>1. f \in Nat /\ f - 1 <= Len(frames)
    BY <1>6 DEF n
  <2> QED
    BY <1>1, <1>2, <2>1, SoundGrows
<1>9. WsTypes'
  <2>1. wire \o c \in Seq(Nat \X Nat) /\ Append(frames, fr) \in Seq(FrameKinds)
    <3> HIDE DEF c
    <3>1. wire \o c \in Seq(Nat \X Nat)
      BY <1>2, <1>3, ConcatIs
    <3> QED
      BY <1>2, <3>1
  <2> HIDE DEF c
  <2> QED
    BY <1>1, <1>2, <2>1 DEF WsTypes
<1>10. TooLittle'
  <2> SUFFICES ASSUME ~reading, ~early, in # <<>>
               PROVE  (~Enough \/ Looked < Size(frames[in[1][1]]))'
    BY <1>1 DEF TooLittle
  <2>1. in[1][1] \in 1 .. n
    BY <1>6, <1>7
  <2>2. frames'[in[1][1]] = frames[in[1][1]]
    BY <1>1, <1>2, <2>1 DEF n
  <2>3. ~Enough \/ Looked < Size(frames[in[1][1]])
    BY <1>1, <1>2 DEF TooLittle
  <2>4. Enough' = Enough /\ Looked' = Looked
    BY <1>1 DEF Enough, Looked
  <2> QED
    BY <1>1, <2>2, <2>3, <2>4
<1>11. Asking'
  BY <1>1 DEF Asking
<1> QED
  BY <1>5, <1>8, <1>9, <1>10, <1>11 DEF WsInv

LEMMA ReceiveStep ==
    ASSUME WsInv, NEW n \in 1 .. Len(wire), Receive(n)
    PROVE  WsInv'
<1> DEFINE a == SubSeq(wire, 1, n)
<1> DEFINE b == SubSeq(wire, n + 1, Len(wire))
<1>1. /\ open /\ up' = up /\ open' = open /\ in' = in \o a /\ buf' = buf /\ got' = got
      /\ reading' = TRUE /\ early' = FALSE
      /\ frames' = frames /\ wire' = b
  BY DEF Receive
<1>2. in \in Seq(Nat \X Nat) /\ wire \in Seq(Nat \X Nat) /\ WsTypes
  BY DEF WsInv, WsTypes
<1>3. /\ a \in Seq(Nat \X Nat) /\ b \in Seq(Nat \X Nat) /\ Len(a) = n
      /\ a \o b = wire /\ n \in Nat /\ n >= 1
  <2>1. n \in Nat /\ n <= Len(wire) /\ n >= 1
    BY <1>2, EmptyIs
  <2>2. /\ a \in Seq(Nat \X Nat) /\ b \in Seq(Nat \X Nat) /\ Len(a) = n /\ a \o b = wire
    BY <1>2, <2>1, Cut
  <2> QED
    BY <2>1, <2>2
<1> HIDE DEF a, b
<1>4. Bytes' = Bytes
  <2> DEFINE S == Nat \X Nat
  <2>1. in \in Seq(S) /\ a \in Seq(S) /\ b \in Seq(S)
    BY <1>2, <1>3
  <2> HIDE DEF S
  <2>2. (in \o a) \o b = in \o (a \o b)
    BY <2>1, ConcatAssociative, SMTT(60)
  <2> QED
    BY <1>1, <1>3, <2>2 DEF Bytes
<1>5. in \o a \in Seq(Nat \X Nat) /\ in \o a # <<>>
  <2>1. /\ in \o a \in Seq(Nat \X Nat) /\ Len(in \o a) = Len(in) + Len(a)
        /\ Len(in) \in Nat
    BY <1>2, <1>3, ConcatIs
  <2>2. Len(in \o a) # 0
    BY <1>3, <2>1
  <2> QED
    BY <2>1, <2>2, EmptyIs
<1>6. WsTypes'
  BY <1>1, <1>2, <1>3, <1>5 DEF WsTypes
<1>7. Asking' /\ TooLittle'
  BY <1>1, <1>4, <1>5 DEF WsInv, Asking, TooLittle
<1> QED
  BY <1>1, <1>4, <1>6, <1>7 DEF WsInv

LEMMA HandShakeStep ==
    ASSUME WsInv, HandShake
    PROVE  WsInv'
<1>1. /\ reading /\ ~up /\ reading' = FALSE
      /\ open' = open /\ frames' = frames /\ wire' = wire /\ got' = got /\ early' = early
  BY DEF HandShake
<1>2. /\ frames = <<>> /\ got = <<>> /\ open /\ in # <<>> /\ Bytes = Cells(0, ReqLen)
  BY <1>1 DEF WsInv, Asking
<1>3. /\ in \in Seq(Nat \X Nat) /\ wire \in Seq(Nat \X Nat)
      /\ WsTypes /\ Streamed(Bytes, frames)
  BY DEF WsInv, WsTypes
<1>4. ReqLen \in Nat /\ ReqLen <= BufSize /\ BufSize \in Nat
  BY WsAssumption
<1>5. /\ Len(Bytes) = ReqLen
      /\ \A k \in 1 .. ReqLen : Bytes[k][1] = 0 /\ Bytes[k][2] = k
  BY <1>2, <1>4, CellsAre
<1>6. /\ Len(Bytes) = Len(in) + Len(wire) /\ Len(in) \in Nat /\ Len(wire) \in Nat
      /\ \A i \in 1 .. Len(in) : Bytes[i] = in[i]
      /\ Len(in) >= 1
  BY <1>2, <1>3, Begins
<1>7. Len(in) <= ReqLen /\ ~(BufSize < Len(in))
  BY <1>4, <1>5, <1>6
<1>8. /\ buf' = CopyOut(in, buf)
      /\ up' = (in[Len(in)] = <<0, ReqLen>>)
      /\ in' = IF up' THEN <<>> ELSE in
  BY <1>7 DEF HandShake
<1>9. buf' \in Seq((Nat \X Nat) \union {Stale}) /\ Len(buf') = BufSize
  <2> DEFINE S == (Nat \X Nat) \union {Stale}
  <2>1. in \in Seq(S) /\ buf \in Seq(S) /\ Len(buf) = BufSize
    BY <1>3 DEF WsTypes
  <2>2. Len(in) <= BufSize
    BY <1>4, <1>6, <1>7
  <2> HIDE DEF S
  <2>3. CopyOut(in, buf) \in Seq(S) /\ Len(CopyOut(in, buf)) = BufSize
    BY <2>1, <2>2, CopyOutIs
  <2> QED
    BY <1>8, <2>3 DEF S
<1>10. WsTypes'
  <2>1. in' \in Seq(Nat \X Nat)
    BY <1>3, <1>8
  <2>2. up' \in BOOLEAN
    BY <1>8
  <2> QED
    BY <1>1, <1>3, <1>9, <2>1, <2>2 DEF WsTypes
<1>11. CASE up'
  <2>1. in' = <<>>
    BY <1>8, <1>11
  <2>2. in[Len(in)][2] = ReqLen
    <3>1. in[Len(in)] = <<0, ReqLen>>
      BY <1>8, <1>11
    <3> QED
      BY <3>1
  <2>3. Len(in) \in 1 .. ReqLen /\ Len(in) \in 1 .. Len(in)
    BY <1>4, <1>6, <1>7
  <2>4. in[Len(in)][2] = Len(in)
    BY <1>5, <1>6, <2>3
  <2>5. Len(wire) = 0
    BY <1>4, <1>5, <1>6, <2>2, <2>4
  <2>6. wire = <<>>
    BY <1>3, <2>5, EmptyIs
  <2>7. Bytes' = <<>>
    BY <1>1, <2>1, <2>6 DEF Bytes
  <2>8. Streamed(<<>>, <<>>)
    <3>1. Follows(<<>>, <<>>) /\ NextBegins(<<>>, <<>>) /\ Rising(<<>>) /\ Complete(<<>>, <<>>)
      BY DEF Follows, NextBegins, Rising, Complete
    <3> QED
      BY <3>1 DEF Streamed
  <2>9. NextFrame(<<>>, <<>>) = 1
    BY DEF NextFrame
  <2>10. Sound(<<>>, <<>>, 1, open)
    <3>1. 1 .. (1 - 1) = {} /\ 1 .. Len(<<>>) = {}
      OBVIOUS
    <3>2. GotSound(<<>>, <<>>, 1) /\ Harmless(<<>>, 1)
      BY <3>1 DEF GotSound, Harmless
    <3> QED
      BY <1>2, <3>2 DEF Sound
  <2> QED
    BY <1>1, <1>2, <1>10, <1>11, <2>1, <2>7, <2>8, <2>9, <2>10
       DEF WsInv, Asking, TooLittle
<1>12. CASE ~up'
  <2>1. in' = in
    BY <1>8, <1>12
  <2>2. Bytes' = Bytes
    BY <1>1, <2>1 DEF Bytes
  <2> QED
    BY <1>1, <1>2, <1>3, <1>10, <1>12, <2>2 DEF WsInv, Asking, TooLittle
<1> QED
  BY <1>11, <1>12

LEMMA NothingMoreStep ==
    ASSUME WsInv, NothingMore
    PROVE  WsInv'
<1>1. /\ up /\ ~Enough /\ reading' = FALSE
      /\ UNCHANGED <<up, open, in, buf, frames, wire, got, early>>
  BY DEF NothingMore
<1>2. Bytes' = Bytes /\ Enough' = Enough
  BY <1>1 DEF Bytes, Enough
<1>3. WsTypes'
  BY <1>1 DEF WsInv, WsTypes
<1> QED
  BY <1>1, <1>2, <1>3 DEF WsInv, Asking, TooLittle

\* What handle_packet looks at begins with the input, and so with the frame
\* that is taken next.
LEMMA SeenIs ==
    ASSUME WsInv, up, Enough
    PROVE  /\ in # <<>> /\ Looked \in Nat /\ Looked >= 1 /\ Looked <= Len(in) /\ Looked <= BufSize
           /\ Seen \in Seq((Nat \X Nat) \union {Stale}) /\ Len(Seen) = BufSize
           /\ \A i \in 1 .. Looked : Seen[i] = in[i]
           /\ in[1][1] = NextFrame(Bytes, frames) /\ in[1][1] \in 1 .. Len(frames)
           /\ Fetched = frames[in[1][1]] /\ Fetched \in FrameKinds
<1>1. /\ WsTypes /\ Streamed(Bytes, frames)
      /\ in \in Seq(Nat \X Nat) /\ frames \in Seq(FrameKinds) /\ BufSize \in Nat /\ BufSize >= 1
      /\ buf \in Seq((Nat \X Nat) \union {Stale}) /\ Len(buf) = BufSize
      /\ MinPacket >= 1 /\ MinPacket \in Nat
  BY WsAssumption DEF WsInv, WsTypes
<1>2. Len(in) \in Nat /\ Len(in) >= 1 /\ in # <<>>
  <2>1. Len(in) \in Nat /\ (in = <<>> <=> Len(in) = 0)
    BY <1>1, EmptyIs
  <2>2. Len(in) >= 1
    BY <1>1, <2>1 DEF Enough
  <2> QED
    BY <2>1, <2>2
<1>3. Looked \in Nat /\ Looked >= 1 /\ Looked <= Len(in) /\ Looked <= BufSize
  BY <1>1, <1>2 DEF Looked
<1> DEFINE S == (Nat \X Nat) \union {Stale}
<1> DEFINE a == SubSeq(in, 1, Looked)
<1>4. a \in Seq(Nat \X Nat) /\ Len(a) = Looked /\ \A i \in 1 .. Looked : a[i] = in[i]
  <2> DEFINE n == Looked
  <2>1. n \in Nat /\ n <= Len(in)
    BY <1>3
  <2> HIDE DEF n
  <2>2. /\ SubSeq(in, 1, n) \in Seq(Nat \X Nat) /\ Len(SubSeq(in, 1, n)) = n
        /\ \A i \in 1 .. n : SubSeq(in, 1, n)[i] = in[i]
    BY <1>1, <2>1, Cut
  <2> QED
    BY <2>2 DEF n
<1>5. a \in Seq(S)
  BY <1>4
<1> HIDE DEF a
<1>6. Seen \in Seq(S) /\ Len(Seen) = BufSize /\ \A i \in 1 .. Looked : Seen[i] = a[i]
  <2>1. buf \in Seq(S) /\ Len(a) <= BufSize
    BY <1>1, <1>3, <1>4
  <2> HIDE DEF S
  <2>2. /\ CopyOut(a, buf) \in Seq(S) /\ Len(CopyOut(a, buf)) = BufSize
        /\ \A i \in 1 .. Len(a) : CopyOut(a, buf)[i] = a[i]
    BY <1>1, <1>5, <2>1, CopyOutIs
  <2> QED
    BY <1>4, <2>2 DEF Seen, a
<1>7. in[1][1] = NextFrame(Bytes, frames) /\ in[1][1] \in 0 .. Len(frames)
  BY <1>1, <1>2, Begins
<1>8. in[1][1] \in 1 .. Len(frames)
  <2>1. NextFrame(Bytes, frames) >= 1
    BY DEF WsInv, Sound
  <2> QED
    BY <1>7, <2>1
<1>9. Seen[1] = in[1]
  <2>1. 1 \in 1 .. Looked
    BY <1>3
  <2> QED
    BY <1>4, <1>6, <2>1
<1>10. Fetched = frames[in[1][1]] /\ Fetched \in FrameKinds
  BY <1>1, <1>8, <1>9 DEF Fetched
<1> QED
  BY <1>2, <1>3, <1>4, <1>6, <1>7, <1>8, <1>10

LEMMA IncompleteStep ==
    ASSUME WsInv, Incomplete
    PROVE  WsInv'
<1>1. /\ up /\ Enough /\ Looked < Size(Fetched) /\ reading' = FALSE /\ buf' = Seen
      /\ UNCHANGED <<up, open, in, frames, wire, got, early>>
  BY DEF Incomplete
<1>2. Bytes' = Bytes /\ Looked' = Looked
  BY <1>1 DEF Bytes, Looked
<1>3. /\ Seen \in Seq((Nat \X Nat) \union {Stale}) /\ Len(Seen) = BufSize
      /\ Fetched = frames[in[1][1]]
  BY <1>1, SeenIs
<1>4. WsTypes'
  BY <1>1, <1>3 DEF WsInv, WsTypes
<1>5. TooLittle'
  BY <1>1, <1>2, <1>3 DEF TooLittle
<1> QED
  BY <1>1, <1>2, <1>4, <1>5 DEF WsInv, Asking

-----------------------------------------------------------------------------
\* The message of a frame, read where the callback reads it.
LEMMA MessageIs ==
    ASSUME WsInv, up, Enough, Size(Fetched) <= Looked
    PROVE  SubSeq(Seen, HeaderLen(Fetched) + 1, Size(Fetched)) = Payload(in[1][1], Fetched)
<1> DEFINE f == in[1][1]
<1> DEFINE h == HeaderLen(Fetched)
<1> DEFINE z == Size(Fetched)
<1> DEFINE S == (Nat \X Nat) \union {Stale}
<1> DEFINE l == Fetched.len
<1>1. /\ in # <<>> /\ Looked \in Nat /\ Looked >= 1 /\ Looked <= Len(in) /\ Looked <= BufSize
      /\ Seen \in Seq(S) /\ Len(Seen) = BufSize
      /\ \A i \in 1 .. Looked : Seen[i] = in[i]
      /\ f \in 1 .. Len(frames)
      /\ Fetched = frames[f] /\ Fetched \in FrameKinds
  BY SeenIs
<1>2. h \in Nat /\ z \in Nat /\ l \in Nat /\ z = h + l
  BY <1>1, SizeIs
<1>3. /\ Bytes \in Seq(Nat \X Nat) /\ Bytes # <<>> /\ Bytes[1] = in[1]
      /\ \A i \in 1 .. Len(in) : Bytes[i] = in[i]
      /\ Len(frames) \in Nat /\ Len(in) \in Nat
      /\ frames \in Seq(FrameKinds) /\ Streamed(Bytes, frames)
  <2>1. WsTypes /\ Streamed(Bytes, frames) /\ frames \in Seq(FrameKinds)
    BY DEF WsInv, WsTypes
  <2> QED
    BY <1>1, <2>1, Begins
<1>4. z = SizeIn(frames, Bytes[1][1])
  BY <1>1, <1>3 DEF SizeIn
<1>5. \A k \in 1 .. z : Bytes[k][1] = Bytes[1][1] /\ Bytes[k][2] = k
  <2> HIDE DEF z
  <2> QED
    BY <1>2, <1>3, <1>4, StreamDrop
<1>6. z <= Looked
  OBVIOUS
<1> HIDE DEF h, z, f, l
<1>7. \A k \in 1 .. z : Seen[k] = <<f, k>>
  <2> TAKE k \in 1 .. z
  <2>1. k \in 1 .. Looked /\ k \in 1 .. Len(in)
    BY <1>1, <1>2, <1>3, <1>6
  <2>2. Seen[k] = Bytes[k] /\ Bytes[k] \in Nat \X Nat
    <3>1. in[k] \in Nat \X Nat
      BY <2>1 DEF WsInv, WsTypes
    <3> QED
      BY <1>1, <1>3, <2>1, <3>1
  <2>3. Bytes[k][1] = f /\ Bytes[k][2] = k
    BY <1>3, <1>5 DEF f
  <2> QED
    BY <2>2, <2>3
<1> DEFINE m == SubSeq(Seen, h + 1, z)
<1> DEFINE p == [k \in 1 .. l |-> <<f, h + k>>]
<1>8. m \in Seq(S) /\ Len(m) = l /\ \A i \in 1 .. l : m[i] = Seen[h + i]
  <2> DEFINE o == h + 1
  <2>1. o \in Nat \ {0} /\ o <= z + 1 /\ z <= Len(Seen) /\ z - o + 1 = l
    BY <1>1, <1>2, <1>6
  <2>2. \A i \in 1 .. l : o + i - 1 = h + i
    BY <1>2
  <2> HIDE DEF o, S
  <2>3. /\ SubSeq(Seen, o, z) \in Seq(S) /\ Len(SubSeq(Seen, o, z)) = z - o + 1
        /\ \A i \in 1 .. (z - o + 1) : SubSeq(Seen, o, z)[i] = Seen[o + i - 1]
    BY <1>1, <1>2, <2>1, SubSeqIs
  <2> QED
    BY <2>1, <2>2, <2>3 DEF o
<1> HIDE DEF m
<1>9. p \in Seq(S) /\ Len(p) = l
  <2>1. \A k \in 1 .. l : <<f, h + k>> \in S
    BY <1>1, <1>2, <1>3
  <2>2. p \in Seq(S)
    BY <1>2, <2>1
  <2>3. DOMAIN p = 1 .. l
    OBVIOUS
  <2> HIDE DEF p
  <2> QED
    BY <1>2, <2>2, <2>3
<1>10. ASSUME NEW i \in 1 .. l PROVE m[i] = p[i]
  <2>1. h + i \in 1 .. z
    BY <1>2
  <2> QED
    BY <1>7, <1>8, <2>1
<1>11. m = p
  <2> HIDE DEF p, S
  <2> QED
    BY <1>8, <1>9, <1>10, SeqEqual
<1> QED
  BY <1>11 DEF m, p, h, z, f, l, Payload

LEMMA PayloadIs ==
    ASSUME NEW f \in Nat, NEW fr \in FrameKinds
    PROVE  /\ Payload(f, fr) \in Seq(Nat \X Nat) /\ Len(Payload(f, fr)) = fr.len
           /\ fr.len > 0 => FrameOf(Payload(f, fr)) = f
<1>1. HeaderLen(fr) \in Nat /\ fr.len \in Nat
  BY SizeIs
<1> DEFINE h == HeaderLen(fr)
<1> DEFINE l == fr.len
<1> DEFINE p == [k \in 1 .. l |-> <<f, h + k>>]
<1>2. h \in Nat /\ l \in Nat
  BY <1>1
<1> HIDE DEF h, l
<1>3. p \in Seq(Nat \X Nat) /\ DOMAIN p = 1 .. l
  <2>1. \A k \in 1 .. l : <<f, h + k>> \in Nat \X Nat
    BY <1>2
  <2> QED
    BY <1>2, <2>1
<1>4. l > 0 => p[1] = <<f, h + 1>>
  BY <1>2
<1> HIDE DEF p
<1>5. Len(p) = l
  BY <1>2, <1>3
<1>6. l > 0 => FrameOf(p) = f
  BY <1>4 DEF FrameOf
<1> QED
  BY <1>3, <1>5, <1>6 DEF p, h, l, Payload

\* A frame without a message for the logic is passed by, ...
LEMMA SoundPasses ==
    ASSUME NEW g, NEW fs, NEW n \in Nat, NEW o, NEW o2, Sound(g, fs, n, o), ~Wanted(fs, n),
           o2 <=> o /\ ~Deadly(fs[n])
    PROVE  Sound(g, fs, n + 1, o2)
<1>1. n >= 1 /\ GotSound(g, fs, n) /\ (o <=> Harmless(fs, n))
  BY DEF Sound
<1>2. /\ 1 .. ((n + 1) - 1) = (1 .. (n - 1)) \union {n} /\ n + 1 >= 1
  BY <1>1
<1>3. Harmless(fs, n + 1) <=> Harmless(fs, n) /\ ~Deadly(fs[n])
  BY <1>2, Zenon DEF Harmless
<1>4. GotSound(g, fs, n + 1)
  <2> DEFINE N == 1 .. (n - 1)
  <2> DEFINE M == 1 .. ((n + 1) - 1)
  <2>1. M = N \union {n}
    BY <1>2
  <2>2. /\ \A i \in 1 .. Len(g) :
             /\ FrameOf(g[i]) \in N /\ Wanted(fs, FrameOf(g[i]))
             /\ g[i] = Payload(FrameOf(g[i]), fs[FrameOf(g[i])])
        /\ \A i, j \in 1 .. Len(g) : i < j => FrameOf(g[i]) < FrameOf(g[j])
        /\ \A f \in N : Wanted(fs, f) => \E i \in 1 .. Len(g) : FrameOf(g[i]) = f
    BY <1>1 DEF GotSound
  <2> HIDE DEF N, M
  <2>3. \A i \in 1 .. Len(g) : FrameOf(g[i]) \in M
    BY <2>1, <2>2
  <2>4. \A f \in M : Wanted(fs, f) => \E i \in 1 .. Len(g) : FrameOf(g[i]) = f
    BY <2>1, <2>2
  <2> QED
    BY <2>2, <2>3, <2>4 DEF GotSound, M
<1> QED
  BY <1>1, <1>2, <1>3, <1>4 DEF Sound

\* ... the message of another one is the last of those the logic got.
LEMMA SoundPushes ==
    ASSUME NEW g \in Seq(Seq(Nat \X Nat)), NEW fs \in Seq(FrameKinds), NEW n \in 1 .. Len(fs),
           NEW o, Sound(g, fs, n, o), Wanted(fs, n)
    PROVE  Sound(Append(g, Payload(n, fs[n])), fs, n + 1, o)
<1> DEFINE p == Payload(n, fs[n])
<1> DEFINE g2 == Append(g, p)
<1>1. n >= 1 /\ GotSound(g, fs, n) /\ (o <=> Harmless(fs, n)) /\ n \in Nat
  BY EmptyIs DEF Sound
<1>2. /\ 1 .. ((n + 1) - 1) = (1 .. (n - 1)) \union {n} /\ n + 1 >= 1
  BY <1>1
<1>3. ~Deadly(fs[n]) /\ fs[n] \in FrameKinds /\ HasMessage(fs[n])
  BY DEF Wanted, Deadly, HasMessage
<1>4. Harmless(fs, n + 1) <=> Harmless(fs, n)
  <2>1. Harmless(fs, n + 1) <=> Harmless(fs, n) /\ ~Deadly(fs[n])
    BY <1>2, Zenon DEF Harmless
  <2> QED
    BY <1>3, <2>1
<1>5. p \in Seq(Nat \X Nat) /\ FrameOf(p) = n
  <2>1. fs[n].len > 0
    BY <1>3 DEF HasMessage
  <2> QED
    BY <1>1, <1>3, <2>1, PayloadIs
<1> DEFINE F(i) == FrameOf(g[i])
<1> DEFINE L == Len(g)
<1> HIDE DEF p
<1>6. /\ Len(g2) = L + 1 /\ L \in Nat /\ g2[L + 1] = p
      /\ \A i \in 1 .. L : g2[i] = g[i]
  BY <1>5
<1>7. /\ \A i \in 1 .. L : F(i) \in 1 .. (n - 1) /\ Wanted(fs, F(i)) /\ g[i] = Payload(F(i), fs[F(i)])
      /\ \A i, j \in 1 .. L : i < j => F(i) < F(j)
      /\ \A f \in 1 .. (n - 1) : Wanted(fs, f) => \E i \in 1 .. L : F(i) = f
  BY <1>1 DEF GotSound
<1> DEFINE G(i) == FrameOf(g2[i])
<1>8. /\ \A i \in 1 .. L : G(i) = F(i) /\ g2[i] = g[i]
      /\ G(L + 1) = n /\ g2[L + 1] = p
  BY <1>5, <1>6
<1>9. \A i \in 1 .. (L + 1) : G(i) = FrameOf(g2[i])
  OBVIOUS
<1>10. \A i \in 1 .. (L + 1) : i \in 1 .. L \/ i = L + 1
  BY <1>6
<1> HIDE DEF g2, G, F, L
<1>11. ASSUME NEW i \in 1 .. (L + 1)
       PROVE  /\ G(i) \in 1 .. ((n + 1) - 1) /\ Wanted(fs, G(i))
              /\ g2[i] = Payload(G(i), fs[G(i)])
  <2>1. CASE i \in 1 .. L
    <3>1. G(i) \in 1 .. ((n + 1) - 1)
      BY <1>2, <1>7, <1>8, <2>1
    <3> QED
      BY <1>7, <1>8, <2>1, <3>1
  <2>2. CASE i = L + 1
    <3>1. n \in 1 .. ((n + 1) - 1)
      BY <1>2
    <3> QED
      BY <1>8, <2>2, <3>1 DEF p
  <2> QED
    BY <1>10, <2>1, <2>2
<1>12. ASSUME NEW i \in 1 .. (L + 1), NEW j \in 1 .. (L + 1), i < j
       PROVE  G(i) < G(j)
  <2>1. i \in 1 .. L
    BY <1>6, <1>12
  <2>2. CASE j \in 1 .. L
    BY <1>7, <1>8, <1>12, <2>1, <2>2
  <2>3. CASE j = L + 1
    <3>1. F(i) \in 1 .. (n - 1)
      BY <1>7, <2>1
    <3>2. F(i) < n
      BY <1>1, <3>1
    <3> QED
      BY <1>8, <2>1, <2>3, <3>2
  <2> QED
    BY <1>10, <2>2, <2>3
<1>13. ASSUME NEW f \in 1 .. ((n + 1) - 1), Wanted(fs, f)
       PROVE  \E i \in 1 .. (L + 1) : G(i) = f
  <2>1. CASE f = n
    <3>1. L + 1 \in 1 .. (L + 1)
      BY <1>6
    <3> QED
      BY <1>8, <2>1, <3>1
  <2>2. CASE f \in 1 .. (n - 1)
    <3>1. PICK i \in 1 .. L : F(i) = f
      BY <1>7, <1>13, <2>2
    <3>2. i \in 1 .. (L + 1)
      BY <1>6
    <3> QED
      BY <1>8, <3>1, <3>2
  <2> QED
    BY <1>2, <2>1, <2>2
<1>14. GotSound(g2, fs, n + 1)
  <2>1. Len(g2) = L + 1
    BY <1>6
  <2> QED
    BY <1>9, <1>11, <1>12, <1>13, <2>1 DEF GotSound
<1> QED
  BY <1>1, <1>2, <1>4, <1>14 DEF Sound, g2, p

LEMMA PacketStep ==
    ASSUME WsInv, Packet
    PROVE  WsInv'
<1> DEFINE fr == Fetched
<1> DEFINE z == Size(Fetched)
<1> DEFINE f == in[1][1]
<1> DEFINE message == SubSeq(Seen, HeaderLen(fr) + 1, Size(fr))
<1> DEFINE S == (Nat \X Nat) \union {Stale}
<1>1. /\ up /\ Enough /\ z <= Looked /\ in' = SubSeq(in, z + 1, Len(in))
      /\ buf' = IF HasMessage(fr) THEN CopyOut(message, Seen) ELSE Seen
      /\ up' = up /\ frames' = frames /\ wire' = wire
      /\ \/ Unwanted(fr) /\ Closes
         \/ ~Unwanted(fr) /\ ~HasMessage(fr) /\ GoesOn
         \/ HasMessage(fr) /\ fr.fate = "bad" /\ Closes
         \/ HasMessage(fr) /\ fr.fate \in {"differs", "starved"} /\ GivesUp
         \/ HasMessage(fr) /\ fr.fate = "refused" /\ GoesOn
         \/ HasMessage(fr) /\ fr.fate = "ok" /\ Pushes(message)
  BY DEF Packet
<1>2. /\ in # <<>> /\ Looked \in Nat /\ Looked <= Len(in) /\ Looked <= BufSize
      /\ Seen \in Seq(S) /\ Len(Seen) = BufSize
      /\ f = NextFrame(Bytes, frames) /\ f \in 1 .. Len(frames)
      /\ fr = frames[f] /\ fr \in FrameKinds
  BY <1>1, SeenIs
<1>3. /\ in \in Seq(Nat \X Nat) /\ wire \in Seq(Nat \X Nat) /\ frames \in Seq(FrameKinds)
      /\ got \in Seq(Seq(Nat \X Nat)) /\ WsTypes /\ Streamed(Bytes, frames)
      /\ Sound(got, frames, f, open)
      /\ open \in BOOLEAN /\ reading \in BOOLEAN /\ early \in BOOLEAN
  BY <1>1, <1>2 DEF WsInv, WsTypes
<1>4. /\ Bytes \in Seq(Nat \X Nat) /\ Bytes # <<>> /\ Bytes[1] = in[1]
      /\ Len(Bytes) = Len(in) + Len(wire) /\ Len(in) \in Nat /\ Len(frames) \in Nat
  BY <1>2, <1>3, Begins
<1>5. z \in Nat /\ f \in Nat /\ z <= Len(in)
  <2>1. z \in Nat
    BY <1>2, SizeIs
  <2>2. z <= Looked /\ Looked \in Nat /\ Looked <= Len(in) /\ Len(in) \in Nat /\ f \in 1 .. Len(frames)
    BY <1>1, <1>2, <1>4
  <2> HIDE DEF z, f
  <2> QED
    BY <2>1, <2>2
<1>6. message = Payload(f, fr)
  BY <1>1, MessageIs
<1>7. z = SizeIn(frames, Bytes[1][1])
  BY <1>2, <1>4, SMTT(30) DEF SizeIn
<1> HIDE DEF z, f, fr, message
<1>8. Bytes' = SubSeq(Bytes, z + 1, Len(Bytes))
  BY <1>1, <1>3, <1>5, DropFirst DEF Bytes
<1>9. Streamed(Bytes', frames') /\ NextFrame(Bytes', frames') = f + 1
  <2>1. /\ Streamed(SubSeq(Bytes, z + 1, Len(Bytes)), frames)
        /\ NextFrame(SubSeq(Bytes, z + 1, Len(Bytes)), frames) = Bytes[1][1] + 1
    BY <1>3, <1>4, <1>5, <1>7, StreamDrop
  <2>2. Bytes[1][1] = f
    BY <1>4 DEF f
  <2> QED
    BY <1>1, <1>8, <2>1, <2>2
<1>10. /\ Payload(f, fr) \in Seq(Nat \X Nat) /\ Len(Payload(f, fr)) = fr.len
       /\ fr.len \in Nat /\ fr.len < BufSize
  <2>1. Payload(f, fr) \in Seq(Nat \X Nat) /\ Len(Payload(f, fr)) = fr.len
    BY <1>2, <1>5, PayloadIs
  <2>2. fr.len \in 0 .. (BufSize - 1) /\ BufSize \in Nat
    BY <1>2, WsAssumption
  <2> QED
    BY <2>1, <2>2
<1>11. buf' \in Seq(S) /\ Len(buf') = BufSize
  <2>1. message \in Seq(S) /\ Len(message) <= BufSize
    <3>1. BufSize \in Nat
      BY WsAssumption
    <3>2. message \in Seq(S)
      BY <1>6, <1>10
    <3>3. Len(message) <= BufSize
      BY <1>6, <1>10, <3>1
    <3> QED
      BY <3>2, <3>3
  <2> HIDE DEF S
  <2>2. CopyOut(message, Seen) \in Seq(S) /\ Len(CopyOut(message, Seen)) = BufSize
    BY <1>2, <2>1, CopyOutIs
  <2> QED
    BY <1>1, <1>2, <2>2
<1>12. in' \in Seq(Nat \X Nat)
  BY <1>1, <1>3, <1>5, Cut
<1>13. /\ open' \in BOOLEAN /\ reading' \in BOOLEAN /\ early' \in BOOLEAN
       /\ got' \in Seq(Seq(Nat \X Nat))
       /\ Sound(got', frames', f + 1, open')
       /\ ~open' \/ reading' \/ early'
  <2>1. Wanted(frames, f) <=> HasMessage(fr) /\ fr.fate = "ok"
    BY <1>2 DEF Wanted
  <2>2. Deadly(frames[f]) <=> Unwanted(fr) \/ (HasMessage(fr) /\ fr.fate = "bad")
    BY <1>2 DEF Deadly
  <2>3. Unwanted(fr) => ~HasMessage(fr)
    BY DEF HasMessage
  <2>4. ASSUME ~Wanted(frames, f), NEW o, o <=> open /\ ~Deadly(frames[f])
        PROVE  Sound(got, frames, f + 1, o)
    BY <1>3, <1>5, <2>4, SoundPasses
  <2>5. reading = TRUE
    BY <1>3 DEF Packet
  <2>6. CASE Unwanted(fr) /\ Closes
    <3>1. open' = FALSE /\ reading' = FALSE /\ got' = got /\ early' = early
      BY <2>6 DEF Closes
    <3>2. Sound(got, frames, f + 1, FALSE)
      BY <2>1, <2>2, <2>3, <2>4, <2>6
    <3> QED
      BY <1>1, <1>3, <3>1, <3>2
  <2>7. CASE HasMessage(fr) /\ fr.fate = "bad" /\ Closes
    <3>1. open' = FALSE /\ reading' = FALSE /\ got' = got /\ early' = early
      BY <2>7 DEF Closes
    <3>2. ~Wanted(frames, f)
      BY <2>1, <2>7
    <3>3. Sound(got, frames, f + 1, FALSE)
      BY <2>2, <2>4, <2>7, <3>2
    <3> QED
      BY <1>1, <1>3, <3>1, <3>3
  <2>8. CASE ~Unwanted(fr) /\ ~HasMessage(fr) /\ GoesOn
    <3>1. open' = open /\ reading' = reading /\ got' = got /\ early' = early
      BY <2>8 DEF GoesOn
    <3>2. Sound(got, frames, f + 1, open)
      BY <2>1, <2>2, <2>4, <2>8
    <3> QED
      BY <1>1, <1>3, <2>5, <3>1, <3>2
  <2>9. CASE HasMessage(fr) /\ fr.fate = "refused" /\ GoesOn
    <3>1. open' = open /\ reading' = reading /\ got' = got /\ early' = early
      BY <2>9 DEF GoesOn
    <3>2. fr.fate # "ok" /\ fr.fate # "bad"
      BY <2>9
    <3>3. Sound(got, frames, f + 1, open)
      BY <2>1, <2>2, <2>3, <2>4, <2>9, <3>2
    <3> QED
      BY <1>1, <1>3, <2>5, <3>1, <3>3
  <2>10. CASE HasMessage(fr) /\ fr.fate \in {"differs", "starved"} /\ GivesUp
    <3>1. open' = open /\ reading' = FALSE /\ got' = got /\ early' = TRUE
      BY <2>10 DEF GivesUp
    <3>2. fr.fate # "ok" /\ fr.fate # "bad"
      BY <2>10
    <3>3. Sound(got, frames, f + 1, open)
      BY <2>1, <2>2, <2>3, <2>4, <2>10, <3>2
    <3> QED
      BY <1>1, <1>3, <3>1, <3>3
  <2>11. CASE HasMessage(fr) /\ fr.fate = "ok" /\ Pushes(message)
    <3>1. open' = open /\ reading' = reading /\ got' = Append(got, message) /\ early' = early
      BY <2>11 DEF Pushes
    <3>2. Wanted(frames, f)
      BY <2>1, <2>11
    <3>3. f \in 1 .. Len(frames) /\ message = Payload(f, frames[f])
      BY <1>2, <1>6
    <3>4. Sound(Append(got, Payload(f, frames[f])), frames, f + 1, open)
      BY <1>3, <3>2, <3>3, SoundPushes
    <3>5. Append(got, message) \in Seq(Seq(Nat \X Nat))
      BY <1>3, <1>6, <1>10
    <3> QED
      BY <1>1, <1>3, <2>5, <3>1, <3>3, <3>4, <3>5
  <2> QED
    BY <1>1, <2>6, <2>7, <2>8, <2>9, <2>10, <2>11
<1>14. WsTypes'
  BY <1>1, <1>3, <1>11, <1>12, <1>13 DEF WsTypes
<1> QED
  BY <1>1, <1>9, <1>13, <1>14 DEF WsInv, Asking, TooLittle

LEMMA StepStream == WsInv /\ [WsNext]_wsVars => WsInv'
<1> SUFFICES ASSUME WsInv, [WsNext]_wsVars PROVE WsInv'
  OBVIOUS
<1>1. ASSUME UNCHANGED wsVars PROVE WsInv'
  <2>1. UNCHANGED <<up, open, in, buf, frames, wire, got, reading, early>>
    BY <1>1 DEF wsVars
  <2>2. Bytes' = Bytes /\ Looked' = Looked /\ Enough' = Enough
    BY <2>1 DEF Bytes, Looked, Enough
  <2> QED
    BY <2>1, <2>2 DEF WsInv, WsTypes, Asking, TooLittle
<1> QED
  BY <1>1, SendStep, ReceiveStep, HandShakeStep, NothingMoreStep, IncompleteStep, PacketStep
     DEF WsNext

-----------------------------------------------------------------------------
\* The frames before the next one, and no others, are consumed.
LEMMA ConsumedAre ==
    ASSUME WsInv, up
    PROVE  Consumed = 1 .. (NextFrame(Bytes, frames) - 1)
<1> DEFINE n == NextFrame(Bytes, frames)
<1> DEFINE left == {c[1] : c \in ToSet(in) \cup ToSet(wire)}
<1>1. /\ WsTypes /\ Streamed(Bytes, frames) /\ n >= 1
      /\ in \in Seq(Nat \X Nat) /\ wire \in Seq(Nat \X Nat)
  BY DEF WsInv, WsTypes, Sound
<1>2. /\ Len(Bytes) = Len(in) + Len(wire) /\ Len(in) \in Nat /\ Len(wire) \in Nat
      /\ Len(frames) \in Nat
      /\ \A i \in 1 .. Len(in) : Bytes[i] = in[i]
      /\ \A i \in 1 .. Len(wire) : Bytes[Len(in) + i] = wire[i]
      /\ n \in 0 .. (Len(frames) + 1)
      /\ Bytes # <<>> => n = Bytes[1][1] /\ Len(Bytes) >= 1
      /\ Bytes \in Seq(Nat \X Nat)
  BY <1>1, Begins
<1>3. left = {Bytes[i][1] : i \in 1 .. Len(Bytes)}
  <2>1. ASSUME NEW c \in ToSet(in) \cup ToSet(wire)
        PROVE  \E i \in 1 .. Len(Bytes) : Bytes[i] = c
    <3>1. CASE c \in ToSet(in)
      <4>1. PICK i \in 1 .. Len(in) : c = in[i]
        BY <1>1, <3>1, ToSetIs
      <4>2. i \in 1 .. Len(Bytes)
        BY <1>2
      <4> QED
        BY <1>2, <4>1, <4>2
    <3>2. CASE c \in ToSet(wire)
      <4>1. PICK i \in 1 .. Len(wire) : c = wire[i]
        BY <1>1, <3>2, ToSetIs
      <4>2. Len(in) + i \in 1 .. Len(Bytes)
        BY <1>2
      <4> QED
        BY <1>2, <4>1, <4>2
    <3> QED
      BY <2>1, <3>1, <3>2
  <2>2. ASSUME NEW i \in 1 .. Len(Bytes)
        PROVE  Bytes[i] \in ToSet(in) \cup ToSet(wire)
    <3>1. CASE i <= Len(in)
      <4>1. i \in 1 .. Len(in)
        BY <1>2, <3>1
      <4>2. in[i] \in ToSet(in)
        BY <1>1, <4>1, ToSetIs
      <4> QED
        BY <1>2, <4>1, <4>2
    <3>2. CASE i > Len(in)
      <4>1. i - Len(in) \in 1 .. Len(wire) /\ Len(in) + (i - Len(in)) = i
        BY <1>2, <3>2
      <4>2. Bytes[i] = wire[i - Len(in)]
        BY <1>2, <4>1
      <4>3. wire[i - Len(in)] \in ToSet(wire)
        BY <1>1, <4>1, ToSetIs
      <4> QED
        BY <4>2, <4>3
    <3> QED
      BY <1>2, <3>1, <3>2
  <2> QED
    BY <2>1, <2>2
<1> HIDE DEF left, n
<1>4. \A f \in 1 .. Len(frames) : f \in left <=> n <= f
  <2> TAKE f \in 1 .. Len(frames)
  <2>1. CASE Bytes = <<>>
    <3>1. n = Len(frames) + 1 /\ Len(Bytes) = 0
      BY <1>2, <2>1, EmptyIs DEF NextFrame, n
    <3>2. 1 .. Len(Bytes) = {}
      BY <3>1
    <3>3. f \notin left
      BY <1>3, <3>2
    <3> QED
      BY <1>2, <3>1, <3>3
  <2>2. CASE Bytes # <<>>
    <3>1. 1 \in 1 .. Len(Bytes) /\ n = Bytes[1][1]
      BY <1>2, <2>2
    <3>2. \A i \in 1 .. Len(Bytes) : n <= Bytes[i][1]
      <4> TAKE i \in 1 .. Len(Bytes)
      <4>1. i = 1 \/ 1 < i
        BY <1>2
      <4> QED
        BY <1>1, <1>2, <3>1, <4>1 DEF Streamed, Rising
    <3>3. n <= f => \E i \in 1 .. Len(Bytes) : Bytes[i][1] = f
      <4>1. f \in 0 .. Len(frames)
        BY <1>2
      <4> QED
        BY <1>1, <2>2, <3>1, <4>1 DEF Streamed, Complete
    <3> QED
      BY <1>3, <3>2, <3>3
  <2> QED
    BY <2>1, <2>2
<1>5. Consumed = {f \in 1 .. Len(frames) : f \notin left}
  BY DEF Consumed, left
<1>6. \A f : f \in Consumed <=> f \in 1 .. (n - 1)
  <2> TAKE f
  <2>1. f \in 1 .. (n - 1) <=> f \in 1 .. Len(frames) /\ ~(n <= f)
    BY <1>1, <1>2
  <2> QED
    BY <1>4, <1>5, <2>1
<1> QED
  BY <1>6 DEF n

LEMMA InvTells == WsInv => StreamKept
<1> SUFFICES ASSUME WsInv PROVE StreamKept
  OBVIOUS
<1> DEFINE n == NextFrame(Bytes, frames)
<1>1. CASE ~up
  <2>1. frames = <<>> /\ got = <<>> /\ open
    BY <1>1 DEF WsInv, Asking
  <2>2. Consumed = {}
    BY <2>1 DEF Consumed
  <2>3. Carried = {} /\ {FrameOf(got[i]) : i \in 1 .. Len(got)} = {}
    BY <2>1, <2>2 DEF Carried
  <2>4. WholeAndInOrder
    BY <2>1, <2>3 DEF WholeAndInOrder
  <2>5. NothingReadyWaits /\ ClosedForCause
    BY <1>1, <2>1, <2>2 DEF NothingReadyWaits, ClosedForCause
  <2> QED
    BY <2>4, <2>5 DEF StreamKept
<1>2. CASE up
  <2>1. Consumed = 1 .. (n - 1)
    BY <1>2, ConsumedAre
  <2>2. n >= 1 /\ GotSound(got, frames, n) /\ (open <=> Harmless(frames, n))
    BY <1>2 DEF WsInv, Sound
  <2>3. ClosedForCause
    BY <2>1, <2>2 DEF ClosedForCause, Harmless
  <2>4. Carried = {f \in 1 .. (n - 1) : Wanted(frames, f)}
    BY <2>1 DEF Carried, Wanted
  <2> HIDE DEF n
  <2>5. {FrameOf(got[i]) : i \in 1 .. Len(got)} = Carried
    BY <2>2, <2>4 DEF GotSound
  <2>6. WholeAndInOrder
    BY <2>2, <2>5 DEF WholeAndInOrder, GotSound
  <2>7. NothingReadyWaits
    <3> SUFFICES ASSUME open, ~reading, ~early, in # <<>>,
                        frames[in[1][1]].masked, Fits(frames[in[1][1]]),
                        ToSet(Cells(in[1][1], Size(frames[in[1][1]]))) \subseteq ToSet(in)
                 PROVE  FALSE
      BY DEF NothingReadyWaits
    <3> DEFINE f == in[1][1]
    <3> DEFINE z == Size(frames[f])
    <3>1. ~Enough \/ Looked < z
      BY <1>2 DEF WsInv, TooLittle
    <3>2. WsTypes /\ Streamed(Bytes, frames) /\ frames \in Seq(FrameKinds) /\ in \in Seq(Nat \X Nat)
      BY DEF WsInv, WsTypes
    <3>3. /\ Bytes \in Seq(Nat \X Nat) /\ Bytes # <<>> /\ Bytes[1] = in[1]
          /\ Len(in) \in Nat /\ Len(wire) \in Nat /\ Len(Bytes) = Len(in) + Len(wire)
          /\ \A i \in 1 .. Len(in) : Bytes[i] = in[i]
          /\ Len(frames) \in Nat /\ n = Bytes[1][1] /\ Bytes[1][1] \in 0 .. Len(frames)
      BY <3>2, Begins DEF n
    <3>4. f \in 1 .. Len(frames)
      BY <2>2, <3>3
    <3>5. frames[f] \in FrameKinds
      BY <3>2, <3>4
    <3>6. z \in Nat /\ z >= 6 /\ z <= BufSize
      BY <3>5, SizeIs DEF Fits
    <3>7. z = SizeIn(frames, Bytes[1][1])
      BY <3>3, <3>4 DEF SizeIn
    <3>8. \A k \in 1 .. z : Bytes[k][1] = Bytes[1][1] /\ Bytes[k][2] = k
      <4> HIDE DEF z
      <4> QED
        BY <3>2, <3>3, <3>6, <3>7, StreamDrop
    <3>9. ToSet(Cells(f, z)) \subseteq ToSet(in)
      OBVIOUS
    <3> HIDE DEF z, f
    <3>10. <<f, z>> \in ToSet(in)
      <4>1. f \in Nat
        BY <3>3, <3>4
      <4>2. z \in 1 .. z /\ Cells(f, z)[z] = <<f, z>> /\ DOMAIN Cells(f, z) = 1 .. z
        BY <3>6 DEF Cells
      <4>3. <<f, z>> \in ToSet(Cells(f, z))
        BY <4>2 DEF ToSet
      <4> QED
        BY <3>9, <4>3
    <3>11. PICK i \in 1 .. Len(in) : in[i] = <<f, z>>
      BY <3>2, <3>10, ToSetIs
    <3>12. Len(in) >= z
      <4> SUFFICES ASSUME Len(in) < z PROVE FALSE
        BY <3>3, <3>6
      <4>0. Len(in) \in Nat
        BY <3>3
      <4>1. i \in 1 .. z /\ i # z
        BY <3>6, <3>11, <4>0
      <4>2. Bytes[i][2] = i /\ Bytes[i] = <<f, z>>
        BY <3>3, <3>8, <3>11, <4>1
      <4> QED
        BY <4>1, <4>2
    <3>13. MinPacket \in 1 .. 6 /\ BufSize \in Nat
      BY WsAssumption
    <3>14. Len(in) \in Nat
      BY <3>3
    <3>15. MinPacket <= Len(in) /\ ~(Len(in) < z) /\ ~(BufSize < z)
      BY <3>6, <3>12, <3>13, <3>14
    <3>16. Enough /\ ~(Looked < z)
      BY <3>15 DEF Enough, Looked
    <3> QED
      BY <3>1, <3>16
  <2> QED
    BY <2>3, <2>6, <2>7 DEF StreamKept
<1> QED
  BY <1>1, <1>2

(***************************************************************************)
(* However the bytes of a client are cut, whatever frames it sends and     *)
(* whatever becomes of them, the messages of the frames that were taken    *)
(* reached the logic whole and in order, none that has arrived waits for   *)
(* more, and the connection is closed only for cause                       *)
(* (thread_io.h:94-166, websocket.h:110-140).                              *)
(***************************************************************************)
THEOREM StreamSafe == WsSpec => []StreamKept
<1>1. WsInit => WsInv
  BY InitStream
<1>2. WsInv /\ [WsNext]_wsVars => WsInv'
  BY StepStream
<1>3. WsInv => StreamKept
  BY InvTells
<1> QED
  BY <1>1, <1>2, <1>3, PTL DEF WsSpec

-----------------------------------------------------------------------------
(* InnerMessage *)

\* What a field is read back as.
Content(f) == IF f.kind = "int" THEN <<f.val>> ELSE Data(f)

\* The offsets between which a reader finds the fields of a block.
Offsets(b, at) ==
    /\ at \in [0 .. Len(b.fields) -> Nat]
    /\ at[0] = 0 /\ at[Len(b.fields)] = Len(b.buf)
    /\ \A k \in 1 .. Len(b.fields) :
          ReadCell(b.buf, at[k - 1], b.fields[k].kind)
            = [ok |-> TRUE, data |-> Content(b.fields[k]), offset |-> at[k]]

Readable(b) == \E at \in [0 .. Len(b.fields) -> Nat] : Offsets(b, at)

(***************************************************************************)
(* A block that leaves is readable, and so is the one a script goes on     *)
(* with; what a failed call left in msg_send is not.                       *)
(***************************************************************************)
MessageInv ==
    /\ freeBlocks \in Nat /\ begun \in Nat /\ inScript \in BOOLEAN
    /\ msg_send \in AllBlocks \union {NULL} /\ queue \in Seq(AllBlocks)
    /\ inScript => msg_send # NULL /\ Readable(msg_send)
    /\ \A m \in 1 .. Len(queue) : Readable(queue[m])
    /\ NoBlockLost

-----------------------------------------------------------------------------
\* The second of two sequences from its m-th element on.
LEMMA SecondPart ==
    ASSUME NEW S, NEW s \in Seq(S), NEW t \in Seq(S), NEW m \in Nat \ {0}, m <= Len(t) + 1
    PROVE  SubSeq(s \o t, Len(s) + m, Len(s) + Len(t)) = SubSeq(t, m, Len(t))
<1>1. /\ s \o t \in Seq(S) /\ Len(s \o t) = Len(s) + Len(t) /\ Len(s) \in Nat /\ Len(t) \in Nat
      /\ \A i \in 1 .. Len(t) : (s \o t)[Len(s) + i] = t[i]
  BY ConcatIs
<1> DEFINE all == s \o t
<1> DEFINE one == SubSeq(all, Len(s) + m, Len(s) + Len(t))
<1> DEFINE two == SubSeq(t, m, Len(t))
<1> HIDE DEF all
<1>2. /\ one \in Seq(S) /\ Len(one) = Len(t) - m + 1
      /\ \A i \in 1 .. (Len(t) - m + 1) : one[i] = all[Len(s) + m + i - 1]
  BY <1>1, SubSeqIs DEF all
<1>3. /\ two \in Seq(S) /\ Len(two) = Len(t) - m + 1
      /\ \A i \in 1 .. (Len(t) - m + 1) : two[i] = t[m + i - 1]
  BY <1>1, SubSeqIs
<1> HIDE DEF one, two
<1>4. ASSUME NEW i \in 1 .. Len(one) PROVE one[i] = two[i]
  <2>1. i \in 1 .. (Len(t) - m + 1) /\ m + i - 1 \in 1 .. Len(t)
    BY <1>1, <1>2
  <2>2. one[i] = all[Len(s) + (m + i - 1)]
    BY <1>1, <1>2, <2>1
  <2> QED
    BY <1>1, <1>3, <2>1, <2>2 DEF all
<1>5. one = two
  BY <1>2, <1>3, <1>4, SeqEqual
<1> QED
  BY <1>5 DEF one, two, all

LEMMA FirstPart ==
    ASSUME NEW S, NEW s \in Seq(S), NEW t \in Seq(S), NEW m \in Nat \ {0}, NEW n \in Nat,
           m <= n + 1, n <= Len(s)
    PROVE  SubSeq(s \o t, m, n) = SubSeq(s, m, n)
<1> DEFINE all == s \o t
<1>1. /\ all \in Seq(S) /\ Len(all) = Len(s) + Len(t) /\ Len(s) \in Nat /\ Len(t) \in Nat
      /\ \A i \in 1 .. Len(s) : all[i] = s[i]
  BY ConcatIs
<1> HIDE DEF all
<1>2. /\ SubSeq(all, m, n) \in Seq(S) /\ Len(SubSeq(all, m, n)) = n - m + 1
      /\ \A i \in 1 .. (n - m + 1) : SubSeq(all, m, n)[i] = all[m + i - 1]
  BY <1>1, SubSeqIs
<1>3. /\ SubSeq(s, m, n) \in Seq(S) /\ Len(SubSeq(s, m, n)) = n - m + 1
      /\ \A i \in 1 .. (n - m + 1) : SubSeq(s, m, n)[i] = s[m + i - 1]
  BY <1>1, SubSeqIs
<1>4. \A i \in 1 .. (n - m + 1) : m + i - 1 \in 1 .. Len(s)
  BY <1>1
<1>5. SubSeq(all, m, n) = SubSeq(s, m, n)
  BY <1>1, <1>2, <1>3, <1>4, SeqEqual, SMTT(30)
<1> QED
  BY <1>5 DEF all

-----------------------------------------------------------------------------
(* Reading a block *)

LEMMA ReadInt ==
    ASSUME NEW cells \in Seq(ImCells), NEW o \in Nat, o + 1 <= Len(cells)
    PROVE  ReadCell(cells, o, "int") = [ok |-> TRUE, data |-> <<cells[o + 1][2]>>, offset |-> o + 1]
BY DEF ReadCell

LEMMA ReadData ==
    ASSUME NEW cells \in Seq(ImCells), NEW o \in Nat, NEW kind, kind # "int", o + 1 <= Len(cells),
           cells[o + 1][2] \in Nat, o + 1 + cells[o + 1][2] <= Len(cells)
    PROVE  ReadCell(cells, o, kind)
             = [ok |-> TRUE, data |-> SubSeq(cells, o + 2, o + 1 + cells[o + 1][2]),
                offset |-> o + 1 + cells[o + 1][2]]
<1> DEFINE n == cells[o + 1][2]
<1>1. ~(Len(cells) < o + 1) /\ ~(Len(cells) < o + 1 + n \/ n < 0)
  OBVIOUS
<1> QED
  BY <1>1 DEF ReadCell

\* What a read that is not refused has found.
LEMMA ReadOk ==
    ASSUME NEW cells \in Seq(ImCells), NEW o \in Nat, NEW kind, ReadCell(cells, o, kind).ok
    PROVE  /\ o + 1 <= Len(cells)
           /\ kind # "int" => cells[o + 1][2] \in Nat /\ o + 1 + cells[o + 1][2] <= Len(cells)
<1>1. o + 1 <= Len(cells)
  BY DEF ReadCell
<1>2. cells[o + 1][2] \in Int
  BY <1>1 DEF ImCells
<1>3. ASSUME kind # "int"
      PROVE  ~(Len(cells) < o + 1 + cells[o + 1][2] \/ cells[o + 1][2] < 0)
  BY <1>1, <1>3 DEF ReadCell
<1> QED
  BY <1>1, <1>2, <1>3

\* What is read of a block is read of it when more has been appended, too.
LEMMA ReadKeeps ==
    ASSUME NEW cells \in Seq(ImCells), NEW more \in Seq(ImCells), NEW o \in Nat, NEW kind,
           ReadCell(cells, o, kind).ok
    PROVE  ReadCell(cells \o more, o, kind) = ReadCell(cells, o, kind)
<1> DEFINE all == cells \o more
<1> DEFINE n == cells[o + 1][2]
<1>1. /\ all \in Seq(ImCells) /\ Len(all) = Len(cells) + Len(more)
      /\ Len(cells) \in Nat /\ Len(more) \in Nat
      /\ \A i \in 1 .. Len(cells) : all[i] = cells[i]
  BY ConcatIs
<1>2. o + 1 \in 1 .. Len(cells)
  BY ReadOk
<1>3. all[o + 1] = cells[o + 1] /\ o + 1 <= Len(all)
  BY <1>1, <1>2
<1>4. CASE kind = "int"
  <2> HIDE DEF all
  <2>1. ReadCell(all, o, "int") = [ok |-> TRUE, data |-> <<all[o + 1][2]>>, offset |-> o + 1]
    BY <1>1, <1>3, ReadInt
  <2>2. ReadCell(cells, o, "int") = [ok |-> TRUE, data |-> <<cells[o + 1][2]>>, offset |-> o + 1]
    BY <1>2, ReadInt
  <2> QED
    BY <1>3, <1>4, <2>1, <2>2 DEF all
<1>5. CASE kind # "int"
  <2>1. n \in Nat /\ o + 1 + n <= Len(cells)
    BY <1>5, ReadOk
  <2>2. o + 1 + n \in Nat /\ o + 1 + n <= Len(all) /\ o + 2 <= (o + 1 + n) + 1
        /\ o + 2 \in Nat \ {0} /\ all[o + 1][2] = n
    BY <1>1, <1>3, <2>1, SMTT(30)
  <2>3. SubSeq(all, o + 2, o + 1 + n) = SubSeq(cells, o + 2, o + 1 + n)
    BY <2>1, <2>2, FirstPart
  <2> HIDE DEF all
  <2>4. ReadCell(all, o, kind)
          = [ok |-> TRUE, data |-> SubSeq(all, o + 2, o + 1 + all[o + 1][2]),
             offset |-> o + 1 + all[o + 1][2]]
    <3>1. all \in Seq(ImCells) /\ o + 1 <= Len(all)
      BY <1>1, <1>3
    <3>2. all[o + 1][2] \in Nat /\ o + 1 + all[o + 1][2] <= Len(all)
      BY <2>1, <2>2
    <3> QED
      BY <1>5, <3>1, <3>2, ReadData, SMTT(20)
  <2>5. ReadCell(cells, o, kind)
          = [ok |-> TRUE, data |-> SubSeq(cells, o + 2, o + 1 + n), offset |-> o + 1 + n]
    BY <1>2, <1>5, <2>1, ReadData
  <2> QED
    BY <2>2, <2>3, <2>4, <2>5 DEF all
<1> QED
  BY <1>4, <1>5

LEMMA DataIs ==
    ASSUME NEW f \in AllFields
    PROVE  Data(f) \in Seq(ImCells) /\ Len(Data(f)) = f.size
<1>1. f.size \in Nat /\ f.val \in Int
  BY DEF AllFields
<1>2. \A k \in 1 .. f.size : <<"data", f.val, k>> \in ImCells
  BY <1>1 DEF ImCells
<1> QED
  BY <1>1, <1>2 DEF Data

\* The cells a write call appends when all of them fit.
Appendix(f) == IF f.kind = "int" THEN <<<<"int", f.val>>>> ELSE <<<<"int", f.size>>>> \o Data(f)

LEMMA AppendixIs ==
    ASSUME NEW f \in AllFields
    PROVE  /\ Appendix(f) \in Seq(ImCells)
           /\ f.kind = "int" => Len(Appendix(f)) = 1 /\ Appendix(f)[1] = <<"int", f.val>>
           /\ f.kind # "int" => /\ Len(Appendix(f)) = f.size + 1
                                /\ Appendix(f)[1] = <<"int", f.size>>
                                /\ SubSeq(Appendix(f), 2, f.size + 1) = Data(f)
<1>1. f.size \in Nat /\ f.val \in Int
  BY DEF AllFields
<1>2. <<"int", f.val>> \in ImCells /\ <<"int", f.size>> \in ImCells
  BY <1>1 DEF ImCells
<1> DEFINE one == <<<<"int", f.size>>>>
<1>3. one \in Seq(ImCells) /\ Len(one) = 1 /\ one[1] = <<"int", f.size>>
  BY <1>2
<1>4. Data(f) \in Seq(ImCells) /\ Len(Data(f)) = f.size
  BY DataIs
<1> HIDE DEF one
<1>5. /\ one \o Data(f) \in Seq(ImCells) /\ Len(one \o Data(f)) = f.size + 1
      /\ (one \o Data(f))[1] = <<"int", f.size>>
  <2>1. (one \o Data(f))[1] = one[1] /\ Len(one \o Data(f)) = 1 + f.size
    BY <1>3, <1>4, ConcatIs
  <2> QED
    BY <1>1, <1>3, <1>4, <2>1, ConcatIs
<1>6. SubSeq(one \o Data(f), 2, f.size + 1) = SubSeq(Data(f), 1, f.size)
  <2>1. SubSeq(one \o Data(f), Len(one) + 1, Len(one) + Len(Data(f)))
          = SubSeq(Data(f), 1, Len(Data(f)))
    <3>1. 1 \in Nat \ {0} /\ 1 <= Len(Data(f)) + 1
      BY <1>1, <1>4
    <3> QED
      BY <1>3, <1>4, <3>1, SecondPart
  <2>2. Len(one) + 1 = 2 /\ Len(one) + Len(Data(f)) = f.size + 1
    BY <1>1, <1>3, <1>4
  <2> QED
    BY <1>4, <2>1, <2>2
<1>7. SubSeq(Data(f), 1, f.size) = Data(f)
  BY <1>1, <1>4
<1>8. CASE f.kind = "int"
  BY <1>2, <1>8 DEF Appendix
<1>9. CASE f.kind # "int"
  BY <1>5, <1>6, <1>7, <1>9 DEF Appendix, one
<1> QED
  BY <1>8, <1>9

\* A field that is appended whole is read where the block ended.
LEMMA ReadLast ==
    ASSUME NEW cells \in Seq(ImCells), NEW f \in AllFields
    PROVE  ReadCell(cells \o Appendix(f), Len(cells), f.kind)
             = [ok |-> TRUE, data |-> Content(f), offset |-> Len(cells \o Appendix(f))]
<1> DEFINE more == Appendix(f)
<1> DEFINE all == cells \o more
<1>1. f.size \in Nat /\ f.val \in Int /\ more \in Seq(ImCells) /\ Len(more) >= 1
  BY AppendixIs DEF AllFields
<1>2. /\ all \in Seq(ImCells) /\ Len(all) = Len(cells) + Len(more) /\ Len(cells) \in Nat
      /\ \A i \in 1 .. Len(more) : all[Len(cells) + i] = more[i]
  BY <1>1, ConcatIs
<1>3. all[Len(cells) + 1] = more[1] /\ Len(cells) + 1 <= Len(all)
  BY <1>1, <1>2
<1>4. CASE f.kind = "int"
  <2>1. Len(more) = 1 /\ more[1] = <<"int", f.val>>
    BY <1>4, AppendixIs
  <2> HIDE DEF more, all
  <2>2. ReadCell(all, Len(cells), "int") = [ok |-> TRUE, data |-> <<f.val>>, offset |-> Len(cells) + 1]
    BY <1>2, <1>3, <2>1, ReadInt
  <2>3. ReadCell(all, Len(cells), f.kind) = [ok |-> TRUE, data |-> Content(f), offset |-> Len(all)]
    BY <1>2, <1>4, <2>1, <2>2 DEF Content
  <2> QED
    BY <2>3 DEF all, more
<1>5. CASE f.kind # "int"
  <2>1. /\ Len(more) = f.size + 1 /\ more[1] = <<"int", f.size>>
        /\ SubSeq(more, 2, f.size + 1) = Data(f)
    BY <1>5, AppendixIs
  <2>2. SubSeq(all, Len(cells) + 2, Len(cells) + Len(more)) = SubSeq(more, 2, Len(more))
    <3>1. 2 \in Nat \ {0} /\ 2 <= Len(more) + 1
      BY <1>1
    <3> QED
      BY <1>1, <3>1, SecondPart
  <2> HIDE DEF more, all
  <2>3. /\ all[Len(cells) + 1][2] = f.size
        /\ Len(cells) + 1 + f.size = Len(cells) + Len(more) /\ Len(cells) + 1 + f.size = Len(all)
    <3>1. all[Len(cells) + 1][2] = f.size
      BY <1>3, <2>1
    <3>2. Len(more) = f.size + 1
      BY <2>1
    <3>3. Len(all) = Len(cells) + Len(more) /\ Len(cells) \in Nat
      BY <1>2
    <3>5. f.size \in Nat
      BY <1>1
    <3>6. Len(cells) + 1 + f.size = Len(cells) + Len(more)
      <4>1. Len(cells) + Len(more) = Len(cells) + (f.size + 1)
        BY <3>2
      <4>2. Len(cells) + (f.size + 1) = Len(cells) + 1 + f.size
        BY <3>3, <3>5
      <4> QED
        BY <4>1, <4>2
    <3> QED
      BY <3>1, <3>3, <3>6
  <2>7. /\ all \in Seq(ImCells) /\ Len(cells) \in Nat /\ Len(cells) + 1 <= Len(all)
        /\ all[Len(cells) + 1][2] \in Nat /\ Len(cells) + 1 + all[Len(cells) + 1][2] <= Len(all)
    <3>1. all \in Seq(ImCells) /\ Len(cells) \in Nat /\ Len(cells) + 1 <= Len(all)
      BY <1>2, <1>3
    <3>2. Len(cells) + 1 + f.size <= Len(all)
      BY <1>1, <2>3, <3>1
    <3> QED
      BY <1>1, <2>3, <3>1, <3>2
  <2>4. ReadCell(all, Len(cells), f.kind)
          = [ok |-> TRUE, data |-> SubSeq(all, Len(cells) + 2, Len(cells) + 1 + all[Len(cells) + 1][2]),
             offset |-> Len(cells) + 1 + all[Len(cells) + 1][2]]
    BY <1>5, <2>7, ReadData
  <2>5. SubSeq(all, Len(cells) + 2, Len(cells) + 1 + f.size) = Data(f)
    <3>1. Len(more) = f.size + 1
      BY <2>1
    <3> QED
      BY <2>1, <2>2, <2>3, <3>1 DEF all
  <2>6. ReadCell(all, Len(cells), f.kind) = [ok |-> TRUE, data |-> Content(f), offset |-> Len(all)]
    BY <1>5, <2>3, <2>4, <2>5 DEF Content
  <2> QED
    BY <2>6 DEF all, more
<1> QED
  BY <1>4, <1>5

LEMMA ReadAppended ==
    ASSUME NEW b \in AllBlocks, NEW f \in AllFields, Readable(b)
    PROVE  Readable(Block(b.buf \o Appendix(f), Append(b.fields, f)))
<1> DEFINE c == Block(b.buf \o Appendix(f), Append(b.fields, f))
<1> DEFINE n == Len(b.fields)
<1>1. /\ b.buf \in Seq(ImCells) /\ b.fields \in Seq(AllFields) /\ n \in Nat
      /\ c.buf = b.buf \o Appendix(f) /\ c.fields = Append(b.fields, f)
      /\ Appendix(f) \in Seq(ImCells)
  BY AppendixIs DEF AllBlocks, Block
<1>2. PICK at \in [0 .. n -> Nat] : Offsets(b, at)
  BY DEF Readable
<1>3. /\ Len(c.fields) = n + 1 /\ c.fields[n + 1] = f
      /\ \A k \in 1 .. n : c.fields[k] = b.fields[k]
      /\ Len(c.buf) \in Nat
  BY <1>1, ConcatIs
<1>4. ReadCell(c.buf, Len(b.buf), f.kind)
        = [ok |-> TRUE, data |-> Content(f), offset |-> Len(c.buf)]
  BY <1>1, ReadLast
<1> HIDE DEF c
<1> DEFINE to == [k \in 0 .. (n + 1) |-> IF k <= n THEN at[k] ELSE Len(c.buf)]
<1>5. /\ to \in [0 .. (n + 1) -> Nat] /\ to[0] = 0 /\ to[n + 1] = Len(c.buf)
      /\ to[n] = Len(b.buf)
  BY <1>1, <1>2, <1>3 DEF Offsets
<1>6. ASSUME NEW k \in 1 .. n
      PROVE  ReadCell(c.buf, to[k - 1], c.fields[k].kind)
               = [ok |-> TRUE, data |-> Content(c.fields[k]), offset |-> to[k]]
  <2>1. k - 1 \in 0 .. n /\ k \in 0 .. n /\ k - 1 \in 0 .. (n + 1) /\ k \in 0 .. (n + 1)
    BY <1>1
  <2>2. /\ c.fields[k] = b.fields[k] /\ to[k - 1] = at[k - 1] /\ to[k] = at[k]
        /\ at[k - 1] \in Nat
    <3>1. c.fields[k] = b.fields[k]
      BY <1>2, <1>3
    <3>2. k - 1 <= n /\ k <= n
      BY <1>1
    <3>3. to[k - 1] = at[k - 1] /\ to[k] = at[k]
      BY <2>1, <3>2
    <3>4. at[k - 1] \in Nat
      BY <1>1, <1>2, <2>1 DEF Offsets
    <3> QED
      BY <3>1, <3>3, <3>4
  <2>3. ReadCell(b.buf, at[k - 1], b.fields[k].kind)
          = [ok |-> TRUE, data |-> Content(b.fields[k]), offset |-> at[k]]
    BY <1>2 DEF Offsets
  <2>4. ReadCell(b.buf, at[k - 1], b.fields[k].kind).ok
    BY <2>3
  <2>5. ReadCell(c.buf, at[k - 1], b.fields[k].kind) = ReadCell(b.buf, at[k - 1], b.fields[k].kind)
    BY <1>1, <2>2, <2>4, ReadKeeps
  <2> QED
    BY <2>2, <2>3, <2>5
<1>7. ASSUME NEW k \in 1 .. (n + 1)
      PROVE  ReadCell(c.buf, to[k - 1], c.fields[k].kind)
               = [ok |-> TRUE, data |-> Content(c.fields[k]), offset |-> to[k]]
  <2>1. CASE k = n + 1
    <3>1. k - 1 = n
      BY <1>1, <2>1
    <3> QED
      BY <1>3, <1>4, <1>5, <2>1, <3>1
  <2>2. CASE k # n + 1
    <3>1. k \in 1 .. n
      BY <1>1, <2>2
    <3> QED
      BY <1>6, <3>1
  <2> QED
    BY <2>1, <2>2
<1> HIDE DEF to
<1>8. Offsets(c, to)
  BY <1>3, <1>5, <1>7 DEF Offsets
<1>9. Readable(c)
  BY <1>3, <1>5, <1>8 DEF Readable
<1> QED
  BY <1>9 DEF c

\* A write call: an error leaves a block nobody reads.
LEMMA WriteKeeps ==
    ASSUME NEW b \in AllBlocks, NEW f \in Fields, Readable(b)
    PROVE  /\ Appended(b, f).block \in AllBlocks /\ Appended(b, f).err \in BOOLEAN
           /\ ~Appended(b, f).err => Readable(Appended(b, f).block)
<1>1. f \in AllFields /\ f.size \in Nat /\ f.val \in Int
  BY ImAssumption DEF AllFields
<1>2. b.buf \in Seq(ImCells) /\ b.fields \in Seq(AllFields) /\ Append(b.fields, f) \in Seq(AllFields)
  BY <1>1 DEF AllBlocks
<1>3. <<"int", f.val>> \in ImCells /\ <<"int", f.size>> \in ImCells
  BY <1>1 DEF ImCells
<1>4. Data(f) \in Seq(ImCells) /\ Appendix(f) \in Seq(ImCells) /\ b.buf \o Appendix(f) \in Seq(ImCells)
  BY <1>1, <1>2, DataIs, AppendixIs
<1> DEFINE whole == Block(b.buf \o Appendix(f), Append(b.fields, f))
<1>5. whole \in AllBlocks /\ Readable(whole)
  BY <1>1, <1>2, <1>4, ReadAppended DEF AllBlocks, Block
<1> DEFINE size == <<"int", f.size>>
<1>6. CASE f.kind = "int"
  <2>1. Append(b.buf, <<"int", f.val>>) = b.buf \o Appendix(f)
    <3>1. Append(b.buf, <<"int", f.val>>) = b.buf \o <<<<"int", f.val>>>>
      BY <1>2, <1>3, AppendIsConcat
    <3> QED
      BY <1>6, <3>1 DEF Appendix
  <2>2. Appended(b, f) = (IF FitsIn(b.buf, 1) THEN [block |-> whole, err |-> FALSE]
                                              ELSE [block |-> b, err |-> TRUE])
    BY <1>6, <2>1 DEF Appended
  <2> HIDE DEF whole
  <2> QED
    BY <1>5, <2>2
<1>7. CASE f.kind # "int"
  <2>1. Append(b.buf, size) \o Data(f) = b.buf \o (<<size>> \o Data(f))
    <3>1. Append(b.buf, size) = b.buf \o <<size>>
      BY <1>2, <1>3, AppendIsConcat
    <3>2. <<size>> \in Seq(ImCells)
      BY <1>3
    <3>3. (b.buf \o <<size>>) \o Data(f) = b.buf \o (<<size>> \o Data(f))
      <4> HIDE DEF size
      <4> QED
        <5>1. \A s, t, u \in Seq(ImCells) : (s \o t) \o u = s \o (t \o u)
          BY ConcatAssociative, SMTT(20)
        <5>2. b.buf \in Seq(ImCells) /\ Data(f) \in Seq(ImCells)
          BY <1>2, <1>4
        <5> QED
          BY <3>2, <5>1, <5>2
    <3> QED
      BY <3>1, <3>3
  <2>2. Append(b.buf, size) \o Data(f) = b.buf \o Appendix(f)
    BY <1>7, <2>1 DEF Appendix
  <2>3. Block(Append(b.buf, size), b.fields) \in AllBlocks
    BY <1>2, <1>3 DEF AllBlocks, Block
  <2>4. Appended(b, f) = (IF f.kind = "zip" /\ ZipCap < f.size
                          THEN [block |-> b, err |-> FALSE]
                          ELSE IF ~FitsIn(b.buf, 1) THEN [block |-> b, err |-> TRUE]
                          ELSE IF FitsIn(Append(b.buf, size), f.size)
                          THEN [block |-> whole, err |-> FALSE]
                          ELSE [block |-> Block(Append(b.buf, size), b.fields), err |-> TRUE])
    BY <1>7, <2>2 DEF Appended
  <2> HIDE DEF whole, size
  <2> QED
    BY <1>5, <2>3, <2>4
<1> QED
  BY <1>6, <1>7

-----------------------------------------------------------------------------
LEMMA InitMessage == imInit => MessageInv
<1> SUFFICES ASSUME imInit PROVE MessageInv
  OBVIOUS
<1>1. queue \in Seq(AllBlocks) /\ Len(queue) = 0 /\ 0 \in Nat /\ Blocks + 0 + 0 = Blocks
  BY ImAssumption DEF imInit
<1>2. NoBlockLost
  BY <1>1 DEF imInit, NoBlockLost
<1>3. \A m \in 1 .. Len(queue) : Readable(queue[m])
  BY <1>1
<1> QED
  BY <1>1, <1>2, <1>3, ImAssumption DEF imInit, MessageInv

LEMMA BeginKeeps == MessageInv /\ WriteBegin => MessageInv'
<1> SUFFICES ASSUME MessageInv, WriteBegin PROVE MessageInv'
  OBVIOUS
<1> DEFINE id == [kind |-> "int", val |-> begun, size |-> 0]
<1> DEFINE b == Block(<<<<"int", begun>>>>, <<id>>)
<1>1. begun \in Nat /\ begun' \in Nat /\ queue' = queue
  BY DEF MessageInv, WriteBegin
<1>2. b \in AllBlocks /\ b.buf = <<<<"int", begun>>>> /\ b.fields = <<id>>
  BY <1>1 DEF AllBlocks, Block, ImCells, AllFields
<1>3. Readable(b)
  <2> DEFINE at == [k \in 0 .. 1 |-> k]
  <2>1. Len(b.fields) = 1 /\ Len(b.buf) = 1 /\ b.fields[1] = id /\ b.buf[1] = <<"int", begun>>
    BY <1>2
  <2>2. ReadCell(b.buf, 0, "int") = [ok |-> TRUE, data |-> <<begun>>, offset |-> 1]
    <3>1. b.buf \in Seq(ImCells) /\ b.buf[0 + 1][2] = begun /\ 0 + 1 <= Len(b.buf) /\ 0 \in Nat
      <4> HIDE DEF b
      <4>1. b.buf \in Seq(ImCells)
        BY <1>2 DEF AllBlocks
      <4>2. 0 + 1 = 1 /\ 0 \in Nat
        OBVIOUS
      <4> QED
        BY <2>1, <4>1, <4>2
    <3> HIDE DEF b
    <3>2. ReadCell(b.buf, 0, "int") = [ok |-> TRUE, data |-> <<b.buf[0 + 1][2]>>, offset |-> 0 + 1]
      BY <3>1, ReadInt
    <3> QED
      BY <3>1, <3>2
  <2>3. Content(id) = <<begun>> /\ id.kind = "int"
    BY DEF Content
  <2>4. at \in [0 .. Len(b.fields) -> Nat] /\ at[0] = 0 /\ at[1] = 1
    BY <2>1
  <2> HIDE DEF at, b, id
  <2>5. ASSUME NEW k \in 1 .. Len(b.fields)
        PROVE  ReadCell(b.buf, at[k - 1], b.fields[k].kind)
                 = [ok |-> TRUE, data |-> Content(b.fields[k]), offset |-> at[k]]
    <3>1. k = 1 /\ k - 1 = 0
      BY <2>1
    <3> QED
      BY <2>1, <2>2, <2>3, <2>4, <3>1
  <2>6. Offsets(b, at)
    BY <2>1, <2>4, <2>5 DEF Offsets
  <2> QED
    BY <2>4, <2>6 DEF Readable
<1>4. CASE msg_send = NULL /\ freeBlocks = 0
  <2>1. UNCHANGED <<freeBlocks, msg_send, inScript, queue>>
    BY <1>4 DEF WriteBegin
  <2> QED
    BY <1>1, <2>1 DEF MessageInv, NoBlockLost
<1>5. CASE ~(msg_send = NULL /\ freeBlocks = 0)
  <2>1. /\ freeBlocks' = (IF msg_send = NULL THEN freeBlocks - 1 ELSE freeBlocks)
        /\ msg_send' = b /\ inScript' = TRUE
    BY <1>5 DEF WriteBegin
  <2>2. b # NULL
    BY <1>2, ImAssumption
  <2>3. freeBlocks' \in Nat /\ NoBlockLost'
    <3>1. /\ freeBlocks \in Nat /\ queue' = queue /\ Len(queue) \in Nat
          /\ freeBlocks + Len(queue) + (IF msg_send = NULL THEN 0 ELSE 1) = Blocks
      BY <1>1 DEF MessageInv, NoBlockLost
    <3> HIDE DEF b
    <3>2. CASE msg_send = NULL
      <4>1. freeBlocks' = freeBlocks - 1 /\ freeBlocks # 0
        BY <1>5, <2>1, <3>2
      <4>2. freeBlocks' \in Nat /\ freeBlocks' + Len(queue) + 1 = Blocks
        BY <3>1, <3>2, <4>1
      <4> QED
        BY <2>1, <2>2, <3>1, <4>2 DEF NoBlockLost
    <3>3. CASE msg_send # NULL
      <4>1. freeBlocks' = freeBlocks
        BY <2>1, <3>3
      <4> QED
        BY <2>1, <2>2, <3>1, <3>3, <4>1 DEF NoBlockLost
    <3> QED
      BY <3>2, <3>3
  <2> HIDE DEF b
  <2> QED
    BY <1>1, <1>2, <1>3, <2>1, <2>2, <2>3 DEF MessageInv
<1> QED
  BY <1>4, <1>5

LEMMA StepMessage == MessageInv /\ [imNext]_imVars => MessageInv'
<1> SUFFICES ASSUME MessageInv, [imNext]_imVars PROVE MessageInv'
  OBVIOUS
<1>1. CASE WriteBegin
  BY <1>1, BeginKeeps
<1>2. CASE ScriptFails
  BY <1>2 DEF ScriptFails, MessageInv, NoBlockLost
<1>3. CASE WriteEnd
  <2>1. /\ msg_send \in AllBlocks /\ Readable(msg_send) /\ msg_send # NULL
        /\ queue' = Append(queue, msg_send) /\ msg_send' = NULL /\ inScript' = FALSE
        /\ UNCHANGED <<freeBlocks, begun>>
    BY <1>3 DEF WriteEnd, MessageInv
  <2>2. /\ queue' \in Seq(AllBlocks) /\ Len(queue') = Len(queue) + 1
        /\ \A m \in 1 .. Len(queue') :
              queue'[m] = IF m <= Len(queue) THEN queue[m] ELSE msg_send
    BY <2>1 DEF MessageInv
  <2>3. NoBlockLost'
    BY <2>1, <2>2 DEF MessageInv, NoBlockLost
  <2>4. \A m \in 1 .. Len(queue') : Readable(queue'[m])
    BY <2>1, <2>2 DEF MessageInv
  <2> QED
    BY <2>1, <2>2, <2>3, <2>4 DEF MessageInv
<1>4. CASE Sent
  <2>1. /\ queue' = Tail(queue) /\ queue # <<>> /\ freeBlocks' = freeBlocks + 1
        /\ UNCHANGED <<msg_send, inScript, begun>>
    BY <1>4 DEF Sent
  <2>2. /\ queue' \in Seq(AllBlocks) /\ Len(queue') = Len(queue) - 1 /\ Len(queue) >= 1
        /\ \A m \in 1 .. Len(queue') : queue'[m] = queue[m + 1]
    BY <2>1 DEF MessageInv
  <2>3. freeBlocks' \in Nat /\ NoBlockLost'
    BY <2>1, <2>2 DEF MessageInv, NoBlockLost
  <2>4. \A m \in 1 .. Len(queue') : Readable(queue'[m])
    BY <2>1, <2>2 DEF MessageInv
  <2> QED
    BY <2>1, <2>2, <2>3, <2>4 DEF MessageInv
<1>5. ASSUME NEW f \in Fields, WriteOf(f) PROVE MessageInv'
  <2>1. msg_send \in AllBlocks /\ Readable(msg_send) /\ msg_send # NULL
    BY <1>5 DEF WriteOf, MessageInv
  <2>2. /\ msg_send' = Appended(msg_send, f).block /\ inScript' = ~Appended(msg_send, f).err
        /\ UNCHANGED <<freeBlocks, queue, begun>>
    BY <1>5 DEF WriteOf
  <2>3. /\ msg_send' \in AllBlocks /\ inScript' \in BOOLEAN
        /\ inScript' => Readable(msg_send')
    BY <2>1, <2>2, WriteKeeps
  <2>4. msg_send' # NULL
    BY <2>3, ImAssumption
  <2> QED
    BY <2>1, <2>2, <2>3, <2>4 DEF MessageInv, NoBlockLost
<1>6. CASE UNCHANGED imVars
  BY <1>6 DEF imVars, MessageInv, NoBlockLost
<1> QED
  BY <1>1, <1>2, <1>3, <1>4, <1>5, <1>6 DEF imNext

LEMMA SmallestOf ==
    ASSUME NEW S \in SUBSET Nat, S # {}
    PROVE  \E i \in S : \A j \in S : i <= j
<1> DEFINE R == StrictSubsetOrdering(Nat)
           F == FiniteSubsetsOf(Nat)
           T == {0 .. i : i \in S}
<1>1. T \subseteq F
  <2> SUFFICES ASSUME NEW i \in S PROVE 0 .. i \in F
    OBVIOUS
  <2>1. i \in Int /\ 0 .. i \subseteq Nat
    OBVIOUS
  <2>2. IsFiniteSet(0 .. i)
    BY <2>1, FS_Interval
  <2> QED
    BY <2>1, <2>2 DEF FiniteSubsetsOf
<1>2. T # {}
  OBVIOUS
<1>3. IsWellFoundedOn(R, F)
  BY FS_StrictSubsetOrderingWellFounded
<1> HIDE DEF R, F
<1>4. PICK x \in T : \A y \in T : ~(<<y, x>> \in R)
  BY <1>1, <1>2, <1>3, WFMin
<1>5. PICK i \in S : x = 0 .. i
  BY <1>4
<1>6. ASSUME NEW j \in S, j < i PROVE FALSE
  <2>1. /\ 0 .. j \subseteq 0 .. i /\ i \in 0 .. i /\ i \notin 0 .. j
        /\ 0 .. j \subseteq Nat /\ 0 .. i \subseteq Nat
    BY <1>6
  <2>2. <<0 .. j, 0 .. i>> \in R
    BY <2>1 DEF R, StrictSubsetOrdering
  <2>3. 0 .. j \in T
    OBVIOUS
  <2> QED
    BY <1>4, <1>5, <2>2, <2>3
<1> QED
  BY <1>6

\* A function that is built the way OffsetAfter builds its own.
Built(b, k, g) ==
    g = [i \in 0 .. k |->
           IF i = 0 THEN 0 ELSE ReadCell(b.buf, g[i - 1], b.fields[i].kind).offset]

\* There is one such function only.
LEMMA BuiltOnce ==
    ASSUME NEW b, NEW k \in Nat, NEW g, NEW h, Built(b, k, g), Built(b, k, h)
    PROVE  g[k] = h[k]
<1> DEFINE Bad == {i \in 0 .. k : g[i] # h[i]}
<1>1. /\ g[0] = 0 /\ h[0] = 0
      /\ \A i \in 1 .. k : /\ g[i] = ReadCell(b.buf, g[i - 1], b.fields[i].kind).offset
                           /\ h[i] = ReadCell(b.buf, h[i - 1], b.fields[i].kind).offset
  BY DEF Built
<1>2. SUFFICES ASSUME g[k] # h[k] PROVE FALSE
  OBVIOUS
<1>3. PICK i \in Bad : \A j \in Bad : i <= j
  <2>1. k \in Bad /\ Bad \in SUBSET Nat
    BY <1>2
  <2> HIDE DEF Bad
  <2> QED
    BY <2>1, SmallestOf
<1>4. i # 0
  BY <1>1
<1>5. i - 1 \in 0 .. k /\ i - 1 \notin Bad /\ i \in 1 .. k
  BY <1>3, <1>4
<1> QED
  BY <1>1, <1>3, <1>5

\* Offsets that fit are those OffsetAfter computes.
LEMMA OffsetIs ==
    ASSUME NEW b \in AllBlocks, NEW at, Offsets(b, at), NEW k \in 0 .. Len(b.fields)
    PROVE  OffsetAfter(b, k) = at[k]
<1> DEFINE g == [i \in 0 .. k |-> at[i]]
<1>0. k \in Nat /\ Len(b.fields) \in Nat /\ k <= Len(b.fields)
  BY DEF AllBlocks
<1>1. Built(b, k, g)
  <2>1. ASSUME NEW i \in 0 .. k
        PROVE  g[i] = IF i = 0 THEN 0 ELSE ReadCell(b.buf, g[i - 1], b.fields[i].kind).offset
    <3>1. CASE i = 0
      BY <3>1 DEF Offsets
    <3>2. CASE i # 0
      <4>1. i \in 1 .. Len(b.fields) /\ i - 1 \in 0 .. k
        BY <1>0, <3>2
      <4>2. ReadCell(b.buf, at[i - 1], b.fields[i].kind)
              = [ok |-> TRUE, data |-> Content(b.fields[i]), offset |-> at[i]]
        BY <4>1 DEF Offsets
      <4>3. ReadCell(b.buf, at[i - 1], b.fields[i].kind).offset = at[i]
        BY <4>2
      <4> QED
        BY <3>2, <4>1, <4>3
    <3> QED
      BY <3>1, <3>2
  <2> QED
    BY <2>1 DEF Built
<1>2. PICK h : OffsetAfter(b, k) = h[k] /\ Built(b, k, h)
  <2> DEFINE h == CHOOSE f : f = [i \in 0 .. k |->
           IF i = 0 THEN 0 ELSE ReadCell(b.buf, f[i - 1], b.fields[i].kind).offset]
  <2>1. Built(b, k, h)
    BY <1>1 DEF Built
  <2>2. OffsetAfter(b, k) = h[k]
    BY DEF OffsetAfter
  <2> QED
    BY <2>1, <2>2
<1>3. g[k] = h[k]
  BY <1>0, <1>1, <1>2, BuiltOnce
<1> QED
  BY <1>0, <1>2, <1>3

LEMMA ReadableTells ==
    ASSUME NEW b \in AllBlocks, Readable(b)
    PROVE  /\ OffsetAfter(b, Len(b.fields)) = Len(b.buf)
           /\ \A k \in 1 .. Len(b.fields) :
                 ReadCell(b.buf, OffsetAfter(b, k - 1), b.fields[k].kind).data
                   = Content(b.fields[k])
<1>1. PICK at \in [0 .. Len(b.fields) -> Nat] : Offsets(b, at)
  BY DEF Readable
<1>2. Len(b.fields) \in Nat
  BY DEF AllBlocks
<1>3. \A k \in 0 .. Len(b.fields) : OffsetAfter(b, k) = at[k]
  BY <1>1, OffsetIs
<1>4. Len(b.fields) \in 0 .. Len(b.fields) /\ \A k \in 1 .. Len(b.fields) : k - 1 \in 0 .. Len(b.fields)
  BY <1>2
<1>5. at[Len(b.fields)] = Len(b.buf)
  BY <1>1 DEF Offsets
<1>6. ASSUME NEW k \in 1 .. Len(b.fields)
      PROVE  ReadCell(b.buf, OffsetAfter(b, k - 1), b.fields[k].kind).data = Content(b.fields[k])
  <2>1. OffsetAfter(b, k - 1) = at[k - 1]
    BY <1>3, <1>4
  <2>2. ReadCell(b.buf, at[k - 1], b.fields[k].kind)
          = [ok |-> TRUE, data |-> Content(b.fields[k]), offset |-> at[k]]
    BY <1>1 DEF Offsets
  <2>3. ReadCell(b.buf, at[k - 1], b.fields[k].kind).data = Content(b.fields[k])
    BY <2>2
  <2> QED
    BY <2>1, <2>3
<1> QED
  BY <1>3, <1>4, <1>5, <1>6

(***************************************************************************)
(* Every message of the link that leaves is read back as its script wrote  *)
(* it, and scripts that fail cost one block at most                        *)
(* (msg_inner_parse.h:316-511).                                            *)
(***************************************************************************)
THEOREM MessagesSafe == imSpec => []MessagesKept
<1>1. ASSUME MessageInv PROVE MessagesKept
  <2>1. ASSUME NEW m \in 1 .. Len(queue)
        PROVE  LET b == queue[m]
               IN  /\ OffsetAfter(b, Len(b.fields)) = Len(b.buf)
                   /\ \A k \in 1 .. Len(b.fields) :
                        LET f == b.fields[k]
                        IN  ReadCell(b.buf, OffsetAfter(b, k - 1), f.kind).data
                              = (IF f.kind = "int" THEN <<f.val>> ELSE Data(f))
    <3>1. queue[m] \in AllBlocks /\ Readable(queue[m])
      BY <1>1 DEF MessageInv
    <3> QED
      BY <3>1, ReadableTells DEF Content
  <2> QED
    BY <1>1, <2>1 DEF MessageInv, MessagesKept, SentAsWritten
<1> QED
  BY InitMessage, StepMessage, <1>1, PTL DEF imSpec

-----------------------------------------------------------------------------
(* Recursive functions: their equations, and induction over their turns. *)

\* Induction over the naturals, for the members of a set.
LEMMA AllNaturals ==
    ASSUME NEW S, 0 \in S, \A n \in Nat : n \in S => n + 1 \in S
    PROVE  \A n \in Nat : n \in S
<1> DEFINE Bad == {n \in Nat : n \notin S}
<1> SUFFICES ASSUME Bad # {} PROVE FALSE
  OBVIOUS
<1>1. PICK i \in Bad : \A j \in Bad : i <= j
  BY SmallestOf
<1>2. i # 0 /\ i \in Nat /\ i \notin S
  BY <1>1
<1>3. i - 1 \in Nat /\ i - 1 \notin Bad /\ (i - 1) + 1 = i
  BY <1>1, <1>2
<1>4. i - 1 \in S
  BY <1>3
<1> DEFINE k == i - 1
<1>5. k \in Nat /\ k \in S /\ k + 1 = i
  BY <1>3, <1>4
<1> HIDE DEF k, Bad
<1> QED
  BY <1>2, <1>5

\* The first n values of a step taken again and again.
FirstTurns(n, g, base, step, V) ==
    /\ g \in [0 .. n -> V] /\ g[0] = base
    /\ \A k \in 1 .. n : g[k] = step[k][g[k - 1]]

\* Two functions built by the same steps agree as far as both reach.
LEMMA TurnsAgree ==
    ASSUME NEW V, NEW base \in V, NEW step \in [Nat -> [V -> V]],
           NEW m \in Nat, NEW n \in Nat, NEW g, NEW h,
           FirstTurns(m, g, base, step, V), FirstTurns(n, h, base, step, V),
           NEW i \in Nat, i <= m, i <= n
    PROVE  g[i] = h[i]
<1> DEFINE S == {k \in Nat : k <= m /\ k <= n => g[k] = h[k]}
<1>1. 0 \in S
  BY DEF FirstTurns
<1>2. ASSUME NEW k \in Nat, k \in S PROVE k + 1 \in S
  <2> SUFFICES ASSUME k + 1 <= m, k + 1 <= n PROVE g[k + 1] = h[k + 1]
    OBVIOUS
  <2>1. g[k] = h[k]
    BY <1>2
  <2> DEFINE j == k + 1
  <2>2. j \in 1 .. m /\ j \in 1 .. n /\ j - 1 = k
    OBVIOUS
  <2> HIDE DEF j
  <2>3. g[j] = step[j][g[j - 1]] /\ h[j] = step[j][h[j - 1]]
    BY <2>2 DEF FirstTurns
  <2> QED
    BY <2>1, <2>2, <2>3 DEF j
<1>3. \A k \in Nat : k \in S
  <2> HIDE DEF S
  <2> QED
    BY <1>1, <1>2, AllNaturals
<1> QED
  BY <1>3

\* A step from any value can be taken again and again.
AllTurns(f, base, step, V) ==
    /\ f \in [Nat -> V] /\ f[0] = base
    /\ \A n \in Nat : f[n + 1] = step[n + 1][f[n]]

\* A step can be taken for ever: what a recursive function is built on.
LEMMA TurnsExist ==
    ASSUME NEW V, NEW base \in V, NEW step \in [Nat -> [V -> V]]
    PROVE  \E f : AllTurns(f, base, step, V)
<1> DEFINE S == {n \in Nat : \E g : FirstTurns(n, g, base, step, V)}
<1>1. 0 \in S
  <2>1. FirstTurns(0, [k \in 0 .. 0 |-> base], base, step, V)
    BY DEF FirstTurns
  <2> QED
    BY <2>1
<1>2. ASSUME NEW n \in Nat, n \in S PROVE n + 1 \in S
  <2>1. PICK g : FirstTurns(n, g, base, step, V)
    BY <1>2
  <2> DEFINE h == [k \in 0 .. n + 1 |-> IF k <= n THEN g[k] ELSE step[n + 1][g[n]]]
  <2>2. g \in [0 .. n -> V] /\ g[n] \in V /\ step[n + 1][g[n]] \in V
    BY <2>1 DEF FirstTurns
  <2>3. h \in [0 .. n + 1 -> V] /\ h[0] = base
    BY <2>1, <2>2 DEF FirstTurns
  <2>4. ASSUME NEW k \in 1 .. n + 1 PROVE h[k] = step[k][h[k - 1]]
    <3>1. CASE k <= n
      <4>1. k \in 1 .. n /\ k - 1 \in 0 .. n /\ k - 1 <= n
        BY <3>1
      <4>2. h[k] = g[k] /\ h[k - 1] = g[k - 1]
        BY <4>1
      <4> QED
        BY <2>1, <4>1, <4>2 DEF FirstTurns
    <3>2. CASE k > n
      <4>1. k = n + 1 /\ k - 1 = n /\ n \in 0 .. n + 1 /\ n + 1 \in 0 .. n + 1 /\ ~(n + 1 <= n)
        BY <3>2
      <4>2. h[k] = step[n + 1][g[n]] /\ h[k - 1] = g[n]
        BY <4>1
      <4> QED
        BY <4>1, <4>2
    <3> QED
      BY <3>1, <3>2
  <2>5. FirstTurns(n + 1, h, base, step, V)
    <3> HIDE DEF h
    <3> QED
      BY <2>3, <2>4 DEF FirstTurns
  <2> QED
    BY <2>5
<1>3. \A n \in Nat : n \in S
  <2> HIDE DEF S
  <2> QED
    BY <1>1, <1>2, AllNaturals
<1> DEFINE G(n) == CHOOSE g : FirstTurns(n, g, base, step, V)
           f == [n \in Nat |-> G(n)[n]]
<1>4. ASSUME NEW n \in Nat PROVE FirstTurns(n, G(n), base, step, V)
  BY <1>3
<1> HIDE DEF S, G
<1>5. f \in [Nat -> V]
  <2> SUFFICES ASSUME NEW n \in Nat PROVE G(n)[n] \in V
    OBVIOUS
  <2>1. G(n) \in [0 .. n -> V] /\ n \in 0 .. n
    BY <1>4 DEF FirstTurns
  <2> QED
    BY <2>1
<1>6. f[0] = base
  BY <1>4 DEF FirstTurns
<1>7. ASSUME NEW n \in Nat PROVE f[n + 1] = step[n + 1][f[n]]
  <2> DEFINE j == n + 1
  <2>1. j \in Nat /\ j \in 1 .. j /\ j - 1 = n /\ n <= j /\ n <= n
    OBVIOUS
  <2> HIDE DEF j
  <2>2. G(j)[j] = step[j][G(j)[j - 1]]
    BY <1>4, <2>1 DEF FirstTurns
  <2>3. G(j)[n] = G(n)[n]
    <3> DEFINE g == G(j)
               h == G(n)
    <3>1. FirstTurns(j, g, base, step, V) /\ FirstTurns(n, h, base, step, V)
      BY <1>4, <2>1
    <3> HIDE DEF g, h
    <3>2. g[n] = h[n]
      BY <2>1, <3>1, TurnsAgree
    <3> QED
      BY <3>2 DEF g, h
  <2>4. f[j] = G(j)[j] /\ f[n] = G(n)[n]
    BY <2>1
  <2> QED
    BY <2>1, <2>2, <2>3, <2>4 DEF j
<1> QED
  BY <1>5, <1>6, <1>7 DEF AllTurns

-----------------------------------------------------------------------------
(* Lz77 *)

\* The least element of a set of numbers is one of them.
LEMMA MinOf ==
    ASSUME NEW S \in SUBSET Nat, S # {}
    PROVE  Min(S) \in S /\ \A x \in S : Min(S) <= x
BY SmallestOf DEF Min

\* The greatest element of a set of bounded numbers is one of them.
LEMMA MaxOf ==
    ASSUME NEW S \in SUBSET Nat, S # {}, NEW b \in Nat, \A x \in S : x <= b
    PROVE  Max(S) \in S /\ \A x \in S : x <= Max(S)
<1> DEFINE T == {b - x : x \in S}
<1>1. T \in SUBSET Nat /\ T # {}
  <2>1. ASSUME NEW x \in S PROVE b - x \in Nat
    BY x \in Nat
  <2> QED
    BY <2>1
<1>2. PICK t \in T : \A u \in T : t <= u
  BY <1>1, SmallestOf
<1>3. PICK y \in S : t = b - y
  BY <1>2
<1>4. ASSUME NEW x \in S PROVE x <= y
  <2>1. b - x \in T /\ x \in Nat /\ y \in Nat
    OBVIOUS
  <2>2. b - y <= b - x
    BY <1>2, <1>3, <2>1
  <2> QED
    BY <2>1, <2>2
<1> QED
  BY <1>4 DEF Max

-----------------------------------------------------------------------------
(* Lz77 *)

\* The bytes lz77.h works on.
Byte == 0 .. ByteMax

\* A match that is recorded lies in the input and repeats what is d before.
LEMMA RunIs ==
    ASSUME NEW s \in Seq(Byte), NEW i \in 1 .. Len(s), NEW d \in 1 .. i - 1
    PROVE  /\ RunLen(s, i, d) \in 0 .. MaxRun
           /\ RunLen(s, i, d) < MaxRun =>
                 /\ i + RunLen(s, i, d) <= Len(s) + 1
                 /\ \A k \in 0 .. RunLen(s, i, d) - 1 : s[i + k] = s[i + k - d]
<1> DEFINE differs(k) == Len(s) < i + k \/ s[i + k] # s[i + k - d]
           D == {k \in 0 .. MaxRun - 1 : differs(k)}
           r == RunLen(s, i, d)
<1>0. MaxRun \in Nat /\ MaxRun >= 3 /\ Len(s) \in Nat
  BY LzAssumption
<1>1. r = IF \E k \in 0 .. MaxRun - 1 : differs(k) THEN Min(D) ELSE MaxRun
  BY DEF RunLen
<1> HIDE DEF r
<1>2. CASE D = {}
  <2>1. r = MaxRun
    BY <1>1, <1>2
  <2> QED
    BY <1>0, <2>1 DEF r
<1>3. CASE D # {}
  <2>1. D \in SUBSET Nat
    BY <1>0
  <2>2. r = Min(D)
    BY <1>1, <1>3
  <2>3. r \in D /\ \A k \in D : r <= k
    <3> HIDE DEF D
    <3> QED
      BY <1>3, <2>1, <2>2, MinOf
  <2>4. r \in 0 .. MaxRun - 1
    BY <2>3
  <2>5. ASSUME NEW k \in 0 .. r - 1 PROVE i + k <= Len(s) /\ s[i + k] = s[i + k - d]
    <3>1. k \in 0 .. MaxRun - 1 /\ k \notin D
      BY <1>0, <2>3, <2>4
    <3>2. ~differs(k)
      BY <3>1
    <3> QED
      BY <1>0, <3>1, <3>2
  <2>6. i + r <= Len(s) + 1
    <3>1. CASE r = 0
      BY <1>0, <3>1
    <3>2. CASE r # 0
      <4>1. r - 1 \in 0 .. r - 1
        BY <2>4, <3>2
      <4>2. i + (r - 1) <= Len(s)
        BY <2>5, <4>1
      <4> QED
        BY <1>0, <2>4, <4>2
    <3> QED
      BY <3>1, <3>2
  <2> QED
    BY <1>0, <2>4, <2>5, <2>6 DEF r
<1> QED
  BY <1>2, <1>3

\* The distances that are tried, without a minimum.
LEMMA DistancesAre ==
    ASSUME NEW i \in Nat \ {0}
    PROVE  Distances(i) = {d \in 1 .. Window : d <= i - 1}
<1>1. Window \in Nat
  BY LzAssumption
<1> DEFINE S == {Window, i - 1}
<1>2. S \in SUBSET Nat /\ S # {}
  BY <1>1
<1>3. Min(S) \in S /\ \A x \in S : Min(S) <= x
  <2> HIDE DEF S
  <2> QED
    BY <1>2, MinOf
<1>4. Distances(i) = 1 .. Min(S)
  BY DEF Distances
<1>5. /\ Min(S) = Window \/ Min(S) = i - 1
      /\ Min(S) <= Window /\ Min(S) <= i - 1
  BY <1>3
<1> DEFINE m == Min(S)
<1> HIDE DEF m
<1>6. m = Window \/ m = i - 1
  BY <1>5 DEF m
<1>7. m <= Window /\ m <= i - 1
  BY <1>5 DEF m
<1>8. 1 .. m = {d \in 1 .. Window : d <= i - 1}
  BY <1>1, <1>6, <1>7
<1> QED
  BY <1>4, <1>8 DEF m

\* The match that is taken is one of those recorded, and none is too long.
LEMMA LongestIs ==
    ASSUME NEW s \in Seq(Byte), NEW i \in 1 .. Len(s)
    PROVE  LET m == Longest(s, i)
           IN  /\ m = <<m[1], m[2]>> /\ m[1] \in 0 .. MaxRun - 1
               /\ m[1] > 2 => m[2] \in Distances(i) /\ RunLen(s, i, m[2]) = m[1]
<1> DEFINE runs == {<<RunLen(s, i, d), d>> : d \in Distances(i)}
           recorded == {r \in runs : r[1] < MaxRun} \cup {<<0, 0>>}
           L == {r[1] : r \in recorded}
           longest == Max(L)
           N == {r[2] : r \in {x \in recorded : x[1] = longest}}
<1>0. MaxRun \in Nat /\ MaxRun >= 3 /\ Len(s) \in Nat /\ i \in Nat \ {0}
  BY LzAssumption
<1>1. \A d \in Distances(i) : d \in 1 .. i - 1
  <2> SUFFICES ASSUME NEW d \in Distances(i) PROVE d \in 1 .. i - 1
    OBVIOUS
  <2>1. d \in 1 .. Window /\ d <= i - 1
    BY <1>0, DistancesAre
  <2>2. Window \in Nat
    BY LzAssumption
  <2> QED
    BY <1>0, <2>1, <2>2
<1>2. \A r \in recorded : r[1] \in 0 .. MaxRun - 1 /\ r[2] \in Nat
  <2> SUFFICES ASSUME NEW r \in recorded PROVE r[1] \in 0 .. MaxRun - 1 /\ r[2] \in Nat
    OBVIOUS
  <2>1. CASE r = <<0, 0>>
    BY <1>0, <2>1
  <2>2. CASE r # <<0, 0>>
    <3>1. PICK d \in Distances(i) : r = <<RunLen(s, i, d), d>>
      BY <2>2
    <3>2. r[1] < MaxRun
      BY <2>2
    <3>3. d \in 1 .. i - 1
      BY <1>1
    <3>4. RunLen(s, i, d) \in 0 .. MaxRun
      BY <3>3, RunIs
    <3> QED
      BY <1>0, <3>1, <3>2, <3>3, <3>4
  <2> QED
    BY <2>1, <2>2
<1>3. <<0, 0>> \in recorded
  OBVIOUS
<1>4. Longest(s, i) = <<longest, Min(N)>>
  BY DEF Longest
<1>5. ASSUME NEW r \in recorded, r[1] > 2
      PROVE  \E d \in Distances(i) : r = <<RunLen(s, i, d), d>>
  <2>1. r # <<0, 0>>
    BY <1>5
  <2> QED
    BY <2>1
<1> HIDE DEF recorded
<1>6. longest \in L /\ longest \in 0 .. MaxRun - 1
  <2>1. L \in SUBSET Nat /\ L # {} /\ MaxRun \in Nat /\ \A x \in L : x <= MaxRun
    BY <1>0, <1>2, <1>3
  <2>2. longest \in L
    <3> HIDE DEF L
    <3> QED
      BY <2>1, MaxOf
  <2> QED
    BY <1>2, <2>2
<1> HIDE DEF longest
<1>7. Min(N) \in N
  <2>1. N \in SUBSET Nat /\ N # {}
    BY <1>2, <1>6
  <2> HIDE DEF N
  <2> QED
    BY <2>1, MinOf
<1> DEFINE nearest == Min(N)
<1>8. PICK r \in recorded : r[1] = longest /\ r[2] = nearest
  BY <1>7
<1> HIDE DEF nearest
<1>9. ASSUME longest > 2 PROVE nearest \in Distances(i) /\ RunLen(s, i, nearest) = longest
  <2>1. PICK d \in Distances(i) : r = <<RunLen(s, i, d), d>>
    BY <1>5, <1>8, <1>9
  <2> QED
    BY <1>8, <2>1
<1>10. Longest(s, i) = <<longest, nearest>>
  BY <1>4 DEF nearest
<1> QED
  BY <1>6, <1>9, <1>10

\* What a turn of zip writes: a stretch, an escaped mark or a byte.
Stretch(s, i, len, d) ==
    /\ i + len <= Len(s) + 1 /\ d <= i - 1
    /\ \A k \in 0 .. len - 1 : s[i + k] = s[i + k - d]

\* What a turn of zip writes: a stretch whose bytes fit, an escape or a byte.
LEMMA TokenIs ==
    ASSUME NEW s \in Seq(Byte), NEW i \in 1 .. Len(s)
    PROVE  \/ \E len \in 3 .. MaxRun - 1, d \in 1 .. Window :
                 /\ len - 2 \in 1 .. ByteMax /\ d - 1 \in Byte
                 /\ Stretch(s, i, len, d)
                 /\ Token(s, i) = [out |-> <<Sp, len - 2, d - 1>>, used |-> len]
           \/ s[i] = Sp /\ Token(s, i) = [out |-> <<Sp, 0>>, used |-> 1]
           \/ s[i] # Sp /\ Token(s, i) = [out |-> <<s[i]>>, used |-> 1]
<1> DEFINE m == Longest(s, i)
<1>0. /\ MaxRun \in Nat /\ MaxRun <= ByteMax + 3 /\ Len(s) \in Nat /\ i \in Nat \ {0}
      /\ ByteMax \in Nat /\ Window \in Nat /\ Window <= ByteMax + 1
  BY LzAssumption
<1>1. /\ m[1] \in 0 .. MaxRun - 1
      /\ m[1] > 2 => m[2] \in Distances(i) /\ RunLen(s, i, m[2]) = m[1]
  BY LongestIs
<1>2. Token(s, i) =
        IF 2 < m[1] THEN [out |-> <<Sp, Char(m[1] - 2), Char(m[2] - 1)>>, used |-> m[1]]
        ELSE IF s[i] = Sp THEN [out |-> <<Sp, 0>>, used |-> 1]
        ELSE [out |-> <<s[i]>>, used |-> 1]
  BY DEF Token
<1> HIDE DEF m
<1>3. CASE 2 < m[1]
  <2> DEFINE len == m[1]
             d == m[2]
  <2>1. len \in 3 .. MaxRun - 1 /\ d \in Distances(i) /\ RunLen(s, i, d) = len
    BY <1>0, <1>1, <1>3
  <2> HIDE DEF len, d
  <2>2. d \in 1 .. Window /\ d <= i - 1
    BY <1>0, <2>1, DistancesAre
  <2>3. d \in 1 .. i - 1 /\ len < MaxRun
    BY <1>0, <2>1, <2>2
  <2>4. i + len <= Len(s) + 1 /\ \A k \in 0 .. len - 1 : s[i + k] = s[i + k - d]
    BY <2>1, <2>3, RunIs
  <2>5. Stretch(s, i, len, d)
    BY <2>2, <2>4 DEF Stretch
  <2>6. len - 2 \in 1 .. ByteMax /\ d - 1 \in 0 .. ByteMax
    BY <1>0, <2>1, <2>2
  <2>7. \A n \in 0 .. ByteMax : Char(n) = n
    BY <1>0 DEF Char
  <2>8. len - 2 \in 0 .. ByteMax
    BY <1>0, <2>6
  <2>9. Char(len - 2) = len - 2 /\ Char(d - 1) = d - 1
    BY <2>6, <2>7, <2>8
  <2>10. Token(s, i) = [out |-> <<Sp, len - 2, d - 1>>, used |-> len]
    BY <1>2, <1>3, <2>9 DEF len, d
  <2> QED
    BY <2>1, <2>2, <2>5, <2>6, <2>10 DEF Byte
<1>4. CASE ~(2 < m[1])
  BY <1>2, <1>4
<1> QED
  BY <1>3, <1>4

\* It reads on, within the input, and writes at most twice what it reads.
LEMMA TokenFits ==
    ASSUME NEW s \in Seq(Byte), NEW i \in 1 .. Len(s)
    PROVE  /\ Token(s, i).out \in Seq(Byte) /\ Token(s, i).used \in Nat \ {0}
           /\ Len(Token(s, i).out) \in 1 .. 3 /\ i + Token(s, i).used <= Len(s) + 1
           /\ Len(Token(s, i).out) <= 2 * Token(s, i).used
<1>0. MaxRun \in Nat /\ Sp \in Byte /\ 0 \in Byte /\ Len(s) \in Nat
  BY LzAssumption DEF Byte
<1>1. CASE s[i] = Sp /\ Token(s, i) = [out |-> <<Sp, 0>>, used |-> 1]
  <2>1. <<Sp, 0>> \in Seq(Byte) /\ Len(<<Sp, 0>>) = 2
    BY <1>0
  <2> QED
    BY <1>0, <1>1, <2>1
<1>2. CASE s[i] # Sp /\ Token(s, i) = [out |-> <<s[i]>>, used |-> 1]
  <2>1. <<s[i]>> \in Seq(Byte) /\ Len(<<s[i]>>) = 1
    <3>1. s[i] \in Byte
      BY EmptyIs
    <3> QED
      BY <3>1
  <2> QED
    BY <1>0, <1>2, <2>1
<1>3. ASSUME NEW len \in 3 .. MaxRun - 1, NEW d \in 1 .. Window,
             len - 2 \in 1 .. ByteMax, d - 1 \in Byte, Stretch(s, i, len, d),
             Token(s, i) = [out |-> <<Sp, len - 2, d - 1>>, used |-> len]
      PROVE  /\ Token(s, i).out \in Seq(Byte) /\ Token(s, i).used \in Nat \ {0}
             /\ Len(Token(s, i).out) \in 1 .. 3 /\ i + Token(s, i).used <= Len(s) + 1
             /\ Len(Token(s, i).out) <= 2 * Token(s, i).used
  <2> DEFINE a == len - 2
             b == d - 1
  <2>1. a \in Byte /\ b \in Byte /\ len \in Nat /\ len >= 3
    BY <1>0, <1>3 DEF Byte
  <2>2. i + len <= Len(s) + 1
    BY <1>3 DEF Stretch
  <2>3. Token(s, i) = [out |-> <<Sp, a, b>>, used |-> len]
    BY <1>3
  <2> HIDE DEF a, b
  <2>4. <<Sp, a, b>> \in Seq(Byte) /\ Len(<<Sp, a, b>>) = 3
    BY <1>0, <2>1
  <2> QED
    BY <2>1, <2>2, <2>3, <2>4
<1> QED
  BY <1>1, <1>2, <1>3, TokenIs

\* Where zip is in its input and what it has written.
ZipStates == [at : Nat \ {0}, out : Seq(Byte)]

\* A turn writes what its token says, until the input is used up.
LEMMA ZipTurnIs ==
    ASSUME NEW s \in Seq(Byte), NEW v \in ZipStates
    PROVE  /\ ZipTurn(s, v) \in ZipStates
           /\ Len(s) < v.at => ZipTurn(s, v) = v
           /\ v.at <= Len(s) =>
                 LET t == Token(s, v.at)
                 IN  ZipTurn(s, v) = [at |-> v.at + t.used, out |-> v.out \o t.out]
<1> DEFINE t == Token(s, v.at)
<1>0. v.at \in Nat \ {0} /\ v.out \in Seq(Byte) /\ Len(s) \in Nat
  BY DEF ZipStates
<1>1. ZipTurn(s, v) = IF Len(s) < v.at THEN v ELSE [at |-> v.at + t.used, out |-> v.out \o t.out]
  BY DEF ZipTurn
<1>2. CASE Len(s) < v.at
  <2>1. ZipTurn(s, v) = v /\ ~(v.at <= Len(s))
    BY <1>0, <1>1, <1>2
  <2> QED
    BY <2>1
<1>3. CASE v.at <= Len(s)
  <2>1. v.at \in 1 .. Len(s) /\ ~(Len(s) < v.at)
    BY <1>0, <1>3
  <2>2. t.out \in Seq(Byte) /\ t.used \in Nat \ {0}
    BY <2>1, TokenFits
  <2> HIDE DEF t
  <2>3. v.out \o t.out \in Seq(Byte)
    BY <1>0, <2>2, ConcatIs
  <2>4. v.at + t.used \in Nat \ {0}
    BY <1>0, <2>2
  <2>5. [at |-> v.at + t.used, out |-> v.out \o t.out] \in ZipStates
    BY <2>3, <2>4 DEF ZipStates
  <2> QED
    BY <1>1, <2>1, <2>5 DEF t
<1> QED
  <2>1. Len(s) < v.at \/ v.at <= Len(s)
    BY <1>0
  <2> QED
    BY <1>2, <1>3, <2>1

\* The recursive definition of the turns of zip has a solution: its equations.
LEMMA ZipTurnsAre ==
    ASSUME NEW s \in Seq(Byte)
    PROVE  /\ ZipTurns(s) \in [Nat -> ZipStates]
           /\ ZipTurns(s)[0] = [at |-> 1, out |-> <<>>]
           /\ \A n \in Nat : ZipTurns(s)[n + 1] = ZipTurn(s, ZipTurns(s)[n])
<1> DEFINE base == [at |-> 1, out |-> <<>>]
           step == [n \in Nat |-> [v \in ZipStates |-> ZipTurn(s, v)]]
           Eq(z) == z = [n \in Nat |-> IF n = 0 THEN base ELSE ZipTurn(s, z[n - 1])]
<1>1. base \in ZipStates
  <2>1. <<>> \in Seq(Byte)
    OBVIOUS
  <2> QED
    BY <2>1 DEF ZipStates
<1>2. step \in [Nat -> [ZipStates -> ZipStates]]
  BY ZipTurnIs
<1>3. PICK f : AllTurns(f, base, step, ZipStates)
  <2> HIDE DEF base, step
  <2> QED
    BY <1>1, <1>2, TurnsExist
<1>4. ASSUME NEW n \in Nat PROVE f[n + 1] = ZipTurn(s, f[n])
  <2>1. n + 1 \in Nat /\ f[n] \in ZipStates
    BY <1>3 DEF AllTurns
  <2>2. step[n + 1][f[n]] = ZipTurn(s, f[n])
    BY <2>1
  <2> QED
    BY <1>3, <2>2 DEF AllTurns
<1> HIDE DEF base, step
<1>5. Eq(f)
  <2>1. ASSUME NEW n \in Nat, n # 0 PROVE f[n] = ZipTurn(s, f[n - 1])
    <3> DEFINE k == n - 1
    <3>1. k \in Nat /\ k + 1 = n
      BY <2>1
    <3> HIDE DEF k
    <3> QED
      BY <1>4, <3>1 DEF k
  <2>2. f[0] = base /\ f \in [Nat -> ZipStates]
    BY <1>3 DEF AllTurns
  <2> QED
    BY <2>1, <2>2
<1>6. ZipTurns(s) = CHOOSE z : Eq(z)
  BY DEF ZipTurns, base
<1>7. Eq(ZipTurns(s))
  <2> HIDE DEF Eq
  <2> QED
    BY <1>5, <1>6
<1> DEFINE z == ZipTurns(s)
<1>8. z = [n \in Nat |-> IF n = 0 THEN base ELSE ZipTurn(s, z[n - 1])]
  BY <1>7
<1> HIDE DEF z, Eq
<1>9. z[0] = base
  BY <1>8
<1>10. ASSUME NEW n \in Nat PROVE z[n + 1] = ZipTurn(s, z[n])
  <2> DEFINE k == n + 1
  <2>1. k \in Nat /\ k # 0 /\ k - 1 = n
    OBVIOUS
  <2> HIDE DEF k
  <2>2. z[k] = ZipTurn(s, z[k - 1])
    BY <1>8, <2>1
  <2> QED
    BY <2>1, <2>2 DEF k
<1>11. \A n \in Nat : z[n] \in ZipStates
  <2> DEFINE S == {n \in Nat : z[n] \in ZipStates}
  <2>1. 0 \in S
    BY <1>1, <1>9
  <2>2. ASSUME NEW n \in Nat, n \in S PROVE n + 1 \in S
    <3>1. z[n] \in ZipStates
      BY <2>2
    <3>2. ZipTurn(s, z[n]) \in ZipStates
      BY <3>1, ZipTurnIs
    <3>3. z[n + 1] = ZipTurn(s, z[n]) /\ n + 1 \in Nat
      BY <1>10
    <3> QED
      BY <3>2, <3>3
  <2>3. \A n \in Nat : n \in S
    <3> HIDE DEF S
    <3> QED
      BY <2>1, <2>2, AllNaturals
  <2> QED
    BY <2>3
<1>12. z \in [Nat -> ZipStates]
  <2>1. z = [n \in Nat |-> z[n]]
    BY <1>8
  <2> QED
    BY <1>11, <2>1
<1> QED
  BY <1>9, <1>10, <1>12 DEF z, base


\* The copy loop of unzip.
Longer(d) == {o \in Seq(Byte) : d <= Len(o)}

\* A byte is copied from d before, which may be a byte just copied.
LEMMA CopyByteIs ==
    ASSUME NEW d \in Nat \ {0}, NEW o \in Longer(d)
    PROVE  /\ CopyByte(o, d) \in Longer(d)
           /\ o \in Seq(Byte) /\ CopyByte(o, d) \in Seq(Byte)
           /\ Len(CopyByte(o, d)) = Len(o) + 1
           /\ \A k \in 1 .. Len(o) : CopyByte(o, d)[k] = o[k]
           /\ CopyByte(o, d)[Len(o) + 1] = o[Len(o) + 1 - d]
<1> DEFINE b == o[Len(o) + 1 - d]
           r == Append(o, b)
<1>1. o \in Seq(Byte) /\ d <= Len(o) /\ Len(o) \in Nat
  BY DEF Longer
<1>2. Len(o) + 1 - d \in 1 .. Len(o)
  BY <1>1
<1>3. b \in Byte
  BY <1>1, <1>2, EmptyIs
<1> HIDE DEF b
<1>4. /\ r \in Seq(Byte) /\ Len(r) = Len(o) + 1
      /\ \A k \in 1 .. Len(o) : r[k] = o[k]
      /\ r[Len(o) + 1] = b
  BY <1>1, <1>3
<1>5. d <= Len(r)
  BY <1>1, <1>4
<1>6. CopyByte(o, d) = r
  BY DEF CopyByte, b
<1> HIDE DEF r
<1> QED
  BY <1>1, <1>4, <1>5, <1>6 DEF Longer, b

\* The equations of the copy loop.
LEMMA CopiesAre ==
    ASSUME NEW o \in Seq(Byte), NEW d \in 1 .. Len(o)
    PROVE  /\ Copies(o, d) \in [Nat -> Longer(d)]
           /\ Copies(o, d)[0] = o
           /\ \A n \in Nat : Copies(o, d)[n + 1] = CopyByte(Copies(o, d)[n], d)
<1> DEFINE base == o
           step == [n \in Nat |-> [v \in Longer(d) |-> CopyByte(v, d)]]
           Eq(z) == z = [n \in Nat |-> IF n = 0 THEN base ELSE CopyByte(z[n - 1], d)]
<1>1. base \in Longer(d)
  BY DEF Longer
<1>2. step \in [Nat -> [Longer(d) -> Longer(d)]]
  BY CopyByteIs
<1>3. PICK f : AllTurns(f, base, step, Longer(d))
  <2> HIDE DEF base, step
  <2> QED
    BY <1>1, <1>2, TurnsExist
<1>4. ASSUME NEW n \in Nat PROVE f[n + 1] = CopyByte(f[n], d)
  <2>1. n + 1 \in Nat /\ f[n] \in Longer(d)
    BY <1>3 DEF AllTurns
  <2>2. step[n + 1][f[n]] = CopyByte(f[n], d)
    BY <2>1
  <2> QED
    BY <1>3, <2>2 DEF AllTurns
<1> HIDE DEF base, step
<1>5. Eq(f)
  <2>1. ASSUME NEW n \in Nat, n # 0 PROVE f[n] = CopyByte(f[n - 1], d)
    <3> DEFINE k == n - 1
    <3>1. k \in Nat /\ k + 1 = n
      BY <2>1
    <3> HIDE DEF k
    <3> QED
      BY <1>4, <3>1 DEF k
  <2>2. f[0] = base /\ f \in [Nat -> Longer(d)]
    BY <1>3 DEF AllTurns
  <2> QED
    BY <2>1, <2>2
<1>6. Copies(o, d) = CHOOSE z : Eq(z)
  BY DEF Copies, base
<1>7. Eq(Copies(o, d))
  <2> HIDE DEF Eq
  <2> QED
    BY <1>5, <1>6
<1> DEFINE z == Copies(o, d)
<1>8. z = [n \in Nat |-> IF n = 0 THEN base ELSE CopyByte(z[n - 1], d)]
  BY <1>7
<1> HIDE DEF z, Eq
<1>9. z[0] = base
  BY <1>8
<1>10. ASSUME NEW n \in Nat PROVE z[n + 1] = CopyByte(z[n], d)
  <2> DEFINE k == n + 1
  <2>1. k \in Nat /\ k # 0 /\ k - 1 = n
    OBVIOUS
  <2> HIDE DEF k
  <2>2. z[k] = CopyByte(z[k - 1], d)
    BY <1>8, <2>1
  <2> QED
    BY <2>1, <2>2 DEF k
<1>11. \A n \in Nat : z[n] \in Longer(d)
  <2> DEFINE S == {n \in Nat : z[n] \in Longer(d)}
  <2>1. 0 \in S
    BY <1>1, <1>9
  <2>2. ASSUME NEW n \in Nat, n \in S PROVE n + 1 \in S
    <3>1. z[n] \in Longer(d)
      BY <2>2
    <3>2. CopyByte(z[n], d) \in Longer(d)
      BY <3>1, CopyByteIs
    <3>3. z[n + 1] = CopyByte(z[n], d) /\ n + 1 \in Nat
      BY <1>10
    <3> QED
      BY <3>2, <3>3
  <2>3. \A n \in Nat : n \in S
    <3> HIDE DEF S
    <3> QED
      BY <2>1, <2>2, AllNaturals
  <2> QED
    BY <2>3
<1>12. z \in [Nat -> Longer(d)]
  <2>1. z = [n \in Nat |-> z[n]]
    BY <1>8
  <2> QED
    BY <1>11, <2>1
<1> QED
  BY <1>9, <1>10, <1>12 DEF z, base

\* A stretch is copied from what has been restored, its own start included.
LEMMA CopiedIs ==
    ASSUME NEW s \in Seq(Byte), NEW i \in Nat \ {0}, NEW len \in Nat, NEW d \in Nat \ {0},
           Stretch(s, i, len, d)
    PROVE  Copied(SubSeq(s, 1, i - 1), len, d) = SubSeq(s, 1, i - 1 + len)
<1> DEFINE o == SubSeq(s, 1, i - 1)
           c == Copies(o, d)
           S == {n \in Nat : n <= len => c[n] = SubSeq(s, 1, i - 1 + n)}
<1>0. /\ i + len <= Len(s) + 1 /\ d <= i - 1 /\ Len(s) \in Nat
      /\ \A k \in 0 .. len - 1 : s[i + k] = s[i + k - d]
  BY DEF Stretch
<1>1. o \in Seq(Byte) /\ Len(o) = i - 1 /\ d \in 1 .. Len(o)
  <2> DEFINE h == i - 1
  <2>1. h \in Nat /\ h <= Len(s) /\ d <= h
    BY <1>0
  <2> HIDE DEF h
  <2>2. SubSeq(s, 1, h) \in Seq(Byte) /\ Len(SubSeq(s, 1, h)) = h
    BY <2>1, Cut
  <2> QED
    BY <2>1, <2>2 DEF h
<1> HIDE DEF o
<1>2. /\ c \in [Nat -> Longer(d)] /\ c[0] = o
      /\ \A n \in Nat : c[n + 1] = CopyByte(c[n], d)
  BY <1>1, CopiesAre
<1> HIDE DEF c
<1>3. 0 \in S
  <2>1. i - 1 + 0 = i - 1
    OBVIOUS
  <2> QED
    BY <1>2, <2>1 DEF o
<1>4. ASSUME NEW n \in Nat, n \in S PROVE n + 1 \in S
  <2> SUFFICES ASSUME n + 1 <= len PROVE c[n + 1] = SubSeq(s, 1, i - 1 + (n + 1))
    OBVIOUS
  <2> DEFINE h == i - 1 + n
             a == SubSeq(s, 1, h)
             j == h + 1
             b == SubSeq(s, 1, j)
             r == CopyByte(a, d)
  <2>1. c[n] = a
    BY <1>4
  <2>2. h \in Nat /\ j \in Nat /\ h <= Len(s) /\ j <= Len(s) /\ d <= h /\ i - 1 + (n + 1) = j
    BY <1>0
  <2>3. n \in 0 .. len - 1 /\ i + n = j
    OBVIOUS
  <2>4. s[j] = s[j - d]
    <3>1. s[i + n] = s[i + n - d]
      BY <1>0, <2>3
    <3> HIDE DEF j
    <3> QED
      BY <2>3, <3>1
  <2> HIDE DEF h
  <2>5. a \in Seq(Byte) /\ Len(a) = h /\ \A k \in 1 .. h : a[k] = s[k]
    BY <2>2, Cut
  <2>6. b \in Seq(Byte) /\ Len(b) = j /\ \A k \in 1 .. j : b[k] = s[k]
    <3> HIDE DEF j
    <3> QED
      BY <2>2, Cut
  <2> HIDE DEF a, b
  <2>7. a \in Longer(d)
    BY <2>2, <2>5 DEF Longer
  <2>8. /\ r \in Seq(Byte) /\ Len(r) = Len(a) + 1
        /\ \A k \in 1 .. Len(a) : r[k] = a[k]
        /\ r[Len(a) + 1] = a[Len(a) + 1 - d]
    BY <2>7, CopyByteIs
  <2> HIDE DEF r
  <2>9. /\ Len(r) = j /\ \A k \in 1 .. h : r[k] = a[k]
        /\ r[j] = a[j - d]
    <3>1. Len(a) = h /\ j = h + 1
      BY <2>5
    <3>2. Len(r) = j /\ \A k \in 1 .. h : r[k] = a[k]
      BY <2>8, <3>1
    <3>3. r[j] = a[j - d]
      BY <2>8, <3>1
    <3> QED
      BY <3>2, <3>3
  <2>10. ASSUME NEW k \in 1 .. j PROVE r[k] = b[k]
    <3>1. CASE k <= h
      <4>1. k \in 1 .. h
        BY <2>2, <3>1
      <4> QED
        BY <2>5, <2>6, <2>9, <4>1
    <3>2. CASE k > h
      <4>1. k = j /\ j - d \in 1 .. h
        BY <2>2, <3>2
      <4>2. a[j - d] = s[j - d]
        BY <2>5, <4>1
      <4> QED
        BY <2>4, <2>6, <2>9, <4>1, <4>2
    <3> QED
      BY <2>2, <3>1, <3>2
  <2>11. r = b
    BY <2>6, <2>8, <2>9, <2>10, SeqEqual
  <2>12. c[n + 1] = r
    BY <1>2, <2>1 DEF r
  <2> QED
    BY <2>2, <2>11, <2>12 DEF b
<1>5. \A n \in Nat : n \in S
  <2> HIDE DEF S
  <2> QED
    BY <1>3, <1>4, AllNaturals
<1>6. c[len] = SubSeq(s, 1, i - 1 + len)
  BY <1>5
<1> QED
  BY <1>6 DEF Copied, c, o

\* A stretch is as long as it was announced.
LEMMA CopiedFits ==
    ASSUME NEW o \in Seq(Byte), NEW len \in Nat, NEW d \in 1 .. Len(o)
    PROVE  Copied(o, len, d) \in Seq(Byte) /\ Len(Copied(o, len, d)) = Len(o) + len
<1> DEFINE c == Copies(o, d)
           S == {n \in Nat : Len(c[n]) = Len(o) + n}
<1>1. /\ c \in [Nat -> Longer(d)] /\ c[0] = o
      /\ \A n \in Nat : c[n + 1] = CopyByte(c[n], d)
  BY CopiesAre
<1>2. d \in Nat \ {0} /\ Len(o) \in Nat
  OBVIOUS
<1> HIDE DEF c
<1>3. 0 \in S
  BY <1>1, <1>2
<1>4. ASSUME NEW n \in Nat, n \in S PROVE n + 1 \in S
  <2>1. c[n] \in Longer(d) /\ Len(c[n]) = Len(o) + n
    BY <1>1, <1>4
  <2>2. Len(CopyByte(c[n], d)) = Len(c[n]) + 1
    BY <1>2, <2>1, CopyByteIs
  <2>3. c[n + 1] = CopyByte(c[n], d)
    BY <1>1
  <2>4. Len(c[n + 1]) = Len(o) + (n + 1)
    BY <1>2, <2>1, <2>2, <2>3
  <2> QED
    BY <2>4
<1>5. \A n \in Nat : n \in S
  <2> HIDE DEF S
  <2> QED
    BY <1>3, <1>4, AllNaturals
<1>6. c[len] \in Seq(Byte) /\ Len(c[len]) = Len(o) + len
  BY <1>1, <1>5 DEF Longer
<1> QED
  BY <1>6 DEF Copied, c

\* Where unzip is, whether it has failed and what is in its buffer.
UnzipStates(cap) ==
    {v \in [ok : BOOLEAN, at : Nat \ {0}, out : Seq(Byte)] : Len(v.out) <= cap}

\* Whatever the bytes, a turn stays in the buffer.
LEMMA UnzipTurnIs ==
    ASSUME NEW s \in Seq(Byte), NEW cap \in Nat, NEW v \in UnzipStates(cap)
    PROVE  UnzipTurn(s, cap, v) \in UnzipStates(cap)
<1> DEFINE left == Len(s) + 1 - v.at
           Room(n) == Len(v.out) + n <= cap
           failed == [v EXCEPT !.ok = FALSE]
           len == s[v.at + 1] + 2
           dist == s[v.at + 2] + 1
           one == [v EXCEPT !.at = @ + 1, !.out = Append(@, s[v.at])]
           mark == [v EXCEPT !.at = @ + 2, !.out = Append(@, Sp)]
           stretch == [v EXCEPT !.at = @ + 3, !.out = Copied(@, len, dist)]
<1>0. /\ v \in [ok : BOOLEAN, at : Nat \ {0}, out : Seq(Byte)] /\ Len(v.out) <= cap
      /\ Len(s) \in Nat /\ Len(v.out) \in Nat /\ v.at \in Nat \ {0} /\ v.out \in Seq(Byte)
      /\ Sp \in Byte
  BY LzAssumption DEF UnzipStates, Byte
<1>1. UnzipTurn(s, cap, v) =
        IF ~v.ok \/ left < 1 THEN v
        ELSE IF s[v.at] # Sp THEN IF Room(1) THEN one ELSE failed
        ELSE IF left < 2 THEN failed
        ELSE IF s[v.at + 1] = 0 THEN IF Room(1) THEN mark ELSE failed
        ELSE IF left < 3 \/ Len(v.out) < dist \/ ~Room(len) THEN failed
        ELSE stretch
  BY DEF UnzipTurn
<1>2. failed \in UnzipStates(cap)
  BY <1>0 DEF UnzipStates
<1>3. \A e \in Byte : Append(v.out, e) \in Seq(Byte) /\ Len(Append(v.out, e)) = Len(v.out) + 1
  BY <1>0
<1>9. ASSUME NEW n \in Nat \ {0}, NEW o \in Seq(Byte), Len(o) <= cap
      PROVE  [v EXCEPT !.at = n, !.out = o] \in UnzipStates(cap)
  <2> DEFINE N == Nat \ {0}
             O == Seq(Byte)
             w == [v EXCEPT !.at = n, !.out = o]
  <2>1. v \in [ok : BOOLEAN, at : N, out : O] /\ n \in N /\ o \in O
    BY <1>0
  <2>2. w \in [ok : BOOLEAN, at : N, out : O] /\ w.out = o
    <3> HIDE DEF N, O
    <3> QED
      BY ONLY <2>1 DEF w
  <2> HIDE DEF w
  <2>3. Len(w.out) <= cap
    BY <1>9, <2>2
  <2>4. w \in UnzipStates(cap)
    BY <2>2, <2>3 DEF UnzipStates
  <2> QED
    BY <2>4 DEF w
<1>4. ASSUME left >= 1, Room(1) PROVE one \in UnzipStates(cap)
  <2>1. v.at \in 1 .. Len(s)
    BY <1>0, <1>4
  <2>2. s[v.at] \in Byte
    BY <2>1, EmptyIs
  <2> DEFINE o == Append(v.out, s[v.at])
             n == v.at + 1
  <2>3. o \in Seq(Byte) /\ Len(o) <= cap
    BY <1>3, <1>4, <2>2
  <2>4. n \in Nat \ {0}
    BY <1>0
  <2>5. one = [v EXCEPT !.at = n, !.out = o]
    OBVIOUS
  <2> HIDE DEF o, n, one
  <2> QED
    BY <1>9, <2>3, <2>4, <2>5
<1>5. ASSUME Room(1) PROVE mark \in UnzipStates(cap)
  <2> DEFINE o == Append(v.out, Sp)
             n == v.at + 2
  <2>3. o \in Seq(Byte) /\ Len(o) <= cap
    BY <1>0, <1>3, <1>5
  <2>4. n \in Nat \ {0}
    BY <1>0
  <2>5. mark = [v EXCEPT !.at = n, !.out = o]
    OBVIOUS
  <2> HIDE DEF o, n, mark
  <2> QED
    BY <1>9, <2>3, <2>4, <2>5
<1>6. ASSUME left >= 3, ~(Len(v.out) < dist), Room(len) PROVE stretch \in UnzipStates(cap)
  <2>1. v.at + 1 \in 1 .. Len(s) /\ v.at + 2 \in 1 .. Len(s)
    BY <1>0, <1>6
  <2>2. s[v.at + 1] \in Byte /\ s[v.at + 2] \in Byte
    <3> DEFINE a == v.at + 1
               b == v.at + 2
    <3>1. a \in 1 .. Len(s) /\ b \in 1 .. Len(s)
      BY <2>1
    <3> HIDE DEF a, b
    <3>2. s[a] \in Byte /\ s[b] \in Byte
      BY <3>1, EmptyIs
    <3> QED
      BY <3>2 DEF a, b
  <2>3. \A e \in Byte : e \in Nat
    BY LzAssumption DEF Byte
  <2>4. len \in Nat /\ dist \in Nat \ {0}
    BY <2>2, <2>3
  <2>5. dist <= Len(v.out) /\ Len(v.out) + len <= cap
    BY <1>0, <1>6, <2>4
  <2> HIDE DEF len, dist
  <2>6. dist \in 1 .. Len(v.out)
    BY <1>0, <2>4, <2>5
  <2>7. Copied(v.out, len, dist) \in Seq(Byte) /\ Len(Copied(v.out, len, dist)) = Len(v.out) + len
    BY <1>0, <2>4, <2>6, CopiedFits
  <2> DEFINE c == Copied(v.out, len, dist)
  <2> DEFINE n == v.at + 3
  <2>8. stretch = [v EXCEPT !.at = n, !.out = c]
    OBVIOUS
  <2>9. c \in Seq(Byte) /\ Len(c) <= cap /\ n \in Nat \ {0}
    BY <1>0, <2>5, <2>7
  <2> HIDE DEF c, n, stretch
  <2> QED
    BY <1>9, <2>8, <2>9
<1>7. CASE ~v.ok \/ left < 1
  BY <1>1, <1>7
<1>8. CASE v.ok /\ ~(left < 1)
  <2>1. left >= 1 /\ (~(left < 3) => left >= 3)
    BY <1>0, <1>8
  <2> HIDE DEF left, Room, failed, one, mark, stretch, len, dist, UnzipStates
  <2> QED
    BY <1>1, <1>2, <1>4, <1>5, <1>6, <1>8, <2>1
<1> QED
  BY <1>7, <1>8

\* The equations of the turns of unzip.
LEMMA UnzipTurnsAre ==
    ASSUME NEW s \in Seq(Byte), NEW cap \in Nat
    PROVE  /\ UnzipTurns(s, cap) \in [Nat -> UnzipStates(cap)]
           /\ UnzipTurns(s, cap)[0] = [ok |-> TRUE, at |-> 1, out |-> <<>>]
           /\ \A n \in Nat : UnzipTurns(s, cap)[n + 1] = UnzipTurn(s, cap, UnzipTurns(s, cap)[n])
<1> DEFINE base == [ok |-> TRUE, at |-> 1, out |-> <<>>]
           step == [n \in Nat |-> [v \in UnzipStates(cap) |-> UnzipTurn(s, cap, v)]]
           Eq(z) == z = [n \in Nat |-> IF n = 0 THEN base ELSE UnzipTurn(s, cap, z[n - 1])]
<1>1. base \in UnzipStates(cap)
  <2>1. <<>> \in Seq(Byte) /\ Len(<<>>) = 0
    OBVIOUS
  <2> QED
    BY <2>1 DEF UnzipStates
<1>2. step \in [Nat -> [UnzipStates(cap) -> UnzipStates(cap)]]
  BY UnzipTurnIs
<1>3. PICK f : AllTurns(f, base, step, UnzipStates(cap))
  <2> HIDE DEF base, step
  <2> QED
    BY <1>1, <1>2, TurnsExist
<1>4. ASSUME NEW n \in Nat PROVE f[n + 1] = UnzipTurn(s, cap, f[n])
  <2>1. n + 1 \in Nat /\ f[n] \in UnzipStates(cap)
    BY <1>3 DEF AllTurns
  <2>2. step[n + 1][f[n]] = UnzipTurn(s, cap, f[n])
    BY <2>1
  <2> QED
    BY <1>3, <2>2 DEF AllTurns
<1> HIDE DEF base, step
<1>5. Eq(f)
  <2>1. ASSUME NEW n \in Nat, n # 0 PROVE f[n] = UnzipTurn(s, cap, f[n - 1])
    <3> DEFINE k == n - 1
    <3>1. k \in Nat /\ k + 1 = n
      BY <2>1
    <3> HIDE DEF k
    <3> QED
      BY <1>4, <3>1 DEF k
  <2>2. f[0] = base /\ f \in [Nat -> UnzipStates(cap)]
    BY <1>3 DEF AllTurns
  <2> QED
    BY <2>1, <2>2
<1>6. UnzipTurns(s, cap) = CHOOSE z : Eq(z)
  BY DEF UnzipTurns, base
<1>7. Eq(UnzipTurns(s, cap))
  <2> HIDE DEF Eq
  <2> QED
    BY <1>5, <1>6
<1> DEFINE z == UnzipTurns(s, cap)
<1>8. z = [n \in Nat |-> IF n = 0 THEN base ELSE UnzipTurn(s, cap, z[n - 1])]
  BY <1>7
<1> HIDE DEF z, Eq
<1>9. z[0] = base
  BY <1>8
<1>10. ASSUME NEW n \in Nat PROVE z[n + 1] = UnzipTurn(s, cap, z[n])
  <2> DEFINE k == n + 1
  <2>1. k \in Nat /\ k # 0 /\ k - 1 = n
    OBVIOUS
  <2> HIDE DEF k
  <2>2. z[k] = UnzipTurn(s, cap, z[k - 1])
    BY <1>8, <2>1
  <2> QED
    BY <2>1, <2>2 DEF k
<1>11. \A n \in Nat : z[n] \in UnzipStates(cap)
  <2> DEFINE S == {n \in Nat : z[n] \in UnzipStates(cap)}
  <2>1. 0 \in S
    BY <1>1, <1>9
  <2>2. ASSUME NEW n \in Nat, n \in S PROVE n + 1 \in S
    <3>1. z[n] \in UnzipStates(cap)
      BY <2>2
    <3>2. UnzipTurn(s, cap, z[n]) \in UnzipStates(cap)
      BY <3>1, UnzipTurnIs
    <3>3. z[n + 1] = UnzipTurn(s, cap, z[n]) /\ n + 1 \in Nat
      BY <1>10
    <3> QED
      BY <3>2, <3>3
  <2>3. \A n \in Nat : n \in S
    <3> HIDE DEF S
    <3> QED
      BY <2>1, <2>2, AllNaturals
  <2> QED
    BY <2>3
<1>12. z \in [Nat -> UnzipStates(cap)]
  <2>1. z = [n \in Nat |-> z[n]]
    BY <1>8
  <2> QED
    BY <1>11, <2>1
<1> QED
  BY <1>9, <1>10, <1>12 DEF z, base

\* How far zip is after n turns, in what it reads and in what it writes.
ZipAt(s, v, n) ==
    /\ v \in ZipStates /\ v.at <= Len(s) + 1
    /\ v.at <= Len(s) => n < v.at /\ n <= Len(v.out)
    /\ Len(v.out) <= 2 * (v.at - 1)

\* Each turn of zip consumes a byte at least.
LEMMA ZipProgress ==
    ASSUME NEW s \in Seq(Byte)
    PROVE  \A n \in Nat : ZipAt(s, ZipTurns(s)[n], n)
<1> DEFINE z == ZipTurns(s)
           S == {n \in Nat : ZipAt(s, z[n], n)}
<1>1. /\ z \in [Nat -> ZipStates] /\ z[0] = [at |-> 1, out |-> <<>>]
      /\ \A n \in Nat : z[n + 1] = ZipTurn(s, z[n])
  BY ZipTurnsAre
<1>2. Len(s) \in Nat
  OBVIOUS
<1> HIDE DEF z
<1>3. 0 \in S
  <2>1. z[0] \in ZipStates /\ z[0].at = 1 /\ z[0].out = <<>> /\ Len(<<>>) = 0
    BY <1>1
  <2> QED
    BY <1>2, <2>1 DEF ZipAt
<1>4. ASSUME NEW n \in Nat, n \in S PROVE n + 1 \in S
  <2> DEFINE v == z[n]
             w == z[n + 1]
             t == Token(s, v.at)
  <2>1. ZipAt(s, v, n) /\ v \in ZipStates /\ v.at \in Nat \ {0} /\ v.out \in Seq(Byte)
    BY <1>4 DEF ZipAt, ZipStates
  <2>2. w = ZipTurn(s, v) /\ w \in ZipStates
    BY <1>1
  <2> HIDE DEF v, w
  <2>3. CASE Len(s) < v.at
    <3>1. w = v
      BY <2>1, <2>2, <2>3, ZipTurnIs
    <3> QED
      BY <1>2, <2>1, <2>3, <3>1 DEF ZipAt, w
  <2>4. CASE v.at <= Len(s)
    <3>1. w = [at |-> v.at + t.used, out |-> v.out \o t.out]
      BY <2>1, <2>2, <2>4, ZipTurnIs
    <3>2. v.at \in 1 .. Len(s)
      BY <1>2, <2>1, <2>4
    <3>3. /\ t.out \in Seq(Byte) /\ t.used \in Nat \ {0}
          /\ Len(t.out) \in 1 .. 3 /\ v.at + t.used <= Len(s) + 1
          /\ Len(t.out) <= 2 * t.used
      BY <3>2, TokenFits
    <3> HIDE DEF t
    <3>4. Len(v.out \o t.out) = Len(v.out) + Len(t.out) /\ Len(v.out) \in Nat /\ Len(t.out) \in Nat
      BY <2>1, <3>3, ConcatIs
    <3> DEFINE a == Len(v.out)
               b == Len(t.out)
               u == t.used
               i == v.at
    <3>5. w.at = i + u /\ Len(w.out) = a + b
      BY <3>1, <3>4
    <3>6. n < i /\ n <= a /\ a <= 2 * (i - 1)
      BY <2>1, <2>4 DEF ZipAt
    <3>7. /\ a \in Nat /\ b \in 1 .. 3 /\ u \in Nat \ {0} /\ i \in Nat \ {0}
          /\ i + u <= Len(s) + 1 /\ b <= 2 * u
      <4>1. a \in Nat /\ i \in Nat \ {0}
        BY <2>1, <3>4
      <4>2. b \in 1 .. 3 /\ u \in Nat \ {0} /\ i + u <= Len(s) + 1 /\ b <= 2 * u
        BY <3>3
      <4> HIDE DEF a, b, u, i
      <4> QED
        BY <4>1, <4>2
    <3> HIDE DEF a, b, u, i
    <3>8. n + 1 < i + u /\ n + 1 <= a + b /\ a + b <= 2 * (i + u - 1)
      BY <3>6, <3>7
    <3>9. ZipAt(s, w, n + 1)
      BY <2>2, <3>5, <3>7, <3>8 DEF ZipAt
    <3> QED
      BY <3>9 DEF w
  <2> QED
    BY <1>2, <2>1, <2>3, <2>4
<1>5. \A n \in Nat : n \in S
  <2> HIDE DEF S
  <2> QED
    BY <1>3, <1>4, AllNaturals
<1> QED
  BY <1>5 DEF z

\* What is written stays, and nothing is once all is read.
Continues(s, v, w) ==
    /\ Len(v.out) <= Len(w.out)
    /\ \A k \in 1 .. Len(v.out) : w.out[k] = v.out[k]
    /\ Len(s) < v.at => w = v

\* What zip has written stays in front of what it writes later.
LEMMA ZipStays ==
    ASSUME NEW s \in Seq(Byte), NEW n \in Nat, NEW m \in Nat, n <= m
    PROVE  Continues(s, ZipTurns(s)[n], ZipTurns(s)[m])
<1> DEFINE z == ZipTurns(s)
           S == {k \in Nat : n <= k => Continues(s, z[n], z[k])}
<1>1. /\ z \in [Nat -> ZipStates] /\ z[0] = [at |-> 1, out |-> <<>>]
      /\ \A k \in Nat : z[k + 1] = ZipTurn(s, z[k])
  BY ZipTurnsAre
<1> HIDE DEF z
<1>2. \A k \in Nat : z[k].at \in Nat \ {0} /\ z[k].out \in Seq(Byte) /\ Len(z[k].out) \in Nat
  <2> SUFFICES ASSUME NEW k \in Nat
               PROVE  z[k].at \in Nat \ {0} /\ z[k].out \in Seq(Byte) /\ Len(z[k].out) \in Nat
    OBVIOUS
  <2>1. z[k] \in ZipStates
    BY <1>1
  <2>2. z[k].at \in Nat \ {0} /\ z[k].out \in Seq(Byte)
    BY <2>1 DEF ZipStates
  <2> QED
    BY <2>2, EmptyIs
<1>3. Continues(s, z[n], z[n])
  BY <1>2 DEF Continues
<1>4. 0 \in S
  <2>1. n <= 0 => n = 0
    OBVIOUS
  <2> QED
    BY <1>3, <2>1
<1>5. ASSUME NEW k \in Nat, k \in S PROVE k + 1 \in S
  <2> DEFINE v == z[n]
             w == z[k]
             x == z[k + 1]
             t == Token(s, w.at)
  <2>1. CASE n = k + 1
    BY <1>3, <2>1
  <2>2. CASE n <= k
    <3>1. Continues(s, v, w) /\ x = ZipTurn(s, w)
      BY <1>1, <1>5, <2>2
    <3>2. /\ v.out \in Seq(Byte) /\ w.out \in Seq(Byte) /\ w.at \in Nat \ {0} /\ w \in ZipStates
          /\ Len(v.out) \in Nat /\ Len(w.out) \in Nat /\ Len(s) \in Nat
      BY <1>1, <1>2
    <3> HIDE DEF v, w, x
    <3>3. CASE Len(s) < w.at
      <4>1. x = w
        BY <3>1, <3>2, <3>3, ZipTurnIs
      <4>2. Continues(s, v, x)
        BY <3>1, <4>1
      <4> QED
        BY <4>2 DEF v, x
    <3>4. CASE w.at <= Len(s)
      <4>1. x = [at |-> w.at + t.used, out |-> w.out \o t.out]
        BY <3>1, <3>2, <3>4, ZipTurnIs
      <4>2. w.at \in 1 .. Len(s)
        BY <3>2, <3>4
      <4>3. t.out \in Seq(Byte)
        BY <4>2, TokenFits
      <4> HIDE DEF t
      <4>4. /\ Len(w.out \o t.out) = Len(w.out) + Len(t.out) /\ Len(t.out) \in Nat
            /\ \A i \in 1 .. Len(w.out) : (w.out \o t.out)[i] = w.out[i]
        <5> DEFINE a == w.out
                   b == t.out
        <5>1. a \in Seq(Byte) /\ b \in Seq(Byte)
          BY <3>2, <4>3
        <5> HIDE DEF a, b
        <5>2. /\ Len(a \o b) = Len(a) + Len(b) /\ Len(b) \in Nat
              /\ \A i \in 1 .. Len(a) : (a \o b)[i] = a[i]
          BY ONLY <5>1, ConcatIs
        <5> QED
          BY <5>2 DEF a, b
      <4>5. /\ Len(x.out) = Len(w.out) + Len(t.out)
            /\ \A i \in 1 .. Len(w.out) : x.out[i] = w.out[i]
        BY <4>1, <4>4
      <4>6. Len(v.out) <= Len(w.out) /\ \A i \in 1 .. Len(v.out) : w.out[i] = v.out[i]
        BY <3>1 DEF Continues
      <4>7. ~(Len(s) < v.at)
        BY <3>1, <3>2, <3>4 DEF Continues
      <4>8. Len(v.out) <= Len(x.out)
        <5> DEFINE a == Len(v.out)
                   b == Len(w.out)
                   c == Len(t.out)
        <5>1. a \in Nat /\ b \in Nat /\ c \in Nat
          BY <3>2, <4>4
        <5>2. Len(x.out) = b + c /\ a <= b
          BY <4>5, <4>6
        <5> HIDE DEF a, b, c
        <5>3. a <= b + c
          BY <5>1, <5>2
        <5> QED
          BY <5>2, <5>3 DEF a
      <4>9. ASSUME NEW i \in 1 .. Len(v.out) PROVE x.out[i] = v.out[i]
        <5>1. i \in 1 .. Len(w.out)
          BY <3>2, <4>6
        <5> QED
          BY <4>5, <4>6, <5>1
      <4>10. Continues(s, v, x)
        BY <4>7, <4>8, <4>9 DEF Continues
      <4> QED
        BY <4>10 DEF v, x
    <3> QED
      BY <3>2, <3>3, <3>4
  <2>3. CASE n > k + 1
    BY <2>3
  <2> QED
    BY <2>1, <2>2, <2>3
<1>6. \A k \in Nat : k \in S
  <2> HIDE DEF S
  <2> QED
    BY <1>4, <1>5, AllNaturals
<1> QED
  BY <1>6 DEF z

\* Where unzip is when it has read what zip had written in some turn.
Restored(s, v) == [ok |-> TRUE, at |-> Len(v.out) + 1, out |-> SubSeq(s, 1, v.at - 1)]

\* The next byte after those restored makes them one more.
LEMMA OneMore ==
    ASSUME NEW S, NEW s \in Seq(S), NEW i \in 1 .. Len(s)
    PROVE  /\ Append(SubSeq(s, 1, i - 1), s[i]) = SubSeq(s, 1, i)
           /\ Len(SubSeq(s, 1, i - 1)) = i - 1 /\ SubSeq(s, 1, i - 1) \in Seq(S)
<1> DEFINE h == i - 1
           a == SubSeq(s, 1, h)
           b == SubSeq(s, 1, i)
           r == Append(a, s[i])
<1>1. h \in Nat /\ h <= Len(s) /\ i \in Nat /\ i <= Len(s) /\ h + 1 = i
  OBVIOUS
<1>2. s[i] \in S
  BY EmptyIs
<1> HIDE DEF h
<1>3. a \in Seq(S) /\ Len(a) = h /\ \A k \in 1 .. h : a[k] = s[k]
  BY <1>1, Cut
<1>4. b \in Seq(S) /\ Len(b) = i /\ \A k \in 1 .. i : b[k] = s[k]
  BY <1>1, Cut
<1> HIDE DEF a, b
<1>5. /\ r \in Seq(S) /\ Len(r) = h + 1
      /\ \A k \in 1 .. h : r[k] = a[k]
      /\ r[h + 1] = s[i]
  BY <1>2, <1>3
<1> HIDE DEF r
<1>6. ASSUME NEW k \in 1 .. i PROVE r[k] = b[k]
  <2>1. CASE k = i
    BY <1>1, <1>4, <1>5, <2>1
  <2>2. CASE k # i
    <3>1. k \in 1 .. h
      BY <1>1, <2>2
    <3> QED
      BY <1>3, <1>4, <1>5, <3>1
  <2> QED
    BY <2>1, <2>2
<1>7. r = b
  BY <1>1, <1>4, <1>5, <1>6, SeqEqual
<1> QED
  BY <1>3, <1>7 DEF h, a, b, r

\* unzip reads what a turn of zip wrote as what the turn had read.
LEMMA TurnUndone ==
    ASSUME NEW s \in Seq(Byte), NEW v \in ZipStates, v.at <= Len(s), NEW x \in Seq(Byte),
           Len(ZipTurn(s, v).out) <= Len(x),
           \A k \in 1 .. Len(ZipTurn(s, v).out) : x[k] = ZipTurn(s, v).out[k]
    PROVE  UnzipTurn(x, Len(s), Restored(s, v)) = Restored(s, ZipTurn(s, v))
<1> DEFINE i == v.at
           w == ZipTurn(s, v)
           t == Token(s, i)
           r == Restored(s, v)
           o == SubSeq(s, 1, i - 1)
           L == Len(v.out)
           a == L + 1
           left == Len(x) + 1 - a
           cap == Len(s)
<1>0. i \in 1 .. Len(s) /\ i \in Nat \ {0} /\ v.out \in Seq(Byte) /\ L \in Nat /\ cap \in Nat /\ Len(x) \in Nat
  <2>1. v.at \in Nat \ {0} /\ v.out \in Seq(Byte)
    BY DEF ZipStates
  <2> QED
    BY <2>1
<1>1. w = [at |-> i + t.used, out |-> v.out \o t.out]
  BY ZipTurnIs
<1>2. t.out \in Seq(Byte) /\ t.used \in Nat \ {0} /\ i + t.used <= cap + 1
  BY <1>0, TokenFits
<1>3. o \in Seq(Byte) /\ Len(o) = i - 1 /\ Append(o, s[i]) = SubSeq(s, 1, i)
  BY <1>0, OneMore
<1>4. r = [ok |-> TRUE, at |-> a, out |-> o]
  BY DEF Restored
<1>5. Restored(s, w) = [ok |-> TRUE, at |-> Len(w.out) + 1, out |-> SubSeq(s, 1, w.at - 1)]
  BY DEF Restored
<1> DEFINE Room(n) == Len(r.out) + n <= cap
           failed == [r EXCEPT !.ok = FALSE]
           len == x[r.at + 1] + 2
           dist == x[r.at + 2] + 1
<1>6. UnzipTurn(x, cap, r) =
        IF ~r.ok \/ Len(x) + 1 - r.at < 1 THEN r
        ELSE IF x[r.at] # Sp
        THEN IF Room(1) THEN [r EXCEPT !.at = @ + 1, !.out = Append(@, x[r.at])] ELSE failed
        ELSE IF Len(x) + 1 - r.at < 2 THEN failed
        ELSE IF x[r.at + 1] = 0
        THEN IF Room(1) THEN [r EXCEPT !.at = @ + 2, !.out = Append(@, Sp)] ELSE failed
        ELSE IF Len(x) + 1 - r.at < 3 \/ Len(r.out) < dist \/ ~Room(len) THEN failed
        ELSE [r EXCEPT !.at = @ + 3, !.out = Copied(@, len, dist)]
  BY DEF UnzipTurn
<1> HIDE DEF t, r, o, cap
\* What the turn wrote stands at a.
<1>7. /\ Len(w.out) = L + Len(t.out) /\ Len(t.out) \in Nat /\ left >= Len(t.out)
      /\ \A k \in 1 .. Len(t.out) : x[L + k] = t.out[k]
  <2>1. /\ Len(v.out \o t.out) = L + Len(t.out) /\ Len(t.out) \in Nat
        /\ \A k \in 1 .. Len(t.out) : (v.out \o t.out)[L + k] = t.out[k]
    <3> DEFINE p == v.out
               q == t.out
    <3>1. p \in Seq(Byte) /\ q \in Seq(Byte)
      BY <1>0, <1>2
    <3> HIDE DEF p, q
    <3>2. /\ Len(p \o q) = Len(p) + Len(q) /\ Len(q) \in Nat
          /\ \A k \in 1 .. Len(q) : (p \o q)[Len(p) + k] = q[k]
      BY <3>1, ConcatIs
    <3> QED
      BY <3>2 DEF p, q
  <2> HIDE DEF w
  <2>2. w.out = v.out \o t.out
    <3> DEFINE e == i + t.used
               q == v.out \o t.out
    <3>1. w = [at |-> e, out |-> q]
      BY <1>1
    <3> HIDE DEF e, q
    <3>2. w.out = q
      BY <3>1
    <3> QED
      BY <3>2 DEF q
  <2>3. /\ Len(w.out) = L + Len(t.out)
        /\ \A k \in 1 .. Len(t.out) : w.out[L + k] = t.out[k]
    BY <2>1, <2>2
  <2>4. L + Len(t.out) <= Len(x) /\ \A k \in 1 .. L + Len(t.out) : x[k] = w.out[k]
    <3>1. Len(w.out) <= Len(x) /\ \A k \in 1 .. Len(w.out) : x[k] = w.out[k]
      BY DEF w
    <3> QED
      BY <2>3, <3>1
  <2> DEFINE b == Len(t.out)
  <2>5. b \in Nat /\ L + b <= Len(x)
    BY <2>1, <2>4
  <2> HIDE DEF b, L
  <2>6. left >= b
    BY <1>0, <2>5
  <2>7. \A k \in 1 .. b : L + k \in 1 .. L + b
    BY <1>0, <2>5
  <2>8. ASSUME NEW k \in 1 .. b PROVE x[L + k] = t.out[k]
    <3>1. x[L + k] = w.out[L + k]
      BY <2>4, <2>7 DEF b
    <3> QED
      BY <2>3, <3>1 DEF b
  <2> QED
    BY <2>1, <2>3, <2>6, <2>8 DEF b
<1> HIDE DEF w
<1>8. r.ok /\ r.at = a /\ r.out = o
  BY <1>4
<1>9. CASE s[i] # Sp /\ t = [out |-> <<s[i]>>, used |-> 1]
  <2>1. t.out = <<s[i]>> /\ Len(t.out) = 1 /\ t.out[1] = s[i] /\ t.used = 1
    BY <1>9
  <2>2. x[a] = s[i] /\ left >= 1
    BY <1>7, <2>1
  <2>3. Room(1)
    BY <1>0, <1>3, <1>8 DEF cap
  <2>4. ~(left < 1)
    BY <1>0, <2>2
  <2>5. UnzipTurn(x, cap, r) = [r EXCEPT !.at = a + 1, !.out = Append(o, s[i])]
    <3> HIDE DEF Room, failed, len, dist, a
    <3> QED
      BY <1>6, <1>8, <1>9, <2>2, <2>3, <2>4
  <2>6. [r EXCEPT !.at = a + 1, !.out = Append(o, s[i])]
          = [ok |-> TRUE, at |-> a + 1, out |-> SubSeq(s, 1, i)]
    <3> DEFINE e == a + 1
               q == Append(o, s[i])
               p == SubSeq(s, 1, i)
    <3>1. q = p
      BY <1>3
    <3> HIDE DEF e, q, p
    <3>2. [r EXCEPT !.at = e, !.out = q] = [ok |-> TRUE, at |-> e, out |-> p]
      <4>1. r = [ok |-> TRUE, at |-> a, out |-> o]
        BY <1>4
      <4> HIDE DEF a
      <4> DEFINE next == [r EXCEPT !.at = e, !.out = q]
      <4>2. next \in [ok : {TRUE}, at : {e}, out : {p}]
        BY <3>1, <4>1
      <4> HIDE DEF next
      <4>3. next = [ok |-> TRUE, at |-> e, out |-> p]
        BY ONLY <4>2
      <4> QED
        BY <4>3 DEF next
    <3> QED
      BY <3>2 DEF e, q, p
  <2>7. Len(w.out) + 1 = a + 1 /\ w.at - 1 = i
    BY <1>0, <1>1, <1>7, <2>1
  <2> QED
    BY <1>5, <2>5, <2>6, <2>7 DEF r, cap, w
<1>10. CASE s[i] = Sp /\ t = [out |-> <<Sp, 0>>, used |-> 1]
  <2>1. /\ t.out = <<Sp, 0>> /\ Len(t.out) = 2 /\ t.out[1] = Sp /\ t.out[2] = 0
        /\ t.used = 1
    BY <1>10
  <2>2. x[L + 1] = Sp /\ x[L + 2] = 0 /\ left >= 2
    BY <1>7, <2>1
  <2>3. Room(1)
    BY <1>0, <1>3, <1>8 DEF cap
  <2>4. ~(left < 1) /\ ~(left < 2) /\ a + 1 = L + 2 /\ a = L + 1
    BY <1>0, <2>2
  <2>5. UnzipTurn(x, cap, r) = [r EXCEPT !.at = a + 2, !.out = Append(o, s[i])]
    <3>1. x[a] = Sp /\ x[a + 1] = 0
      BY <2>2, <2>4
    <3> HIDE DEF Room, failed, len, dist, a
    <3> QED
      BY <1>6, <1>8, <1>10, <2>3, <2>4, <3>1
  <2>6. [r EXCEPT !.at = a + 2, !.out = Append(o, s[i])]
          = [ok |-> TRUE, at |-> a + 2, out |-> SubSeq(s, 1, i)]
    <3> DEFINE e == a + 2
               q == Append(o, s[i])
               p == SubSeq(s, 1, i)
    <3>1. q = p
      BY <1>3
    <3> HIDE DEF e, q, p
    <3>2. [r EXCEPT !.at = e, !.out = q] = [ok |-> TRUE, at |-> e, out |-> p]
      <4>1. r = [ok |-> TRUE, at |-> a, out |-> o]
        BY <1>4
      <4> HIDE DEF a
      <4> DEFINE next == [r EXCEPT !.at = e, !.out = q]
      <4>2. next \in [ok : {TRUE}, at : {e}, out : {p}]
        BY <3>1, <4>1
      <4> HIDE DEF next
      <4>3. next = [ok |-> TRUE, at |-> e, out |-> p]
        BY ONLY <4>2
      <4> QED
        BY <4>3 DEF next
    <3> QED
      BY <3>2 DEF e, q, p
  <2>7. Len(w.out) + 1 = a + 2 /\ w.at - 1 = i
    BY <1>0, <1>1, <1>7, <2>1
  <2> QED
    BY <1>5, <2>5, <2>6, <2>7 DEF r, cap, w
<1>11. ASSUME NEW n \in 3 .. MaxRun - 1, NEW d \in 1 .. Window,
              n - 2 \in 1 .. ByteMax, d - 1 \in Byte, Stretch(s, i, n, d),
              t = [out |-> <<Sp, n - 2, d - 1>>, used |-> n]
       PROVE  UnzipTurn(x, cap, r) = Restored(s, w)
  <2>0. n \in Nat /\ d \in Nat \ {0} /\ n - 2 # 0
    BY <1>11, LzAssumption
  <2>1. /\ Len(t.out) = 3 /\ t.out[1] = Sp /\ t.out[2] = n - 2 /\ t.out[3] = d - 1
        /\ t.used = n
    <3> DEFINE e == n - 2
               f == d - 1
    <3>1. t = [out |-> <<Sp, e, f>>, used |-> n]
      BY <1>11
    <3> HIDE DEF e, f
    <3>2. t.out = <<Sp, e, f>> /\ t.used = n
      BY <3>1
    <3> QED
      BY <3>2 DEF e, f
  <2>2. x[L + 1] = Sp /\ x[L + 2] = n - 2 /\ x[L + 3] = d - 1 /\ left >= 3
    BY <1>7, <2>1
  <2>3. a = L + 1 /\ a + 1 = L + 2 /\ a + 2 = L + 3
    BY <1>0
  <2>4. x[a] = Sp /\ x[a + 1] # 0 /\ len = n /\ dist = d
    <3>1. x[a + 1] = n - 2 /\ x[a + 2] = d - 1
      BY <2>2, <2>3
    <3>2. len = x[a + 1] + 2 /\ dist = x[a + 2] + 1
      BY <1>8
    <3> HIDE DEF len, dist
    <3>3. len = n /\ dist = d
      <4>1. n - 2 + 2 = n /\ d - 1 + 1 = d
        BY <2>0
      <4> QED
        BY <3>1, <3>2, <4>1
    <3> HIDE DEF a
    <3> QED
      BY <2>0, <2>2, <2>3, <3>1, <3>3
  <2>5. d <= i - 1 /\ i + n <= cap + 1
    BY <1>11 DEF Stretch, cap
  <2>6. ~(left < 1) /\ ~(left < 2) /\ ~(left < 3)
    <3>1. left \in Int
      BY <1>0
    <3> HIDE DEF left
    <3> QED
      BY <2>2, <3>1
  <2>7. ~(Len(r.out) < d) /\ Room(n)
    <3>1. Len(r.out) = i - 1
      BY <1>3, <1>8
    <3> HIDE DEF r, i, cap
    <3> QED
      BY <1>0, <2>0, <2>5, <3>1
  <2>8. UnzipTurn(x, cap, r) = [r EXCEPT !.at = a + 3, !.out = Copied(o, n, d)]
    <3>1. ~(Len(r.out) < dist) /\ Room(len)
      <4> HIDE DEF len, dist
      <4> QED
        BY <2>4, <2>7
    <3> HIDE DEF Room, failed, len, dist, a
    <3> QED
      BY <1>6, <1>8, <2>4, <2>6, <3>1
  <2>9. Copied(o, n, d) = SubSeq(s, 1, i - 1 + n)
    <3>1. /\ i \in Nat \ {0} /\ n \in Nat /\ d \in Nat \ {0} /\ Stretch(s, i, n, d)
          /\ s \in Seq(Byte)
      BY <1>0, <1>11, <2>0
    <3> HIDE DEF i
    <3>2. Copied(SubSeq(s, 1, i - 1), n, d) = SubSeq(s, 1, i - 1 + n)
      BY ONLY <3>1, CopiedIs
    <3> QED
      BY <3>2 DEF o
  <2>10. [r EXCEPT !.at = a + 3, !.out = Copied(o, n, d)]
          = [ok |-> TRUE, at |-> a + 3, out |-> SubSeq(s, 1, i - 1 + n)]
    <3> DEFINE e == a + 3
               q == Copied(o, n, d)
               p == SubSeq(s, 1, i - 1 + n)
    <3>1. q = p
      BY <2>9
    <3> HIDE DEF e, q, p
    <3>2. [r EXCEPT !.at = e, !.out = q] = [ok |-> TRUE, at |-> e, out |-> p]
      <4>1. r = [ok |-> TRUE, at |-> a, out |-> o]
        BY <1>4
      <4> HIDE DEF a
      <4> DEFINE next == [r EXCEPT !.at = e, !.out = q]
      <4>2. next \in [ok : {TRUE}, at : {e}, out : {p}]
        BY <3>1, <4>1
      <4> HIDE DEF next
      <4>3. next = [ok |-> TRUE, at |-> e, out |-> p]
        BY ONLY <4>2
      <4> QED
        BY <4>3 DEF next
    <3> QED
      BY <3>2 DEF e, q, p
  <2>11. Len(w.out) + 1 = a + 3 /\ w.at - 1 = i - 1 + n
    <3>1. Len(w.out) = L + 3
      BY <1>7, <2>1
    <3>2. w.at = i + n
      <4> DEFINE q == v.out \o t.out
      <4>1. w = [at |-> i + t.used, out |-> q]
        BY <1>1
      <4> HIDE DEF q
      <4> QED
        BY <2>1, <4>1
    <3> HIDE DEF L
    <3> QED
      BY <1>0, <2>0, <3>1, <3>2
  <2> HIDE DEF a
  <2> QED
    BY <1>5, <2>8, <2>10, <2>11
<1> QED
  BY <1>0, <1>9, <1>10, <1>11, TokenIs DEF r, cap, w, t

\* All that zip writes for an input.
LEMMA ZippedIs ==
    ASSUME NEW s \in Seq(Byte)
    PROVE  /\ ZipBytes(s) \in Seq(Byte) /\ Len(ZipBytes(s)) <= 2 * Len(s)
           /\ ZipTurns(s)[Len(s)].at = Len(s) + 1
<1> DEFINE N == Len(s)
           v == ZipTurns(s)[N]
<1>0. N \in Nat
  OBVIOUS
<1>1. ZipAt(s, v, N) /\ ZipBytes(s) = v.out
  BY <1>0, ZipProgress DEF ZipBytes
<1> HIDE DEF v
<1>2. v.at \in Nat \ {0} /\ v.out \in Seq(Byte) /\ Len(v.out) \in Nat
  BY <1>1 DEF ZipAt, ZipStates
<1>3. /\ v.at <= N + 1 /\ (v.at <= N => N < v.at)
      /\ Len(v.out) <= 2 * (v.at - 1)
  BY <1>1 DEF ZipAt
<1> HIDE DEF N
<1>4. v.at = N + 1
  BY <1>0, <1>2, <1>3
<1>5. Len(v.out) <= 2 * N
  BY <1>0, <1>2, <1>3, <1>4
<1> QED
  BY <1>1, <1>2, <1>4, <1>5 DEF N, v

\* unzip is, after every turn, where zip was after as many.
LEMMA UnzipFollows ==
    ASSUME NEW s \in Seq(Byte)
    PROVE  \A n \in Nat : UnzipTurns(ZipBytes(s), Len(s))[n] = Restored(s, ZipTurns(s)[n])
<1> DEFINE z == ZipTurns(s)
           x == ZipBytes(s)
           N == Len(s)
           u == UnzipTurns(x, N)
           S == {n \in Nat : u[n] = Restored(s, z[n])}
<1>1. /\ z \in [Nat -> ZipStates] /\ z[0] = [at |-> 1, out |-> <<>>]
      /\ \A n \in Nat : z[n + 1] = ZipTurn(s, z[n])
  BY ZipTurnsAre
<1>2. x \in Seq(Byte) /\ N \in Nat /\ Len(x) \in Nat /\ x = z[N].out /\ z[N].at = N + 1
  BY ZippedIs DEF ZipBytes
<1>3. \A n \in Nat, m \in Nat : n <= m => Continues(s, z[n], z[m])
  BY ZipStays
<1>4. \A n \in Nat : ZipAt(s, z[n], n)
  BY ZipProgress
<1> HIDE DEF z, x
<1>5. /\ u[0] = [ok |-> TRUE, at |-> 1, out |-> <<>>]
      /\ \A n \in Nat : u[n + 1] = UnzipTurn(x, N, u[n])
  <2> HIDE DEF N
  <2> QED
    BY <1>2, UnzipTurnsAre
<1> HIDE DEF u
<1>6. 0 \in S
  <2>1. z[0].at - 1 = 0 /\ Len(z[0].out) + 1 = 1
    <3>1. z[0].at = 1 /\ z[0].out = <<>> /\ Len(<<>>) = 0
      BY <1>1
    <3> QED
      BY <3>1
  <2>2. SubSeq(s, 1, 0) = <<>>
    <3>1. SubSeq(s, 1, 0) \in Seq(Byte) /\ Len(SubSeq(s, 1, 0)) = 0
      BY <1>2, Cut
    <3> QED
      BY <3>1, EmptyIs
  <2> QED
    BY <1>5, <2>1, <2>2 DEF Restored
<1>7. ASSUME NEW n \in Nat, n \in S PROVE n + 1 \in S
  <2> DEFINE v == z[n]
             w == z[n + 1]
  <2>1. /\ u[n] = Restored(s, v) /\ v \in ZipStates /\ w = ZipTurn(s, v) /\ w \in ZipStates
        /\ u[n + 1] = UnzipTurn(x, N, u[n]) /\ v.at \in Nat \ {0}
    <3>1. u[n] = Restored(s, v) /\ u[n + 1] = UnzipTurn(x, N, u[n])
      BY <1>5, <1>7
    <3>2. v \in ZipStates /\ w = ZipTurn(s, v) /\ w \in ZipStates
      BY <1>1
    <3>3. v.at \in Nat \ {0}
      BY <3>2 DEF ZipStates
    <3> QED
      BY <3>1, <3>2, <3>3
  <2>2. CASE N < v.at
    <3>1. v.out = x
      <4>1. CASE n <= N
        <5>1. Continues(s, v, z[N])
          BY <1>2, <1>3, <4>1
        <5> QED
          BY <1>2, <2>2, <5>1 DEF Continues
      <4>2. CASE N <= n
        <5>1. Continues(s, z[N], v)
          BY <1>2, <1>3, <4>2
        <5>2. Len(s) < z[N].at
          BY <1>2
        <5> QED
          BY <1>2, <5>1, <5>2 DEF Continues
      <4> QED
        BY <1>2, <4>1, <4>2
    <3>2. w = v
      BY <2>1, <2>2, ZipTurnIs
    <3> DEFINE r == Restored(s, v)
    <3>3. r.at = Len(x) + 1
      BY <3>1 DEF Restored
    <3> HIDE DEF r
    <3>4. Len(x) + 1 - r.at < 1
      BY <1>2, <3>3
    <3>5. UnzipTurn(x, N, r) = r
      BY <3>4 DEF UnzipTurn
    <3>6. u[n + 1] = Restored(s, w)
      BY <2>1, <3>2, <3>5 DEF r
    <3> QED
      BY <3>6
  <2>3. CASE v.at <= N
    <3>1. n + 1 \in Nat /\ n + 1 <= N
      <4>1. ASSUME N <= n PROVE FALSE
        <5>1. Continues(s, z[N], v)
          BY <1>2, <1>3, <4>1
        <5>2. Len(s) < z[N].at
          BY <1>2
        <5>3. v.at = N + 1
          BY <1>2, <5>1, <5>2 DEF Continues
        <5> QED
          BY <1>2, <2>3, <5>3
      <4> QED
        BY <1>2, <4>1
    <3>2. Continues(s, w, z[N])
      <4> DEFINE m == n + 1
      <4>1. m \in Nat /\ m <= N
        BY <3>1
      <4> HIDE DEF m
      <4>2. Continues(s, z[m], z[N])
        BY <1>2, <1>3, <4>1
      <4> QED
        BY <4>2 DEF m
    <3>3. Len(w.out) <= Len(x) /\ \A k \in 1 .. Len(w.out) : x[k] = w.out[k]
      BY <1>2, <3>2 DEF Continues
    <3> HIDE DEF v, w
    <3>4. /\ Len(ZipTurn(s, v).out) <= Len(x)
          /\ \A k \in 1 .. Len(ZipTurn(s, v).out) : x[k] = ZipTurn(s, v).out[k]
      BY <2>1, <3>3
    <3>5. UnzipTurn(x, N, Restored(s, v)) = Restored(s, ZipTurn(s, v))
      BY <1>2, <2>1, <2>3, <3>4, TurnUndone
    <3>6. u[n + 1] = Restored(s, w)
      BY <2>1, <3>5
    <3> QED
      BY <3>6 DEF w
  <2> QED
    BY <1>2, <2>1, <2>2, <2>3
<1>8. \A n \in Nat : n \in S
  <2> HIDE DEF S
  <2> QED
    BY <1>6, <1>7, AllNaturals
<1> QED
  BY <1>8 DEF u, z, x

(***************************************************************************)
(* Whatever bytes are zipped, escapes, stretches at either end of a byte   *)
(* and copies that overlap their source included, unzip restores them into *)
(* a buffer of exactly their number (lz77.h:4-78).                         *)
(***************************************************************************)
THEOREM ZipLossless == \A s \in Seq(Byte) : UnzipUndoesZip(s)
<1> SUFFICES ASSUME NEW s \in Seq(Byte) PROVE UnzipUndoesZip(s)
  OBVIOUS
<1> DEFINE z == ZipTurns(s)
           x == ZipBytes(s)
           N == Len(s)
           M == Len(x)
           v == z[M]
           u == UnzipTurns(x, N)[M]
<1>1. N \in Nat /\ M \in Nat /\ x \in Seq(Byte) /\ x = z[N].out
  BY ZippedIs DEF ZipBytes
<1>2. u = Restored(s, v)
  BY <1>1, UnzipFollows
<1>3. v \in ZipStates /\ v.at \in Nat \ {0}
  BY <1>1, ZipTurnsAre DEF ZipStates
<1> HIDE DEF u
\* M turns read M bytes, all there are.
<1>4. v.at = N + 1
  <2>1. ZipAt(s, v, M)
    BY <1>1, ZipProgress
  <2>2. v.at <= N + 1 /\ (v.at <= N => M < v.at /\ M <= Len(v.out))
    BY <2>1 DEF ZipAt
  <2>3. ASSUME v.at <= N PROVE FALSE
    <3> DEFINE m == M + 1
    <3>1. m \in Nat /\ M < m
      BY <1>1
    <3>2. CASE N <= M
      <4>1. Continues(s, z[N], v)
        BY <1>1, <3>2, ZipStays
      <4>2. z[N].at = N + 1
        BY ZippedIs
      <4>3. v.at = N + 1
        BY <1>1, <4>1, <4>2 DEF Continues
      <4> QED
        BY <1>1, <2>3, <4>3
    <3>3. CASE M < N
      <4> DEFINE w == z[m]
      <4>1. ZipAt(s, w, m) /\ m <= N
        BY <1>1, <3>1, <3>3, ZipProgress
      <4>2. w = ZipTurn(s, v)
        BY <1>1, ZipTurnsAre
      <4> DEFINE t == Token(s, v.at)
      <4>3. w = [at |-> v.at + t.used, out |-> v.out \o t.out]
        BY <1>3, <2>3, <4>2, ZipTurnIs
      <4>4. v.out \in Seq(Byte) /\ t.out \in Seq(Byte) /\ Len(t.out) >= 1
        <5>1. v.at \in 1 .. N
          BY <1>1, <1>3, <2>3
        <5>2. t.out \in Seq(Byte) /\ Len(t.out) \in 1 .. 3
          BY <5>1, TokenFits
        <5> QED
          BY <1>3, <5>2 DEF ZipStates
      <4>5. Continues(s, w, z[N])
        BY <1>1, <3>1, <4>1, ZipStays
      <4>6. Len(w.out) <= M
        BY <1>1, <4>5 DEF Continues
      <4> HIDE DEF v, w, t
      <4>7. Len(w.out) = Len(v.out) + Len(t.out) /\ Len(v.out) \in Nat /\ Len(t.out) \in Nat
        <5> DEFINE p == v.out
                   q == t.out
                   o == p \o q
        <5>1. p \in Seq(Byte) /\ q \in Seq(Byte)
          BY <4>4
        <5>2. w.out = o
          BY <4>3
        <5> HIDE DEF p, q
        <5>3. Len(o) = Len(p) + Len(q) /\ Len(p) \in Nat /\ Len(q) \in Nat
          BY <5>1, ConcatIs
        <5> QED
          BY <5>2, <5>3 DEF p, q
      <4> DEFINE a == Len(v.out)
                 b == Len(t.out)
      <4>8. a \in Nat /\ b \in Nat /\ b >= 1 /\ a + b <= M /\ M <= a /\ M \in Nat
        BY <1>1, <2>2, <2>3, <4>4, <4>6, <4>7
      <4> HIDE DEF a, b, M
      <4> QED
        BY <4>8
    <3> QED
      BY <1>1, <3>2, <3>3
  <2> QED
    BY <1>1, <1>3, <2>2, <2>3
<1>5. v.at - 1 = N
  BY <1>1, <1>4
<1>6. SubSeq(s, 1, N) = s
  BY SubSeqFull
<1>7. u.ok = TRUE /\ u.out = s
  BY <1>2, <1>5, <1>6 DEF Restored
<1>8. Unzip(x, N) = [ok |-> u.ok, out |-> u.out]
  BY DEF Unzip, u
<1> QED
  BY <1>7, <1>8 DEF UnzipUndoesZip

(***************************************************************************)
(* Whatever bytes unzip is given, it writes nothing behind its buffer, and *)
(* no input grows to more than twice its length (lz77.h:4-78).             *)
(***************************************************************************)
THEOREM ZipBounded == \A s \in Seq(Byte), cap \in Nat : StaysWithin(s, cap)
<1> SUFFICES ASSUME NEW s \in Seq(Byte), NEW cap \in Nat PROVE StaysWithin(s, cap)
  OBVIOUS
<1> DEFINE u == UnzipTurns(s, cap)[Len(s)]
<1>1. Len(s) \in Nat
  OBVIOUS
<1>2. u \in UnzipStates(cap)
  BY <1>1, UnzipTurnsAre
<1>3. Len(u.out) <= cap
  BY <1>2 DEF UnzipStates
<1>4. Unzip(s, cap) = [ok |-> u.ok, out |-> u.out]
  BY DEF Unzip
<1> HIDE DEF u
<1>5. Unzip(s, cap).out = u.out
  BY <1>4
<1>6. Len(ZipBytes(s)) <= 2 * Len(s)
  BY ZippedIs
<1> QED
  BY <1>3, <1>5, <1>6 DEF StaysWithin

-----------------------------------------------------------------------------
(* Base64 *)

-----------------------------------------------------------------------------
(* Base64 *)

\* Three bytes out of their four characters.
LEMMA FirstOctet ==
    ASSUME NEW a \in 0 .. 255, NEW b \in 0 .. 255
    PROVE  ((a \div 4) * 4 + ((((a % 4) * 16 + (b \div 16)) % 64) \div 16)) % 256 = a
OBVIOUS

\* The second byte of a group comes back from its second and third character.
LEMMA SecondOctet ==
    ASSUME NEW a \in 0 .. 255, NEW b \in 0 .. 255, NEW c \in 0 .. 255
    PROVE  ((((a % 4) * 16 + (b \div 16)) % 16) * 16
              + ((((b % 16) * 4 + (c \div 64)) % 64) \div 4)) % 256 = b
OBVIOUS

\* The third byte of a group comes back from its last two characters.
LEMMA ThirdOctet ==
    ASSUME NEW b \in 0 .. 255, NEW c \in 0 .. 255
    PROVE  ((((b % 16) * 4 + (c \div 64)) % 4) * 64 + (c % 64)) % 256 = c
OBVIOUS

\* The character at place j + 1 of group g + 1, before the padding.
LEMMA EncodedIs ==
    ASSUME NEW s \in Seq(0 .. 255)
    PROVE  LET N == Len(s)
               c == base64_encode(s)
               W == (4 * N + 2) \div 3
               at(k) == IF k <= N THEN s[k] ELSE 0
           IN  /\ W \in Nat /\ c \in Seq(0 .. 64) /\ W <= Len(c)
               /\ \A k \in 1 .. Len(c) : c[k] = Pad <=> W < k
               /\ \A g \in Nat, j \in 0 .. 3 : 4 * g + j + 1 <= W =>
                    c[4 * g + j + 1] =
                      Sextets(<<at(3 * g + 1), at(3 * g + 2), at(3 * g + 3)>>)[j + 1]
<1> DEFINE N == Len(s)
           c == base64_encode(s)
           W == (4 * N + 2) \div 3
           at(k) == IF k <= N THEN s[k] ELSE 0
           G == (N + 3 - 1) \div 3
           T(g) == <<at(3 * g + 1), at(3 * g + 2), at(3 * g + 3)>>
           groups == Groups(s, 3, 0)
           char(k) == IF k <= W THEN Sextets(groups[1 + (k - 1) \div 4])[1 + ((k - 1) % 4)] ELSE Pad
<1>1. N \in Nat /\ \A k \in 1 .. N : s[k] \in 0 .. 255
  BY EmptyIs
<1>2. \A k \in Nat \ {0} : at(k) \in 0 .. 255
  BY <1>1
<1>3. G \in Nat /\ W \in Nat /\ W <= 4 * G /\ 4 * G < W + 4
  <2> HIDE DEF N
  <2> QED
    BY <1>1
<1>4. groups = [g \in 1 .. G |-> [i \in 1 .. 3 |-> IF 3 * (g - 1) + i <= N THEN s[3 * (g - 1) + i] ELSE 0]]
  BY DEF Groups
<1>5. c = [k \in 1 .. 4 * Len(groups) |-> char(k)]
  BY DEF base64_encode
<1> HIDE DEF groups, c, N, G, W
<1>6. Len(groups) = G
  BY <1>3, <1>4
<1>7. ASSUME NEW g \in Nat, g + 1 \in 1 .. G
      PROVE  /\ groups[g + 1][1] = at(3 * g + 1) /\ groups[g + 1][2] = at(3 * g + 2)
             /\ groups[g + 1][3] = at(3 * g + 3)
  <2> DEFINE h == g + 1
  <2>1. h \in 1 .. G /\ 3 * (h - 1) + 1 = 3 * g + 1 /\ 3 * (h - 1) + 2 = 3 * g + 2
        /\ 3 * (h - 1) + 3 = 3 * g + 3
    BY <1>7
  <2> HIDE DEF h
  <2>2. groups[h] = [i \in 1 .. 3 |-> IF 3 * (h - 1) + i <= N THEN s[3 * (h - 1) + i] ELSE 0]
    BY <1>4, <2>1
  <2>3. /\ groups[h][1] = at(3 * (h - 1) + 1) /\ groups[h][2] = at(3 * (h - 1) + 2)
        /\ groups[h][3] = at(3 * (h - 1) + 3)
    BY <2>2
  <2> QED
    BY <2>1, <2>3 DEF h
<1>8. ASSUME NEW g \in Nat, g + 1 \in 1 .. G
      PROVE  /\ Sextets(groups[g + 1]) = Sextets(T(g))
             /\ \A j \in 0 .. 3 : Sextets(T(g))[j + 1] \in 0 .. 63
  <2> DEFINE p == at(3 * g + 1)
             q == at(3 * g + 2)
             r == at(3 * g + 3)
  <2>1. p \in 0 .. 255 /\ q \in 0 .. 255 /\ r \in 0 .. 255
    <3>1. 3 * g + 1 \in Nat \ {0} /\ 3 * g + 2 \in Nat \ {0} /\ 3 * g + 3 \in Nat \ {0}
      OBVIOUS
    <3> QED
      BY <1>2, <3>1
  <2>2. groups[g + 1][1] = p /\ groups[g + 1][2] = q /\ groups[g + 1][3] = r
    BY <1>7, <1>8
  <2>3. T(g)[1] = p /\ T(g)[2] = q /\ T(g)[3] = r
    OBVIOUS
  <2> HIDE DEF T, p, q, r
  <2> DEFINE e1 == p \div 4
             e2 == (p % 4) * 16 + (q \div 16)
             e3 == (q % 16) * 4 + (r \div 64)
             e4 == r % 64
  <2>4. Sextets(T(g)) = <<e1, e2, e3, e4>> /\ Sextets(groups[g + 1]) = <<e1, e2, e3, e4>>
    BY <2>2, <2>3 DEF Sextets
  <2>5. e1 \in 0 .. 63 /\ e2 \in 0 .. 63 /\ e3 \in 0 .. 63 /\ e4 \in 0 .. 63
    <3>1. e1 \in 0 .. 63 /\ e4 \in 0 .. 63
      BY <2>1
    <3> DEFINE p4 == p % 4
               q16 == q \div 16
               q4 == q % 16
               r64 == r \div 64
    <3>2. p4 \in 0 .. 3 /\ q16 \in 0 .. 15 /\ q4 \in 0 .. 15 /\ r64 \in 0 .. 3
      BY <2>1
    <3> HIDE DEF p4, q16, q4, r64
    <3>3. p4 * 16 + q16 \in 0 .. 63 /\ q4 * 4 + r64 \in 0 .. 63
      BY ONLY <3>2
    <3>4. e2 = p4 * 16 + q16 /\ e3 = q4 * 4 + r64
      BY DEF p4, q16, q4, r64
    <3> HIDE DEF e2, e3
    <3> QED
      BY <3>1, <3>3, <3>4
  <2> HIDE DEF e1, e2, e3, e4
  <2>6. ASSUME NEW j \in 1 .. 4 PROVE <<e1, e2, e3, e4>>[j] \in 0 .. 63
    <3>1. j = 1 \/ j = 2 \/ j = 3 \/ j = 4
      OBVIOUS
    <3> DEFINE e == <<e1, e2, e3, e4>>
    <3>2. e[1] = e1 /\ e[2] = e2 /\ e[3] = e3 /\ e[4] = e4
      OBVIOUS
    <3> HIDE DEF e
    <3>3. e[j] \in 0 .. 63
      BY <2>5, <3>1, <3>2
    <3> QED
      BY <3>3 DEF e
  <2>7. \A j \in 0 .. 3 : j + 1 \in 1 .. 4
    OBVIOUS
  <2> QED
    BY <2>4, <2>6, <2>7
<1> HIDE DEF at
<1>9. ASSUME NEW g \in Nat, NEW j \in 0 .. 3, 4 * g + j + 1 <= W
      PROVE  /\ 4 * g + j + 1 \in 1 .. 4 * G
             /\ char(4 * g + j + 1) = Sextets(T(g))[j + 1]
             /\ char(4 * g + j + 1) \in 0 .. 63
  <2> DEFINE k == 4 * g + j + 1
  <2>1. k \in 1 .. 4 * G /\ 1 + (k - 1) \div 4 = g + 1 /\ 1 + ((k - 1) % 4) = j + 1
    BY <1>3, <1>9
  <2>2. g + 1 \in 1 .. G
    BY <1>3, <1>9
  <2> HIDE DEF k, T
  <2>3. k <= W
    BY <1>9 DEF k
  <2>4. char(k) = Sextets(groups[g + 1])[j + 1]
    BY <2>1, <2>3
  <2>5. Sextets(groups[g + 1]) = Sextets(T(g)) /\ Sextets(T(g))[j + 1] \in 0 .. 63
    BY <1>8, <2>2
  <2> HIDE DEF char
  <2> QED
    BY <2>1, <2>4, <2>5 DEF k
<1>10. ASSUME NEW k \in 1 .. 4 * G PROVE /\ char(k) \in 0 .. 64 /\ (char(k) = Pad <=> W < k)
  <2>1. CASE k <= W
    <3> DEFINE g == (k - 1) \div 4
               j == (k - 1) % 4
    <3>1. g \in Nat /\ j \in 0 .. 3 /\ 4 * g + j + 1 = k
      BY <1>3
    <3> HIDE DEF g, j, char
    <3>2. char(k) \in 0 .. 63
      <4> DEFINE i == 4 * g + j + 1
      <4>1. i = k /\ i <= W
        BY <2>1, <3>1
      <4>2. char(i) \in 0 .. 63
        BY <1>9, <3>1, <4>1
      <4> HIDE DEF i
      <4> QED
        BY <4>1, <4>2
    <3>3. char(k) \in 0 .. 64 /\ char(k) # 64
      <4> DEFINE e == char(k)
      <4>1. e \in 0 .. 63
        BY <3>2
      <4> HIDE DEF e
      <4>2. e \in 0 .. 64 /\ e # 64
        BY <4>1
      <4> QED
        BY <4>2 DEF e
    <3>4. ~(W < k)
      BY <1>3, <2>1
    <3> QED
      BY <3>3, <3>4 DEF Pad
  <2>2. CASE W < k
    <3>1. char(k) = Pad
      BY <1>3, <2>2
    <3> HIDE DEF char
    <3> QED
      BY <2>2, <3>1 DEF Pad
  <2> QED
    BY <1>3, <2>1, <2>2, SMTT(30)
<1>11. c = [k \in 1 .. 4 * G |-> char(k)]
  BY <1>5, <1>6
<1> HIDE DEF char
<1>12. c \in Seq(0 .. 64) /\ Len(c) = 4 * G
  BY <1>3, <1>10, <1>11
<1>13. \A k \in 1 .. 4 * G : c[k] = char(k)
  BY <1>11
<1>14. \A k \in 1 .. Len(c) : c[k] = Pad <=> W < k
  BY <1>10, <1>12, <1>13
<1>15. ASSUME NEW g \in Nat, NEW j \in 0 .. 3, 4 * g + j + 1 <= W
       PROVE  c[4 * g + j + 1] = Sextets(T(g))[j + 1]
  <2> HIDE DEF T
  <2> DEFINE i == 4 * g + j + 1
  <2>1. i \in 1 .. 4 * G /\ char(i) = Sextets(T(g))[j + 1]
    BY <1>9, <1>15
  <2> HIDE DEF i
  <2>2. c[i] = char(i)
    BY <1>13, <2>1
  <2> QED
    BY <2>1, <2>2 DEF i
<1>16. W <= Len(c)
  BY <1>3, <1>12
<1> QED
  BY <1>3, <1>12, <1>14, <1>15, <1>16 DEF c, W, N, at

\* What decoding makes of a group, from the characters a byte is spread over.
Decodes(f, t, a, b, c) ==
    /\ f[1] = t[1] /\ f[2] = t[2] => Octets(f)[1] = a
    /\ f[2] = t[2] /\ f[3] = t[3] => Octets(f)[2] = b
    /\ f[3] = t[3] /\ f[4] = t[4] => Octets(f)[3] = c

\* Each byte of a group is read back from the characters it is in.
LEMMA GroupDecoded ==
    ASSUME NEW a \in 0 .. 255, NEW b \in 0 .. 255, NEW c \in 0 .. 255,
           NEW f, NEW t, t = Sextets(<<a, b, c>>)
    PROVE  Decodes(f, t, a, b, c)
<1> DEFINE e1 == a \div 4
           e2 == (a % 4) * 16 + (b \div 16)
           e3 == (b % 16) * 4 + (c \div 64)
           e4 == c % 64
           o1 == (f[1] * 4 + ((f[2] % 64) \div 16)) % 256
           o2 == ((f[2] % 16) * 16 + ((f[3] % 64) \div 4)) % 256
           o3 == ((f[3] % 4) * 64 + f[4]) % 256
<1>1. t[1] = e1 /\ t[2] = e2 /\ t[3] = e3 /\ t[4] = e4
  <2> DEFINE p == <<a, b, c>>
  <2>1. p[1] = a /\ p[2] = b /\ p[3] = c
    OBVIOUS
  <2> HIDE DEF p
  <2> QED
    BY <2>1 DEF Sextets, p
<1>2. Octets(f)[1] = o1 /\ Octets(f)[2] = o2 /\ Octets(f)[3] = o3
  BY DEF Octets
<1>3. (e1 * 4 + ((e2 % 64) \div 16)) % 256 = a
  BY FirstOctet
<1>4. ((e2 % 16) * 16 + ((e3 % 64) \div 4)) % 256 = b
  OBVIOUS
<1>5. ((e3 % 4) * 64 + e4) % 256 = c
  BY ThirdOctet
<1> HIDE DEF e1, e2, e3, e4
<1> QED
  BY <1>1, <1>2, <1>3, <1>4, <1>5 DEF Decodes

\* What stands in front of the first pad is read back.
LEMMA DecodedIs ==
    ASSUME NEW c \in Seq(0 .. 64), NEW W \in Nat, W <= Len(c),
           \A k \in 1 .. Len(c) : c[k] = Pad <=> W < k
    PROVE  LET d == base64_decode(c)
               G == (W + 3) \div 4
               at(k) == IF k <= W THEN c[k] ELSE NotFound
               F(g) == [i \in 1 .. 4 |-> at(4 * g + i)]
           IN  d = [k \in 1 .. (3 * W) \div 4 |->
                      Octets(F((k - 1) \div 3))[1 + ((k - 1) % 3)]]
<1> DEFINE pads == {i \in 1 .. Len(c) : c[i] = Pad}
           valid == IF pads = {} THEN c ELSE SubSeq(c, 1, Min(pads) - 1)
           at(k) == IF k <= W THEN c[k] ELSE NotFound
           F(g) == [i \in 1 .. 4 |-> at(4 * g + i)]
           groups == Groups(valid, 4, NotFound)
<1>0. Len(c) \in Nat
  OBVIOUS
<1>1. Len(valid) = W /\ \A k \in 1 .. W : valid[k] = c[k]
  <2>1. CASE pads = {}
    <3>1. W = Len(c)
      <4>1. ASSUME W # Len(c) PROVE FALSE
        <5>1. Len(c) \in 1 .. Len(c) /\ W < Len(c)
          BY <1>0, <4>1
        <5>2. Len(c) \in pads
          BY <5>1
        <5> QED
          BY <2>1, <5>2
      <4> QED
        BY <4>1
    <3> QED
      BY <2>1, <3>1
  <2>2. CASE pads # {}
    <3>1. pads \in SUBSET Nat
      BY <1>0
    <3>2. Min(pads) \in pads /\ \A x \in pads : Min(pads) <= x
      <4> HIDE DEF pads
      <4> QED
        BY <2>2, <3>1, MinOf
    <3> DEFINE m == Min(pads)
    <3>3. m \in 1 .. Len(c) /\ W < m /\ \A x \in pads : m <= x
      BY <3>2
    <3>4. W + 1 \in pads
      <4> DEFINE j == W + 1
      <4>1. j \in 1 .. Len(c) /\ W < j
        BY <1>0, <3>3
      <4> HIDE DEF j
      <4> QED
        BY <4>1 DEF j
    <3>5. m <= W + 1
      BY <3>3, <3>4
    <3>6. m - 1 = W
      <4> HIDE DEF m
      <4> QED
        BY <1>0, <3>3, <3>5
    <3>7. valid = SubSeq(c, 1, W)
      BY <2>2, <3>6
    <3> DEFINE front == SubSeq(c, 1, W)
    <3>8. Len(front) = W /\ \A k \in 1 .. W : front[k] = c[k]
      BY Cut
    <3> HIDE DEF front, valid
    <3> QED
      BY <3>7, <3>8 DEF front
  <2> QED
    BY <2>1, <2>2
<1>2. base64_decode(c) = [k \in 1 .. (3 * Len(valid)) \div 4 |->
                            Octets(groups[1 + (k - 1) \div 3])[1 + ((k - 1) % 3)]]
  BY DEF base64_decode
<1>3. groups = [g \in 1 .. (Len(valid) + 4 - 1) \div 4 |->
                  [i \in 1 .. 4 |-> IF 4 * (g - 1) + i <= Len(valid)
                                    THEN valid[4 * (g - 1) + i] ELSE NotFound]]
  BY DEF Groups
<1> HIDE DEF valid, groups
<1>4. groups = [g \in 1 .. (W + 4 - 1) \div 4 |->
                  [i \in 1 .. 4 |-> IF 4 * (g - 1) + i <= W
                                    THEN valid[4 * (g - 1) + i] ELSE NotFound]]
  BY <1>1, <1>3
<1>5. ASSUME NEW k \in 1 .. (3 * W) \div 4
      PROVE  groups[1 + (k - 1) \div 3] = F((k - 1) \div 3)
  <2> DEFINE g == (k - 1) \div 3
             h == 1 + g
  <2>1. g \in Nat /\ h \in 1 .. (W + 4 - 1) \div 4 /\ h - 1 = g
    OBVIOUS
  <2> HIDE DEF g, h
  <2>2. groups[h] = [i \in 1 .. 4 |-> IF 4 * (h - 1) + i <= W
                                      THEN valid[4 * (h - 1) + i] ELSE NotFound]
    BY <1>4, <2>1
  <2>3. ASSUME NEW i \in 1 .. 4
        PROVE  (IF 4 * (h - 1) + i <= W THEN valid[4 * (h - 1) + i] ELSE NotFound) = at(4 * g + i)
    <3> DEFINE n == 4 * g + i
    <3>1. n \in Nat \ {0} /\ 4 * (h - 1) + i = n
      BY <2>1
    <3> HIDE DEF n
    <3>2. n <= W => valid[n] = c[n]
      BY <1>1, <3>1
    <3> QED
      BY <3>1, <3>2 DEF n
  <2>4. groups[h] = F(g)
    <3> HIDE DEF at
    <3> QED
      BY <2>2, <2>3
  <2> QED
    BY <2>4 DEF h, g
<1> HIDE DEF F
<1> QED
  BY <1>1, <1>2, <1>5 DEF F

(***************************************************************************)
(* base64_decode gives back every string of bytes base64_encode was given, *)
(* whatever its last group lacks (base64.cpp:41-123).                      *)
(***************************************************************************)
THEOREM Base64Lossless == \A s \in Seq(0 .. 255) : DecodeUndoesEncode(s)
<1> SUFFICES ASSUME NEW s \in Seq(0 .. 255) PROVE DecodeUndoesEncode(s)
  OBVIOUS
<1> DEFINE N == Len(s)
           c == base64_encode(s)
           W == (4 * N + 2) \div 3
           at(k) == IF k <= N THEN s[k] ELSE 0
           F(g) == [i \in 1 .. 4 |-> IF 4 * g + i <= W THEN c[4 * g + i] ELSE NotFound]
           d == base64_decode(c)
           O(k) == Octets(F((k - 1) \div 3))[1 + ((k - 1) % 3)]
<1>1. /\ W \in Nat /\ c \in Seq(0 .. 64) /\ W <= Len(c)
      /\ \A k \in 1 .. Len(c) : c[k] = Pad <=> W < k
      /\ \A g \in Nat, j \in 0 .. 3 : 4 * g + j + 1 <= W =>
           c[4 * g + j + 1] =
             Sextets(<<at(3 * g + 1), at(3 * g + 2), at(3 * g + 3)>>)[j + 1]
  BY EncodedIs
<1>2. N \in Nat /\ \A k \in 1 .. N : s[k] \in 0 .. 255
  BY EmptyIs
<1> HIDE DEF c
<1>3. (3 * W) \div 4 = N
  <2> HIDE DEF N
  <2> QED
    BY <1>2
<1>4. d = [k \in 1 .. (3 * W) \div 4 |-> O(k)]
  <2> HIDE DEF W
  <2> QED
    BY <1>1, DecodedIs
<1> HIDE DEF N, d
<1>5. ASSUME NEW k \in 1 .. N PROVE O(k) = s[k]
  <2> DEFINE g == (k - 1) \div 3
             i == (k - 1) % 3
             p == at(3 * g + 1)
             q == at(3 * g + 2)
             r == at(3 * g + 3)
             t == Sextets(<<p, q, r>>)
             f == F(g)
  <2>1. g \in Nat /\ i \in 0 .. 2 /\ 3 * g + i + 1 = k
    BY <1>2
  <2> HIDE DEF g, i
  <2>2. p \in 0 .. 255 /\ q \in 0 .. 255 /\ r \in 0 .. 255
    <3>1. \A n \in Nat \ {0} : at(n) \in 0 .. 255
      BY <1>2
    <3>2. 3 * g + 1 \in Nat \ {0} /\ 3 * g + 2 \in Nat \ {0} /\ 3 * g + 3 \in Nat \ {0}
      BY <2>1
    <3> HIDE DEF at
    <3> QED
      BY <3>1, <3>2
  <2>3. ASSUME NEW j \in 0 .. 3, 4 * g + j + 1 <= W PROVE f[j + 1] = t[j + 1]
    <3> DEFINE e == j + 1
    <3>1. c[4 * g + j + 1] = t[j + 1]
      BY <1>1, <2>1, <2>3
    <3>2. e \in 1 .. 4 /\ 4 * g + e = 4 * g + j + 1
      BY <2>1
    <3> HIDE DEF e, t, W
    <3>3. f[e] = IF 4 * g + e <= W THEN c[4 * g + e] ELSE NotFound
      BY <3>2
    <3> QED
      BY <2>3, <3>1, <3>2, <3>3 DEF e
  <2> HIDE DEF p, q, r, f
  <2>4. Decodes(f, t, p, q, r)
    <3>1. t = Sextets(<<p, q, r>>)
      OBVIOUS
    <3> HIDE DEF t
    <3> QED
      BY <2>2, <3>1, GroupDecoded
  <2> HIDE DEF t
  <2>5. /\ 4 * g + 0 + 1 <= W => f[1] = t[1]
        /\ 4 * g + 1 + 1 <= W => f[2] = t[2]
        /\ 4 * g + 2 + 1 <= W => f[3] = t[3]
        /\ 4 * g + 3 + 1 <= W => f[4] = t[4]
    <3>1. 0 + 1 = 1 /\ 1 + 1 = 2 /\ 2 + 1 = 3 /\ 3 + 1 = 4
      OBVIOUS
    <3>2. 4 * g + 0 + 1 <= W => f[0 + 1] = t[0 + 1]
      BY <2>3
    <3>3. 4 * g + 1 + 1 <= W => f[1 + 1] = t[1 + 1]
      BY <2>3
    <3>4. 4 * g + 2 + 1 <= W => f[2 + 1] = t[2 + 1]
      BY <2>3
    <3>5. 4 * g + 3 + 1 <= W => f[3 + 1] = t[3 + 1]
      BY <2>3
    <3> QED
      BY <3>1, <3>2, <3>3, <3>4, <3>5
  <2>6. CASE i = 0
    <3>1. 3 * g + 1 = k /\ 4 * g + 0 + 1 <= W /\ 4 * g + 1 + 1 <= W
      BY <1>2, <2>1, <2>6
    <3>2. Octets(f)[1] = p /\ p = s[k] /\ 1 + i = 1
      <4>1. p = s[k]
        BY <3>1 DEF p
      <4> QED
        BY <2>4, <2>5, <2>6, <3>1, <4>1 DEF Decodes
    <3> QED
      BY <3>2 DEF f, g, i
  <2>7. CASE i = 1
    <3>1. 3 * g + 2 = k /\ 4 * g + 1 + 1 <= W /\ 4 * g + 2 + 1 <= W
      BY <1>2, <2>1, <2>7
    <3>2. Octets(f)[2] = q /\ q = s[k] /\ 1 + i = 2
      <4>1. q = s[k]
        BY <3>1 DEF q
      <4> QED
        BY <2>4, <2>5, <2>7, <3>1, <4>1 DEF Decodes
    <3> QED
      BY <3>2 DEF f, g, i
  <2>8. CASE i = 2
    <3>1. 3 * g + 3 = k /\ 4 * g + 2 + 1 <= W /\ 4 * g + 3 + 1 <= W
      BY <1>2, <2>1, <2>8
    <3>2. Octets(f)[3] = r /\ r = s[k] /\ 1 + i = 3
      <4>1. r = s[k]
        BY <3>1 DEF r
      <4> QED
        BY <2>4, <2>5, <2>8, <3>1, <4>1 DEF Decodes
    <3> QED
      BY <3>2 DEF f, g, i
  <2> QED
    BY <2>1, <2>6, <2>7, <2>8
<1> HIDE DEF O, W
<1>6. d = s
  <2>1. d = [k \in 1 .. N |-> s[k]]
    BY <1>3, <1>4, <1>5
  <2>2. s = [k \in 1 .. N |-> s[k]]
    BY DEF N
  <2> QED
    BY <2>1, <2>2
<1> QED
  BY <1>6 DEF DecodeUndoesEncode, d, c

-----------------------------------------------------------------------------
(* Sha1 *)

\* The states of the object, over any bytes.
ShaStates(T) == [block : Seq(T), blocks : Seq(Seq(T)), Length_Low : Nat]

\* The object after Reset.
LEMMA EmptyObject ==
    ASSUME NEW T
    PROVE  Reset \in ShaStates(T)
<1>1. <<>> \in Seq(T) /\ <<>> \in Seq(Seq(T))
  OBVIOUS
<1> QED
  BY <1>1 DEF Reset, ShaStates

\* A sequence one longer.
LEMMA AppendIs ==
    ASSUME NEW S, NEW s \in Seq(S), NEW e \in S
    PROVE  /\ Append(s, e) \in Seq(S) /\ Len(Append(s, e)) = Len(s) + 1
           /\ \A i \in 1 .. Len(s) : Append(s, e)[i] = s[i]
           /\ Append(s, e)[Len(s) + 1] = e
OBVIOUS

\* A block that is processed leaves an empty one.
LEMMA ProcessIs ==
    ASSUME NEW T, NEW v \in ShaStates(T)
    PROVE  /\ ProcessMessageBlock(v) \in ShaStates(T)
           /\ ProcessMessageBlock(v).block = <<>>
           /\ ProcessMessageBlock(v).blocks = Append(v.blocks, v.block)
           /\ ProcessMessageBlock(v).Length_Low = v.Length_Low
<1> DEFINE bs == Append(v.blocks, v.block)
           SetB == Seq(T)
           SetC == Seq(Seq(T))
<1>1. v \in [block : SetB, blocks : SetC, Length_Low : Nat]
  BY DEF ShaStates
<1>2. <<>> \in SetB
  OBVIOUS
<1>3. bs \in SetC
  <2>1. v.block \in Seq(T) /\ v.blocks \in Seq(Seq(T))
    BY <1>1
  <2> QED
    BY <2>1
<1>4. ProcessMessageBlock(v) = [v EXCEPT !.block = <<>>, !.blocks = bs]
  BY DEF ProcessMessageBlock
<1> DEFINE w == [v EXCEPT !.block = <<>>, !.blocks = bs]
<1> HIDE DEF SetB, SetC, bs
<1>5. w \in [block : SetB, blocks : SetC, Length_Low : Nat]
  BY <1>1, <1>2, <1>3
<1>6. w.block = <<>> /\ w.blocks = bs /\ w.Length_Low = v.Length_Low
  BY <1>1
<1>7. w \in ShaStates(T)
  BY <1>5 DEF ShaStates, SetB, SetC
<1> QED
  BY <1>4, <1>6, <1>7 DEF bs

\* What Input does with a byte.
LEMMA InputIs ==
    ASSUME NEW T, NEW v \in ShaStates(T), NEW e \in T
    PROVE  LET w == Input(v, e)
               filled == Len(v.block) + 1 = BlockBytes
           IN  /\ w \in ShaStates(T)
               /\ w.Length_Low = v.Length_Low + 8
               /\ w.block = IF filled THEN <<>> ELSE Append(v.block, e)
               /\ w.blocks = IF filled THEN Append(v.blocks, Append(v.block, e)) ELSE v.blocks
<1> DEFINE a == Append(v.block, e)
           l == v.Length_Low + 8
           SetB == Seq(T)
           SetC == Seq(Seq(T))
           t == [v EXCEPT !.block = a, !.Length_Low = l]
<1>1. v \in [block : SetB, blocks : SetC, Length_Low : Nat]
  BY DEF ShaStates
<1>2. /\ a \in SetB /\ l \in Nat /\ Len(a) = Len(v.block) + 1
  <2>1. v.block \in Seq(T) /\ v.Length_Low \in Nat
    BY <1>1
  <2> QED
    BY <2>1
<1>3. Input(v, e) = IF Len(t.block) = BlockBytes THEN ProcessMessageBlock(t) ELSE t
  BY DEF Input
<1> HIDE DEF SetB, SetC, a, l
<1>4. t \in [block : SetB, blocks : SetC, Length_Low : Nat]
  BY <1>1, <1>2
<1>5. t.block = a /\ t.blocks = v.blocks /\ t.Length_Low = l
  BY <1>1
<1>6. t \in ShaStates(T)
  BY <1>4 DEF ShaStates, SetB, SetC
<1> HIDE DEF t
<1>7. /\ ProcessMessageBlock(t) \in ShaStates(T)
      /\ ProcessMessageBlock(t).block = <<>>
      /\ ProcessMessageBlock(t).blocks = Append(t.blocks, t.block)
      /\ ProcessMessageBlock(t).Length_Low = t.Length_Low
  BY <1>6, ProcessIs
<1>8. CASE Len(v.block) + 1 = BlockBytes
  <2>1. Input(v, e) = ProcessMessageBlock(t)
    BY <1>2, <1>3, <1>5, <1>8
  <2> QED
    BY <1>5, <1>7, <1>8, <2>1 DEF a, l
<1>9. CASE Len(v.block) + 1 # BlockBytes
  <2>1. Input(v, e) = t
    BY <1>2, <1>3, <1>5, <1>9
  <2> QED
    BY <1>5, <1>6, <1>9, <2>1 DEF a, l
<1> QED
  BY <1>8, <1>9

\* Fed takes Input byte after byte.
LEMMA FedIs ==
    ASSUME NEW T, NEW m \in Seq(T)
    PROVE  /\ Fed(m)[0] = Reset
           /\ \A n \in 0 .. Len(m) : Fed(m)[n] \in ShaStates(T)
           /\ \A n \in 1 .. Len(m) : Fed(m)[n] = Input(Fed(m)[n - 1], m[n])
<1> DEFINE N == Len(m)
           V == ShaStates(T)
           turn(n, v) == IF n \in 1 .. N THEN Input(v, m[n]) ELSE v
           step == [n \in Nat |-> [v \in V |-> turn(n, v)]]
           Eq(z) == z = [n \in 0 .. N |-> IF n = 0 THEN Reset ELSE Input(z[n - 1], m[n])]
<1>1. N \in Nat /\ \A n \in 1 .. N : m[n] \in T
  BY EmptyIs
<1> HIDE DEF N
<1>2. Reset \in V
  BY EmptyObject
<1>3. \A n \in Nat, v \in V : turn(n, v) \in V
  BY <1>1, InputIs
<1> HIDE DEF V
<1>4. step \in [Nat -> [V -> V]]
  <2> HIDE DEF turn
  <2> QED
    BY <1>3
<1>5. PICK f : AllTurns(f, Reset, step, V)
  <2> HIDE DEF step
  <2> QED
    BY <1>2, <1>4, TurnsExist
<1>6. ASSUME NEW n \in 1 .. N PROVE f[n] = Input(f[n - 1], m[n])
  <2> DEFINE k == n - 1
  <2>1. k \in Nat /\ k + 1 = n /\ n \in Nat
    BY <1>1
  <2> HIDE DEF k
  <2>2. f[n] = step[n][f[k]] /\ f[k] \in V
    BY <1>5, <2>1 DEF AllTurns
  <2>3. step[n][f[k]] = Input(f[k], m[n])
    BY <2>1, <2>2
  <2> QED
    BY <2>2, <2>3 DEF k
<1>7. \A n \in 0 .. N : f[n] \in V
  BY <1>1, <1>5 DEF AllTurns
<1>8. f[0] = Reset
  BY <1>5 DEF AllTurns
<1> HIDE DEF step
<1> DEFINE h == [n \in 0 .. N |-> f[n]]
<1>9. ASSUME NEW n \in 0 .. N
      PROVE  f[n] = IF n = 0 THEN Reset ELSE Input(h[n - 1], m[n])
  <2>1. CASE n = 0
    BY <1>8, <2>1
  <2>2. CASE n # 0
    <3>1. n \in 1 .. N /\ n - 1 \in 0 .. N
      BY <1>1, <2>2
    <3>2. h[n - 1] = f[n - 1]
      BY <3>1
    <3> QED
      BY <1>6, <2>2, <3>1, <3>2
  <2> QED
    BY <2>1, <2>2
<1>10. Eq(h)
  BY <1>9
<1>11. Fed(m) = CHOOSE z : Eq(z)
  BY DEF Fed, N
<1>12. Eq(Fed(m))
  <2> HIDE DEF Eq, h
  <2> QED
    BY <1>10, <1>11
<1> DEFINE z == Fed(m)
<1>13. z = [n \in 0 .. N |-> IF n = 0 THEN Reset ELSE Input(z[n - 1], m[n])]
  BY <1>12
<1> HIDE DEF z, Eq
<1>14. z[0] = Reset /\ \A n \in 1 .. N : z[n] = Input(z[n - 1], m[n])
  <2>1. 0 \in 0 .. N /\ \A n \in 1 .. N : n \in 0 .. N /\ n # 0
    BY <1>1
  <2> QED
    BY <1>13, <2>1
<1> DEFINE S == {n \in Nat : n <= N => z[n] \in V}
<1>15. 0 \in S
  BY <1>2, <1>14
<1>16. ASSUME NEW n \in Nat, n \in S PROVE n + 1 \in S
  <2> DEFINE k == n + 1
  <2>1. k \in Nat /\ k - 1 = n
    OBVIOUS
  <2> HIDE DEF k
  <2>2. ASSUME k <= N PROVE z[k] \in V
    <3>1. k \in 1 .. N /\ n <= N
      BY <1>1, <2>1, <2>2
    <3>2. z[n] \in V /\ m[k] \in T
      BY <1>1, <1>16, <3>1
    <3>3. z[k] = Input(z[n], m[k])
      BY <1>14, <2>1, <3>1
    <3>4. Input(z[n], m[k]) \in V
      BY <3>2, InputIs DEF V
    <3> QED
      BY <3>3, <3>4
  <2> QED
    BY <2>1, <2>2 DEF k
<1>17. \A n \in Nat : n \in S
  <2> HIDE DEF S
  <2> QED
    BY <1>15, <1>16, AllNaturals
<1>18. \A n \in 0 .. N : z[n] \in V
  BY <1>1, <1>17
<1> QED
  BY <1>14, <1>18 DEF z, N, V

\* The bytes of a message that are in blocks, and those that fill the next.
CutAfter(m, n, v) ==
    /\ BlockBytes * Len(v.blocks) + Len(v.block) = n
    /\ Len(v.block) < BlockBytes
    /\ v.Length_Low = 8 * n
    /\ \A b \in Nat : b < Len(v.blocks) =>
          /\ Len(v.blocks[b + 1]) = BlockBytes
          /\ \A i \in 1 .. BlockBytes : v.blocks[b + 1][i] = m[BlockBytes * b + i]
    /\ \A i \in 1 .. Len(v.block) : v.block[i] = m[BlockBytes * Len(v.blocks) + i]

\* One more block is its bytes more.
LEMMA Times ==
    ASSUME NEW b \in Nat, NEW k \in Nat
    PROVE  b * k \in Nat /\ b * (k + 1) = b * k + b /\ b * 0 = 0
OBVIOUS

\* A byte more keeps the message cut evenly.
LEMMA CutOneMore ==
    ASSUME NEW T, NEW m \in Seq(T), NEW n \in Nat, n < Len(m),
           NEW v \in ShaStates(T), CutAfter(m, n, v)
    PROVE  CutAfter(m, n + 1, Input(v, m[n + 1]))
<1> DEFINE e == m[n + 1]
           w == Input(v, e)
           q == Len(v.blocks)
           r == Len(v.block)
           at == BlockBytes * q
           B == BlockBytes
           a == Append(v.block, e)
<1>1. e \in T
  BY EmptyIs
<1>2. v.blocks \in Seq(Seq(T)) /\ v.block \in Seq(T) /\ v.Length_Low \in Nat
  BY DEF ShaStates
<1>3. q \in Nat /\ r \in Nat /\ B \in Nat
  BY <1>2, EmptyIs, ShaAssumption
<1>4. /\ w.Length_Low = v.Length_Low + 8
      /\ w.block = IF r + 1 = B THEN <<>> ELSE a
      /\ w.blocks = IF r + 1 = B THEN Append(v.blocks, a) ELSE v.blocks
  BY <1>1, InputIs
<1>5. /\ a \in Seq(T) /\ Len(a) = r + 1 /\ a[r + 1] = e
      /\ \A i \in 1 .. r : a[i] = v.block[i]
  BY <1>1, <1>2, AppendIs
<1>6. at \in Nat /\ B * (q + 1) = at + B
  BY <1>3, Times
<1>7. /\ at + r = n /\ r < B /\ v.Length_Low = 8 * n
      /\ \A i \in 1 .. r : v.block[i] = m[at + i]
      /\ \A b \in Nat : b < q => /\ Len(v.blocks[b + 1]) = B
                                 /\ \A i \in 1 .. B : v.blocks[b + 1][i] = m[B * b + i]
  BY DEF CutAfter
<1> HIDE DEF w, a
<1>8. \A i \in 1 .. r + 1 : a[i] = m[at + i]
  <2> SUFFICES ASSUME NEW i \in 1 .. r + 1 PROVE a[i] = m[at + i]
    OBVIOUS
  <2>1. CASE i = r + 1
    <3>1. at + i = n + 1
      <4> HIDE DEF at, q, r
      <4> QED
        BY ONLY <1>3, <1>6, <1>7, <2>1, n \in Nat
    <3> QED
      BY <1>5, <2>1, <3>1
  <2>2. CASE i # r + 1
    <3>1. i \in 1 .. r
      BY <1>3, <2>2
    <3> QED
      BY <1>5, <1>7, <3>1
  <2> QED
    BY <2>1, <2>2
<1>9. w.Length_Low = 8 * (n + 1)
  BY <1>4, <1>7
<1>10. CASE r + 1 # B
  <2>1. w.block = a /\ w.blocks = v.blocks
    BY <1>4, <1>10
  <2>2. at + (r + 1) = n + 1 /\ r + 1 < B
    <3> HIDE DEF at, q, r, B
    <3> QED
      BY ONLY <1>3, <1>6, <1>7, <1>10, n \in Nat
  <2>3. B * Len(w.blocks) = at
    BY <2>1
  <2> HIDE DEF at, q, r, B, e
  <2>4. BlockBytes * Len(w.blocks) + Len(w.block) = n + 1
    BY <1>5, <2>1, <2>2, <2>3 DEF B
  <2>5. \A i \in 1 .. Len(w.block) : w.block[i] = m[BlockBytes * Len(w.blocks) + i]
    BY <1>5, <1>8, <2>1, <2>3 DEF B
  <2>6. Len(w.block) < BlockBytes
    BY <1>5, <2>1, <2>2 DEF B
  <2>7. \A b \in Nat : b < Len(w.blocks) =>
          /\ Len(w.blocks[b + 1]) = BlockBytes
          /\ \A i \in 1 .. BlockBytes : w.blocks[b + 1][i] = m[BlockBytes * b + i]
    BY <1>7, <2>1 DEF q, B
  <2> QED
    BY <1>9, <2>4, <2>5, <2>6, <2>7 DEF CutAfter, w, e
<1>11. CASE r + 1 = B
  <2> DEFINE Q == q + 1
             bs == Append(v.blocks, a)
  <2>1. w.block = <<>> /\ w.blocks = bs
    BY <1>4, <1>11
  <2>2. /\ bs \in Seq(Seq(T)) /\ Len(bs) = Q /\ bs[Q] = a
        /\ \A i \in 1 .. q : bs[i] = v.blocks[i]
    BY <1>2, <1>5, AppendIs
  <2>3. Len(w.block) = 0
    BY <2>1
  <2> HIDE DEF bs
  <2>4. B * Q = n + 1
    <3>1. B * Q = at + B
      BY <1>6
    <3> HIDE DEF Q, at, q, r, B
    <3>2. at + B = n + 1
      BY ONLY <1>3, <1>6, <1>7, <1>11, n \in Nat
    <3> QED
      BY ONLY <3>1, <3>2
  <2>5. ASSUME NEW b \in Nat, b < Q
        PROVE  /\ Len(bs[b + 1]) = B
               /\ \A i \in 1 .. B : bs[b + 1][i] = m[B * b + i]
    <3>1. CASE b = q
      <4>1. bs[b + 1] = a /\ B * b = at
        BY <2>2, <3>1
      <4> HIDE DEF at, q
      <4>2. Len(a) = B
        BY <1>5, <1>11
      <4>3. \A i \in 1 .. B : a[i] = m[at + i]
        BY <1>8, <1>11
      <4> QED
        BY <4>1, <4>2, <4>3
    <3>2. CASE b # q
      <4>1. b < q /\ b + 1 \in 1 .. q
        BY <1>3, <2>5, <3>2
      <4>2. bs[b + 1] = v.blocks[b + 1]
        BY <2>2, <4>1
      <4> QED
        BY <1>7, <4>1, <4>2
    <3> QED
      BY <3>1, <3>2
  <2> HIDE DEF Q, at, q, r, B, e
  <2>6. Q \in Nat /\ B \in Nat /\ 0 < B
    BY <1>3, <1>11 DEF Q
  <2>7. BlockBytes * Len(w.blocks) + Len(w.block) = n + 1
    <3>1. Len(w.blocks) = Q
      BY <2>1, <2>2
    <3> QED
      BY <2>3, <2>4, <3>1 DEF B
  <2>8. Len(w.block) < BlockBytes
    BY <2>3, <2>6 DEF B
  <2>9. \A i \in 1 .. Len(w.block) : w.block[i] = m[BlockBytes * Len(w.blocks) + i]
    BY <2>3
  <2>10. \A b \in Nat : b < Len(w.blocks) =>
          /\ Len(w.blocks[b + 1]) = BlockBytes
          /\ \A i \in 1 .. BlockBytes : w.blocks[b + 1][i] = m[BlockBytes * b + i]
    BY <2>1, <2>2, <2>5 DEF B
  <2> QED
    BY <1>9, <2>7, <2>8, <2>9, <2>10 DEF CutAfter, w, e
<1> QED
  BY <1>10, <1>11

\* The bytes of a whole message are cut evenly.
LEMMA FedCut ==
    ASSUME NEW T, NEW m \in Seq(T)
    PROVE  /\ Fed(m)[Len(m)] \in ShaStates(T)
           /\ CutAfter(m, Len(m), Fed(m)[Len(m)])
<1> DEFINE N == Len(m)
           z == Fed(m)
           S == {n \in Nat : n <= N => CutAfter(m, n, z[n])}
<1>1. N \in Nat
  BY EmptyIs
<1>2. /\ z[0] = Reset
      /\ \A n \in 0 .. N : z[n] \in ShaStates(T)
      /\ \A n \in 1 .. N : z[n] = Input(z[n - 1], m[n])
  BY FedIs
<1> HIDE DEF z
<1>3. 0 \in S
  <2>1. Len(Reset.block) = 0 /\ Len(Reset.blocks) = 0 /\ Reset.Length_Low = 0
    BY DEF Reset
  <2>2. BlockBytes \in Nat /\ 0 < BlockBytes
    BY ShaAssumption
  <2>3. BlockBytes * 0 = 0
    BY <2>2, Times
  <2>4. CutAfter(m, 0, Reset)
    BY <2>1, <2>2, <2>3 DEF CutAfter
  <2> QED
    BY <1>2, <2>4
<1>4. ASSUME NEW n \in Nat, n \in S PROVE n + 1 \in S
  <2> DEFINE k == n + 1
  <2>1. k \in Nat /\ k - 1 = n
    OBVIOUS
  <2>2. ASSUME k <= N PROVE CutAfter(m, k, z[k])
    <3>1. k \in 1 .. N /\ n < N /\ n \in 0 .. N /\ CutAfter(m, n, z[n])
      BY <1>1, <1>4, <2>2
    <3> HIDE DEF k, N
    <3>2. z[k] = Input(z[n], m[k]) /\ z[n] \in ShaStates(T)
      BY <1>2, <2>1, <3>1
    <3> QED
      BY <3>1, <3>2, CutOneMore DEF k, N
  <2> QED
    BY <2>1, <2>2
<1>5. \A n \in Nat : n \in S
  <2> HIDE DEF S
  <2> QED
    BY <1>3, <1>4, AllNaturals
<1>6. N \in 0 .. N
  BY <1>1
<1> QED
  BY <1>1, <1>2, <1>5, <1>6 DEF z

\* The quotient of so many blocks and less than one.
LEMMA DivIs ==
    ASSUME NEW b \in Nat \ {0}, NEW k \in Nat, NEW t \in 0 .. b - 1
    PROVE  (b * k + t) \div b = k
OBVIOUS

\* A block filled up with zeros.
LEMMA ZerosIs ==
    ASSUME NEW T, 0 \in T, NEW s \in Seq(T), NEW n \in Nat, Len(s) <= n
    PROVE  /\ Zeros(s, n) \in Seq(T) /\ Len(Zeros(s, n)) = n
           /\ \A i \in 1 .. Len(s) : Zeros(s, n)[i] = s[i]
           /\ \A i \in 1 .. n : Len(s) < i => Zeros(s, n)[i] = 0
<1> DEFINE k == n - Len(s)
           z == [i \in 1 .. k |-> 0]
<1>1. k \in Nat /\ Len(s) \in Nat /\ Len(s) + k = n
  BY EmptyIs
<1> HIDE DEF k
<1>2. z \in Seq(T) /\ Len(z) = k /\ \A i \in 1 .. k : z[i] = 0
  BY <1>1
<1>3. Zeros(s, n) = s \o z
  BY DEF Zeros, k
<1> HIDE DEF z
<1>4. /\ s \o z \in Seq(T) /\ Len(s \o z) = Len(s) + k
      /\ \A i \in 1 .. Len(s) : (s \o z)[i] = s[i]
      /\ \A i \in 1 .. k : (s \o z)[Len(s) + i] = z[i]
  <2>1. s \in Seq(T) /\ z \in Seq(T)
    BY <1>2
  <2>2. /\ s \o z \in Seq(T) /\ Len(s \o z) = Len(s) + Len(z)
        /\ \A i \in 1 .. Len(s) : (s \o z)[i] = s[i]
        /\ \A i \in 1 .. Len(z) : (s \o z)[Len(s) + i] = z[i]
    BY ONLY <2>1, ConcatIs
  <2> QED
    BY <1>2, <2>2
<1>5. ASSUME NEW i \in 1 .. n, Len(s) < i PROVE (s \o z)[i] = 0
  <2> DEFINE j == i - Len(s)
  <2>1. j \in 1 .. k /\ i = Len(s) + j
    BY <1>1, <1>5
  <2> HIDE DEF j
  <2> QED
    BY <1>2, <1>4, <2>1
<1> QED
  BY <1>1, <1>3, <1>4, <1>5

\* The block that ends a message of l bits, filled up from what is left.
LastBlock(block, l) == Zeros(block, BlockBytes - LengthBytes) \o InBytes(l)

\* The byte at place i of the last block.
LEMMA LastBlockIs ==
    ASSUME NEW T, 0 \in T, NEW s \in Seq(T), NEW l, InBytes(l) \in Seq(T),
           Len(s) <= BlockBytes - LengthBytes
    PROVE  /\ LastBlock(s, l) \in Seq(T) /\ Len(LastBlock(s, l)) = BlockBytes
           /\ \A i \in 1 .. Len(s) : LastBlock(s, l)[i] = s[i]
           /\ \A i \in 1 .. BlockBytes - LengthBytes :
                 Len(s) < i => LastBlock(s, l)[i] = 0
           /\ \A i \in 1 .. LengthBytes :
                 LastBlock(s, l)[BlockBytes - LengthBytes + i] = InBytes(l)[i]
<1> DEFINE k == BlockBytes - LengthBytes
           z == Zeros(s, k)
           e == InBytes(l)
<1>1. k \in Nat /\ LengthBytes \in Nat /\ k + LengthBytes = BlockBytes /\ Len(s) <= k
      /\ Len(s) \in Nat
  BY ShaAssumption, EmptyIs
<1>2. Len(e) = LengthBytes
  BY <1>1 DEF InBytes
<1> HIDE DEF k
<1>3. /\ z \in Seq(T) /\ Len(z) = k
      /\ \A i \in 1 .. Len(s) : z[i] = s[i]
      /\ \A i \in 1 .. k : Len(s) < i => z[i] = 0
  BY <1>1, ZerosIs
<1> HIDE DEF z, e
<1>4. e \in Seq(T)
  BY DEF e
<1>5. /\ z \o e \in Seq(T) /\ Len(z \o e) = Len(z) + Len(e)
      /\ \A i \in 1 .. Len(z) : (z \o e)[i] = z[i]
      /\ \A i \in 1 .. Len(e) : (z \o e)[Len(z) + i] = e[i]
  <2>1. z \in Seq(T)
    BY <1>3
  <2> QED
    BY ONLY <1>4, <2>1, ConcatIs
<1> DEFINE y == z \o e
<1>6. LastBlock(s, l) = y
  BY DEF LastBlock, z, e, k
<1> HIDE DEF y
<1>7. /\ y \in Seq(T) /\ Len(y) = BlockBytes
      /\ \A i \in 1 .. k : y[i] = z[i]
      /\ \A i \in 1 .. LengthBytes : y[k + i] = e[i]
  BY <1>1, <1>2, <1>3, <1>5 DEF y
<1>8. \A i \in 1 .. Len(s) : i \in 1 .. k
  BY <1>1
<1>9. \A i \in 1 .. Len(s) : y[i] = s[i]
  BY <1>3, <1>7, <1>8
<1> QED
  BY <1>3, <1>6, <1>7, <1>9 DEF k, e

\* Without room for the length, the marked block goes out before the last.
LEMMA PadIs ==
    ASSUME NEW T, 0 \in T, 128 \in T, NEW v \in ShaStates(T),
           Len(v.block) < BlockBytes, InBytes(v.Length_Low) \in Seq(T)
    PROVE  LET marked == Append(v.block, 128)
               r == Len(v.block)
           IN  /\ r <= BlockBytes - LengthBytes - 1 =>
                    PadMessage(v).blocks = Append(v.blocks, LastBlock(marked, v.Length_Low))
               /\ BlockBytes - LengthBytes - 1 < r =>
                    PadMessage(v).blocks =
                      Append(Append(v.blocks, Zeros(marked, BlockBytes)),
                             LastBlock(<<>>, v.Length_Low))
<1> DEFINE marked == Append(v.block, 128)
           l == v.Length_Low
           r == Len(v.block)
           short == BlockBytes - LengthBytes - 1 < r
           full == Zeros(marked, BlockBytes)
           f == [v EXCEPT !.block = full]
           t == IF short THEN ProcessMessageBlock(f) ELSE [v EXCEPT !.block = marked]
           last == LastBlock(t.block, t.Length_Low)
           g == [t EXCEPT !.block = Zeros(t.block, BlockBytes - LengthBytes) \o InBytes(v.Length_Low)]
           SetB == Seq(T)
           SetC == Seq(Seq(T))
<1>1. v \in [block : SetB, blocks : SetC, Length_Low : Nat]
  BY DEF ShaStates
<1>2. /\ v.block \in Seq(T) /\ v.blocks \in Seq(Seq(T)) /\ l \in Nat /\ r \in Nat
      /\ BlockBytes \in Nat /\ LengthBytes \in Nat
  BY <1>1, EmptyIs, ShaAssumption
<1>3. marked \in Seq(T) /\ Len(marked) = r + 1
  BY <1>2, AppendIs
<1>4. PadMessage(v) = ProcessMessageBlock(g)
  BY DEF PadMessage
<1> HIDE DEF marked
<1>5. full \in Seq(T)
  <2>1. Len(marked) <= BlockBytes
    BY <1>2, <1>3
  <2> QED
    BY <1>2, <1>3, <2>1, ZerosIs
<1> HIDE DEF full
<1>6. f \in ShaStates(T) /\ f.block = full /\ f.blocks = v.blocks /\ f.Length_Low = l
  <2>1. full \in SetB
    BY <1>5
  <2> HIDE DEF SetB, SetC
  <2>2. f \in [block : SetB, blocks : SetC, Length_Low : Nat]
    BY <1>1, <2>1
  <2>3. f.block = full /\ f.blocks = v.blocks /\ f.Length_Low = l
    BY <1>1
  <2> QED
    BY <2>2, <2>3 DEF ShaStates, SetB, SetC
<1> DEFINE p == [v EXCEPT !.block = marked]
<1>7. p \in ShaStates(T) /\ p.block = marked /\ p.blocks = v.blocks /\ p.Length_Low = l
  <2>1. marked \in SetB
    BY <1>3
  <2> HIDE DEF SetB, SetC
  <2>2. p \in [block : SetB, blocks : SetC, Length_Low : Nat]
    BY <1>1, <2>1
  <2>3. p.block = marked /\ p.blocks = v.blocks /\ p.Length_Low = l
    BY <1>1
  <2> QED
    BY <2>2, <2>3 DEF ShaStates, SetB, SetC
<1> HIDE DEF f, p
<1>8. /\ ProcessMessageBlock(f) \in ShaStates(T)
      /\ ProcessMessageBlock(f).block = <<>>
      /\ ProcessMessageBlock(f).blocks = Append(f.blocks, f.block)
      /\ ProcessMessageBlock(f).Length_Low = f.Length_Low
  BY <1>6, ProcessIs
<1>9. /\ t \in ShaStates(T)
      /\ t.block = IF short THEN <<>> ELSE marked
      /\ t.blocks = IF short THEN Append(v.blocks, full) ELSE v.blocks
      /\ t.Length_Low = l
  <2>1. CASE short
    <3> HIDE DEF short
    <3>1. t = ProcessMessageBlock(f)
      BY <2>1
    <3> QED
      BY <1>6, <1>8, <2>1, <3>1
  <2>2. CASE ~short
    <3> HIDE DEF short
    <3>1. t = p
      BY <2>2 DEF p
    <3> QED
      BY <1>7, <2>2, <3>1
  <2> QED
    BY <2>1, <2>2
<1>10. Len(t.block) <= BlockBytes - LengthBytes
  <2>1. CASE short
    <3>1. Len(t.block) = 0
      BY <1>9, <2>1
    <3> HIDE DEF t, short
    <3> QED
      BY <1>2, <3>1, ShaAssumption
  <2>2. CASE ~short
    <3>1. Len(t.block) = r + 1
      BY <1>3, <1>9, <2>2
    <3> HIDE DEF t
    <3> QED
      BY <1>2, <2>2, <3>1
  <2> QED
    BY <2>1, <2>2
<1> HIDE DEF t, short
<1> DEFINE y == LastBlock(t.block, v.Length_Low)
<1>11. y \in Seq(T)
  <2>1. t.block \in Seq(T)
    BY <1>9 DEF ShaStates
  <2> QED
    BY <1>10, <2>1, LastBlockIs
<1>12. g = [t EXCEPT !.block = y]
  BY DEF LastBlock
<1> HIDE DEF y, g
<1>13. g \in ShaStates(T) /\ g.block = y /\ g.blocks = t.blocks
  <2>1. y \in SetB /\ t \in [block : SetB, blocks : SetC, Length_Low : Nat]
    BY <1>9, <1>11 DEF ShaStates
  <2> HIDE DEF SetB, SetC
  <2>2. g \in [block : SetB, blocks : SetC, Length_Low : Nat]
    BY <1>12, <2>1
  <2>3. g.block = y /\ g.blocks = t.blocks
    BY <1>12, <2>1
  <2> QED
    BY <2>2, <2>3 DEF ShaStates, SetB, SetC
<1>14. ProcessMessageBlock(g).blocks = Append(g.blocks, g.block)
  BY <1>13, ProcessIs
<1>15. PadMessage(v).blocks = Append(t.blocks, y)
  BY <1>4, <1>13, <1>14
<1>16. CASE short
  <2>1. BlockBytes - LengthBytes - 1 < r
    BY <1>16 DEF short
  <2>2. PadMessage(v).blocks = Append(Append(v.blocks, full), LastBlock(<<>>, v.Length_Low))
    BY <1>9, <1>15, <1>16 DEF y
  <2>3. ~(r <= BlockBytes - LengthBytes - 1)
    BY <1>2, <2>1
  <2> QED
    BY <2>1, <2>2, <2>3 DEF full, marked
<1>17. CASE ~short
  <2>1. ~(BlockBytes - LengthBytes - 1 < r)
    BY <1>17 DEF short
  <2>2. PadMessage(v).blocks = Append(v.blocks, LastBlock(marked, v.Length_Low))
    BY <1>9, <1>15, <1>17 DEF y
  <2> QED
    BY <2>1, <2>2 DEF marked
<1> QED
  BY <1>16, <1>17

\* The bytes of the padding the standard asks for, which has p bytes.
LEMMA StandardIs ==
    ASSUME NEW T, 0 \in T, 128 \in T, NEW m \in Seq(T), InBytes(8 * Len(m)) \in Seq(T),
           NEW p \in Nat, p = BlockBytes * ((Len(m) + LengthBytes + BlockBytes) \div BlockBytes),
           Len(m) + 1 + LengthBytes <= p
    PROVE  LET n == Len(m)
               y == StandardPadding(m)
           IN  /\ y \in Seq(T) /\ Len(y) = p
               /\ \A j \in 1 .. n : y[j] = m[j]
               /\ y[n + 1] = 128
               /\ \A j \in n + 2 .. p - LengthBytes : y[j] = 0
               /\ \A i \in 1 .. LengthBytes : y[p - LengthBytes + i] = InBytes(8 * n)[i]
<1> DEFINE n == Len(m)
           k == p - (n + 1 + LengthBytes)
           z == [i \in 1 .. k |-> 0]
           e == InBytes(8 * n)
           a == Append(m, 128)
           b == a \o z
           y == b \o e
<1>1. /\ n \in Nat /\ LengthBytes \in Nat /\ BlockBytes \in Nat /\ k \in Nat
      /\ n + 1 + k + LengthBytes = p /\ p - LengthBytes = n + 1 + k
  BY EmptyIs, ShaAssumption
<1>2. Len(e) = LengthBytes /\ e \in Seq(T)
  BY <1>1 DEF InBytes
<1>3. StandardPadding(m) = m \o <<128>> \o z \o e
  BY DEF StandardPadding
<1> HIDE DEF k, e
<1>4. z \in Seq(T) /\ Len(z) = k /\ \A i \in 1 .. k : z[i] = 0
  BY <1>1
<1>5. m \o <<128>> = a
  OBVIOUS
<1>6. StandardPadding(m) = y
  BY <1>3, <1>5
<1> HIDE DEF z
<1>7. a \in Seq(T) /\ Len(a) = n + 1 /\ a[n + 1] = 128 /\ \A j \in 1 .. n : a[j] = m[j]
  BY AppendIs
<1> HIDE DEF a
<1>8. /\ b \in Seq(T) /\ Len(b) = Len(a) + Len(z)
      /\ \A i \in 1 .. Len(a) : b[i] = a[i]
      /\ \A i \in 1 .. Len(z) : b[Len(a) + i] = z[i]
  <2>1. a \in Seq(T) /\ z \in Seq(T)
    BY <1>4, <1>7
  <2> QED
    BY ONLY <2>1, ConcatIs
<1> HIDE DEF b
<1>9. /\ y \in Seq(T) /\ Len(y) = Len(b) + Len(e)
      /\ \A i \in 1 .. Len(b) : y[i] = b[i]
      /\ \A i \in 1 .. Len(e) : y[Len(b) + i] = e[i]
  <2>1. b \in Seq(T) /\ e \in Seq(T)
    BY <1>2, <1>8
  <2> QED
    BY ONLY <2>1, ConcatIs
<1> HIDE DEF y, n
<1>10. Len(a) = n + 1 /\ Len(b) = n + 1 + k /\ Len(y) = p
  <2>1. Len(a) = n + 1 /\ Len(z) = k /\ Len(b) = Len(a) + Len(z)
    BY <1>4, <1>7, <1>8
  <2>2. Len(y) = Len(b) + Len(e) /\ Len(e) = LengthBytes
    BY <1>2, <1>9
  <2> QED
    BY <1>1, <2>1, <2>2
<1>11. ASSUME NEW i \in 1 .. n + 1 PROVE y[i] = a[i]
  <2>1. i \in 1 .. Len(a) /\ i \in 1 .. Len(b)
    BY <1>1, <1>10
  <2> QED
    BY <1>8, <1>9, <2>1
<1>12. \A j \in 1 .. n : y[j] = m[j]
  BY <1>1, <1>7, <1>11
<1>13. y[n + 1] = 128
  BY <1>1, <1>7, <1>11
<1>14. ASSUME NEW j \in n + 2 .. p - LengthBytes PROVE y[j] = 0
  <2> DEFINE i == j - (n + 1)
  <2>1. i \in 1 .. k /\ n + 1 + i = j /\ j \in 1 .. n + 1 + k
    BY <1>1
  <2> HIDE DEF i
  <2>2. y[j] = b[j]
    <3>1. j \in 1 .. Len(b)
      BY <1>10, <2>1
    <3> QED
      BY <1>9, <3>1
  <2>3. b[n + 1 + i] = z[i]
    <3>1. Len(a) = n + 1 /\ i \in 1 .. Len(z)
      BY <1>4, <1>10, <2>1
    <3> QED
      BY <1>8, <3>1
  <2> QED
    BY <1>4, <2>1, <2>2, <2>3
<1>15. \A i \in 1 .. LengthBytes : y[p - LengthBytes + i] = e[i]
  BY <1>1, <1>2, <1>9, <1>10
<1> QED
  BY <1>6, <1>9, <1>10, <1>12, <1>13, <1>14, <1>15 DEF n, e

\* A block holds the bytes of y behind the first at ones.
BlockOf(x, y, at) ==
    /\ Len(x) = BlockBytes
    /\ \A i \in 1 .. BlockBytes : x[i] = y[at + i]

\* Such a block is that part of y.
LEMMA BlockIs ==
    ASSUME NEW T, NEW x \in Seq(T), NEW y \in Seq(T), NEW at \in Nat,
           at + BlockBytes <= Len(y), BlockOf(x, y, at)
    PROVE  x = SubSeq(y, at + 1, at + BlockBytes)
<1> DEFINE e == at + BlockBytes
           f == at + 1
           w == SubSeq(y, f, e)
<1>1. BlockBytes \in Nat /\ Len(y) \in Nat /\ f \in Nat \ {0} /\ e \in Nat
      /\ f <= e + 1 /\ e <= Len(y) /\ e - f + 1 = BlockBytes
      /\ \A i \in 1 .. BlockBytes : f + i - 1 = at + i
  BY ShaAssumption, EmptyIs
<1> HIDE DEF e, f
<1>2. /\ w \in Seq(T) /\ Len(w) = e - f + 1
      /\ \A i \in 1 .. (e - f + 1) : w[i] = y[f + i - 1]
  BY <1>1, SubSeqIs
<1> HIDE DEF w
<1>3. Len(w) = Len(x) /\ \A i \in 1 .. Len(x) : w[i] = x[i]
  BY <1>1, <1>2 DEF BlockOf
<1>4. w = x
  BY <1>2, <1>3
<1> QED
  BY <1>4 DEF w, e, f

\* An earlier block ends where a later one begins, or before.
LEMMA Grows ==
    ASSUME NEW b \in Nat, NEW k \in Nat, NEW q \in Nat, k < q
    PROVE  b * k + b <= b * q
OBVIOUS

\* What the blocks of a padded message have in common with the standard's.
BlocksOf(bs, y, count) ==
    /\ Len(bs) = count /\ Len(y) = BlockBytes * count
    /\ \A b \in Nat : b < count => BlockOf(bs[b + 1], y, BlockBytes * b)

\* The blocks that were full before the padding.
LEMMA FrontBlocks ==
    ASSUME NEW T, NEW m \in Seq(T), NEW v \in ShaStates(T), CutAfter(m, Len(m), v),
           NEW y \in Seq(T), \A j \in 1 .. Len(m) : y[j] = m[j],
           NEW b \in Nat, b < Len(v.blocks)
    PROVE  BlockOf(v.blocks[b + 1], y, BlockBytes * b)
<1> DEFINE q == Len(v.blocks)
           at == BlockBytes * q
           c == BlockBytes * b
<1>1. q \in Nat /\ BlockBytes \in Nat /\ Len(v.block) \in Nat /\ Len(m) \in Nat
  <2>1. v.blocks \in Seq(Seq(T)) /\ v.block \in Seq(T)
    BY DEF ShaStates
  <2> QED
    BY <2>1, EmptyIs, ShaAssumption
<1>2. at + Len(v.block) = Len(m) /\ at \in Nat /\ c \in Nat
  BY <1>1, Times DEF CutAfter
<1>3. c + BlockBytes <= at
  BY <1>1, Grows
<1>4. /\ Len(v.blocks[b + 1]) = BlockBytes
      /\ \A i \in 1 .. BlockBytes : v.blocks[b + 1][i] = m[c + i]
  BY DEF CutAfter
<1> HIDE DEF c, at, q
<1>5. \A i \in 1 .. BlockBytes : c + i \in 1 .. Len(m)
  BY <1>1, <1>2, <1>3
<1>6. \A i \in 1 .. BlockBytes : v.blocks[b + 1][i] = y[c + i]
  BY <1>4, <1>5
<1> QED
  BY <1>4, <1>6 DEF BlockOf, c

\* The bytes of a marked block.
LEMMA MarkedIs ==
    ASSUME NEW T, 128 \in T, NEW m \in Seq(T), NEW v \in ShaStates(T), CutAfter(m, Len(m), v),
           NEW y, \A j \in 1 .. Len(m) : y[j] = m[j], y[Len(m) + 1] = 128
    PROVE  LET marked == Append(v.block, 128)
               at == BlockBytes * Len(v.blocks)
           IN  /\ marked \in Seq(T) /\ Len(marked) = Len(v.block) + 1
               /\ \A i \in 1 .. Len(marked) : marked[i] = y[at + i]
<1> DEFINE marked == Append(v.block, 128)
           q == Len(v.blocks)
           r == Len(v.block)
           at == BlockBytes * q
           n == Len(m)
<1>1. v.block \in Seq(T) /\ q \in Nat /\ r \in Nat /\ BlockBytes \in Nat /\ n \in Nat
  <2>1. v.blocks \in Seq(Seq(T)) /\ v.block \in Seq(T)
    BY DEF ShaStates
  <2> QED
    BY <2>1, EmptyIs, ShaAssumption
<1>2. /\ marked \in Seq(T) /\ Len(marked) = r + 1 /\ marked[r + 1] = 128
      /\ \A i \in 1 .. r : marked[i] = v.block[i]
  BY <1>1, AppendIs
<1>3. at + r = n /\ at \in Nat /\ \A i \in 1 .. r : v.block[i] = m[at + i]
  BY <1>1, Times DEF CutAfter
<1> HIDE DEF marked, at, r, q
<1>4. ASSUME NEW i \in 1 .. r + 1 PROVE marked[i] = y[at + i]
  <2>1. CASE i = r + 1
    <3>1. at + i = n + 1
      BY <1>1, <1>3, <2>1
    <3> QED
      BY <1>2, <2>1, <3>1
  <2>2. CASE i # r + 1
    <3>1. i \in 1 .. r /\ at + i \in 1 .. n
      BY <1>1, <1>3, <2>2
    <3> QED
      BY <1>2, <1>3, <3>1
  <2> QED
    BY <2>1, <2>2
<1> QED
  BY <1>2, <1>4 DEF marked, at, r, q

\* The last block, with p - BlockBytes bytes in front of it.
LEMMA LastOf ==
    ASSUME NEW T, 0 \in T, NEW s \in Seq(T), NEW l, InBytes(l) \in Seq(T),
           Len(s) <= BlockBytes - LengthBytes, NEW at \in Nat, NEW y,
           \A i \in 1 .. Len(s) : s[i] = y[at + i],
           \A j \in at + Len(s) + 1 .. at + BlockBytes - LengthBytes : y[j] = 0,
           \A i \in 1 .. LengthBytes :
              y[at + BlockBytes - LengthBytes + i] = InBytes(l)[i]
    PROVE  LastBlock(s, l) \in Seq(T) /\ BlockOf(LastBlock(s, l), y, at)
<1> DEFINE x == LastBlock(s, l)
           e == InBytes(l)
           k == BlockBytes - LengthBytes
<1>1. /\ x \in Seq(T) /\ Len(x) = BlockBytes
      /\ \A i \in 1 .. Len(s) : x[i] = s[i]
      /\ \A i \in 1 .. k : Len(s) < i => x[i] = 0
      /\ \A i \in 1 .. LengthBytes : x[k + i] = e[i]
  BY LastBlockIs
<1>2. /\ BlockBytes \in Nat /\ LengthBytes \in Nat /\ k \in Nat /\ k + LengthBytes = BlockBytes
      /\ Len(s) \in Nat /\ at + BlockBytes - LengthBytes = at + k /\ Len(s) <= k
  BY ShaAssumption, EmptyIs
<1> HIDE DEF x, e, k
<1>3. ASSUME NEW i \in 1 .. BlockBytes PROVE x[i] = y[at + i]
  <2>1. CASE i <= Len(s)
    BY <1>1, <1>2, <2>1
  <2>2. CASE Len(s) < i /\ i <= k
    <3>1. i \in 1 .. k /\ at + i \in at + Len(s) + 1 .. at + BlockBytes - LengthBytes
      BY <1>2, <2>2
    <3> QED
      BY <1>1, <2>2, <3>1
  <2>3. CASE k < i
    <3> DEFINE j == i - k
    <3>1. j \in 1 .. LengthBytes /\ i = k + j /\ at + i = at + BlockBytes - LengthBytes + j
      BY <1>2, <2>3
    <3> HIDE DEF j
    <3>2. x[i] = e[j] /\ y[at + i] = e[j]
      BY <1>1, <3>1 DEF e
    <3> QED
      BY <3>2
  <2> QED
    BY <1>2, <2>1, <2>2, <2>3
<1> QED
  BY <1>1, <1>3 DEF BlockOf, x

\* The message is cut as the standard's padding of it is.
LEMMA EndCut ==
    ASSUME NEW T, 0 \in T, 128 \in T, NEW m \in Seq(T), InBytes(8 * Len(m)) \in Seq(T),
           NEW v \in ShaStates(T), CutAfter(m, Len(m), v)
    PROVE  LET bs == PadMessage(v).blocks
               y == StandardPadding(m)
           IN  /\ bs \in Seq(Seq(T)) /\ y \in Seq(T)
               /\ BlocksOf(bs, y, (Len(m) + LengthBytes + BlockBytes) \div BlockBytes)
<1> DEFINE n == Len(m)
           q == Len(v.blocks)
           r == Len(v.block)
           B == BlockBytes
           L == LengthBytes
           at == B * q
           l == v.Length_Low
           count == (n + L + B) \div B
           marked == Append(v.block, 128)
           bs == PadMessage(v).blocks
           y == StandardPadding(m)
           e == InBytes(8 * n)
           p == B * count
<1>1. v.blocks \in Seq(Seq(T)) /\ v.block \in Seq(T)
  BY DEF ShaStates
<1>2. q \in Nat /\ r \in Nat /\ n \in Nat /\ B \in Nat \ {0} /\ L \in Nat /\ L < B
  BY <1>1, EmptyIs, ShaAssumption
<1>3. at + r = n /\ r < B /\ l = 8 * n
  BY DEF CutAfter
<1>4. /\ at \in Nat /\ B * (q + 1) = at + B /\ B * (q + 2) = at + B + B
  <2>1. q + 1 \in Nat /\ (q + 1) + 1 = q + 2
    BY <1>2
  <2>2. B * (q + 1) = at + B /\ at \in Nat
    BY <1>2, Times
  <2>3. B * ((q + 1) + 1) = B * (q + 1) + B
    BY <1>2, <2>1, Times
  <2>4. B * (q + 2) = B * (q + 1) + B
    BY <2>1, <2>3
  <2> QED
    BY <2>2, <2>4
<1>5. e \in Seq(T) /\ InBytes(l) \in Seq(T)
  BY <1>3
<1>6. /\ r <= B - L - 1 => bs = Append(v.blocks, LastBlock(marked, l))
      /\ B - L - 1 < r =>
            bs = Append(Append(v.blocks, Zeros(marked, B)), LastBlock(<<>>, l))
  BY <1>3, <1>5, PadIs
<1>7. ASSUME p \in Nat, n + 1 + L <= p
      PROVE  /\ y \in Seq(T) /\ Len(y) = p
             /\ \A j \in 1 .. n : y[j] = m[j]
             /\ y[n + 1] = 128
             /\ \A j \in n + 2 .. p - L : y[j] = 0
             /\ \A i \in 1 .. L : y[p - L + i] = e[i]
  BY <1>5, <1>7, StandardIs
<1> HIDE DEF y
<1>8. ASSUME p \in Nat, n + 1 + L <= p
      PROVE  /\ marked \in Seq(T) /\ Len(marked) = r + 1
             /\ \A i \in 1 .. r + 1 : marked[i] = y[at + i]
             /\ \A b \in Nat : b < q => BlockOf(v.blocks[b + 1], y, B * b)
  <2>1. y \in Seq(T) /\ (\A j \in 1 .. n : y[j] = m[j]) /\ y[n + 1] = 128
    BY <1>7, <1>8
  <2>2. /\ marked \in Seq(T) /\ Len(marked) = r + 1
        /\ \A i \in 1 .. Len(marked) : marked[i] = y[at + i]
    BY <2>1, MarkedIs
  <2>3. \A b \in Nat : b < q => BlockOf(v.blocks[b + 1], y, B * b)
    BY <2>1, FrontBlocks
  <2> HIDE DEF marked
  <2> QED
    BY <2>2, <2>3
<1> HIDE DEF marked, bs, e
<1>9. CASE r <= B - L - 1
  <2> DEFINE x == LastBlock(marked, l)
             Q == q + 1
  <2>1. count = Q
    <3> DEFINE t == r + L
    <3>1. t \in 0 .. B - 1 /\ Q \in Nat
      BY <1>2, <1>9
    <3>2. n + L + B = B * Q + t
      <4>1. B * Q = at + B
        BY <1>4
      <4>2. n + L + B = (at + B) + t
        <5> HIDE DEF at, n, r, B, L
        <5> QED
          BY ONLY <1>2, <1>3, <1>4
      <4> QED
        BY ONLY <4>1, <4>2
    <3> HIDE DEF t, Q, B, n, L
    <3>3. (B * Q + t) \div B = Q
      BY <1>2, <3>1, DivIs
    <3> QED
      BY <3>2, <3>3
  <2>2. p = at + B
    BY <1>4, <2>1
  <2> HIDE DEF p, count
  <2>3. p \in Nat /\ n + 1 + L <= p /\ at + r + 1 = n + 1
        /\ at + (r + 1) + 1 = n + 2 /\ at + B - L = p - L
    <3> HIDE DEF at, n, r, B, L
    <3> QED
      BY ONLY <1>2, <1>3, <1>4, <1>9, <2>2
  <2>4. /\ marked \in Seq(T) /\ Len(marked) = r + 1
        /\ \A i \in 1 .. r + 1 : marked[i] = y[at + i]
        /\ \A b \in Nat : b < q => BlockOf(v.blocks[b + 1], y, B * b)
    BY <1>8, <2>3
  <2>5. /\ y \in Seq(T) /\ Len(y) = p
        /\ \A j \in n + 2 .. p - L : y[j] = 0
        /\ \A i \in 1 .. L : y[p - L + i] = e[i]
    BY <1>7, <2>3
  <2>6. x \in Seq(T) /\ BlockOf(x, y, at)
    <3>1. Len(marked) <= BlockBytes - LengthBytes
      BY <1>2, <1>9, <2>4
    <3>2. \A i \in 1 .. Len(marked) : marked[i] = y[at + i]
      BY <2>4
    <3>3. \A j \in at + Len(marked) + 1 .. at + BlockBytes - LengthBytes : y[j] = 0
      <4>1. at + Len(marked) + 1 = n + 2
        BY <2>3, <2>4
      <4> HIDE DEF at
      <4> QED
        BY <2>3, <2>5, <4>1
    <3>4. \A i \in 1 .. LengthBytes :
              y[at + BlockBytes - LengthBytes + i] = InBytes(l)[i]
      <4>1. InBytes(l) = e
        BY <1>3 DEF e
      <4> HIDE DEF at, l
      <4> QED
        BY <2>3, <2>5, <4>1
    <3> HIDE DEF at, l
    <3> QED
      BY <1>4, <1>5, <2>4, <3>1, <3>2, <3>3, <3>4, LastOf
  <2> HIDE DEF x
  <2>7. bs = Append(v.blocks, x)
    BY <1>6, <1>9 DEF x
  <2>8. /\ bs \in Seq(Seq(T)) /\ Len(bs) = Q /\ bs[Q] = x
        /\ \A i \in 1 .. q : bs[i] = v.blocks[i]
    BY <1>1, <2>6, <2>7, AppendIs
  <2>9. ASSUME NEW b \in Nat, b < Q PROVE BlockOf(bs[b + 1], y, B * b)
    <3>1. CASE b = q
      BY <2>6, <2>8, <3>1
    <3>2. CASE b # q
      <4>1. b < q /\ b + 1 \in 1 .. q
        BY <1>2, <2>9, <3>2
      <4> QED
        BY <2>4, <2>8, <4>1
    <3> QED
      BY <3>1, <3>2
  <2>10. BlocksOf(bs, y, count)
    <3> HIDE DEF Q
    <3>1. Len(bs) = count /\ Len(y) = B * count
      BY <2>1, <2>5, <2>8 DEF p
    <3> QED
      BY <2>1, <2>9, <3>1 DEF BlocksOf
  <2> QED
    BY <2>5, <2>8, <2>10 DEF bs, y, count
<1>10. CASE B - L - 1 < r
  <2> DEFINE w == Zeros(marked, B)
             x == LastBlock(<<>>, l)
             P == q + 1
             Q == q + 2
             on == at + B
  <2>1. count = Q
    <3> DEFINE t == r + L - B
    <3>1. t \in 0 .. B - 1 /\ Q \in Nat
      BY <1>2, <1>3, <1>10
    <3>2. n + L + B = B * Q + t
      <4>1. B * Q = at + B + B
        BY <1>4
      <4>2. n + L + B = (at + B + B) + t
        <5> HIDE DEF at, n, r, B, L
        <5> QED
          BY ONLY <1>2, <1>3, <1>4
      <4> QED
        BY ONLY <4>1, <4>2
    <3> HIDE DEF t, Q, B, n, L
    <3>3. (B * Q + t) \div B = Q
      BY <1>2, <3>1, DivIs
    <3> QED
      BY <3>2, <3>3
  <2>2. p = on + B /\ B * P = on
    BY <1>4, <2>1
  <2> HIDE DEF p, count
  <2>3. /\ p \in Nat /\ n + 1 + L <= p /\ on \in Nat /\ on + B - L = p - L
        /\ n + 2 <= on + 1 /\ on <= p - L /\ on + B = p
    <3> HIDE DEF at, n, r, B, L
    <3> QED
      BY <1>2, <1>3, <1>4, <1>10, <2>2
  <2>4. /\ marked \in Seq(T) /\ Len(marked) = r + 1
        /\ \A i \in 1 .. r + 1 : marked[i] = y[at + i]
        /\ \A b \in Nat : b < q => BlockOf(v.blocks[b + 1], y, B * b)
    BY <1>8, <2>3
  <2>5. /\ y \in Seq(T) /\ Len(y) = p
        /\ \A j \in n + 2 .. p - L : y[j] = 0
        /\ \A i \in 1 .. L : y[p - L + i] = e[i]
    BY <1>7, <2>3
  <2>6. w \in Seq(T) /\ BlockOf(w, y, at)
    <3>1. Len(marked) <= B
      BY <1>2, <1>3, <2>4
    <3>2. /\ w \in Seq(T) /\ Len(w) = B
          /\ \A i \in 1 .. Len(marked) : w[i] = marked[i]
          /\ \A i \in 1 .. B : Len(marked) < i => w[i] = 0
      BY <1>2, <2>4, <3>1, ZerosIs
    <3> HIDE DEF w
    <3>3. ASSUME NEW i \in 1 .. B PROVE w[i] = y[at + i]
      <4>1. CASE i <= r + 1
        <5>1. i \in 1 .. r + 1 /\ i \in 1 .. Len(marked)
          BY <1>2, <2>4, <4>1
        <5> QED
          BY <2>4, <3>2, <5>1
      <4>2. CASE r + 1 < i
        <5>1. at + i \in n + 2 .. p - L
          <6> HIDE DEF at, n, r, L
          <6>1. i \in 1 .. B
            OBVIOUS
          <6> HIDE DEF B
          <6> QED
            BY <1>2, <1>3, <1>4, <2>3, <4>2, <6>1 DEF on
        <5>2. w[i] = 0
          BY <2>4, <3>2, <4>2
        <5> QED
          BY <2>5, <5>1, <5>2
      <4> QED
        BY <1>2, <4>1, <4>2
    <3> QED
      BY <3>2, <3>3 DEF BlockOf
  <2> HIDE DEF w
  <2>7. x \in Seq(T) /\ BlockOf(x, y, on)
    <3>1. <<>> \in Seq(T) /\ Len(<<>>) = 0
      OBVIOUS
    <3> DEFINE s == <<>>
    <3>2. s \in Seq(T) /\ Len(s) = 0
      BY <3>1
    <3> HIDE DEF on, s
    <3>3. Len(s) <= BlockBytes - LengthBytes
      BY <1>2, <3>2
    <3>4. \A i \in 1 .. Len(s) : s[i] = y[on + i]
      BY <3>2
    <3>5. \A j \in on + Len(s) + 1 .. on + BlockBytes - LengthBytes : y[j] = 0
      <4> SUFFICES ASSUME NEW j \in on + Len(s) + 1 .. on + BlockBytes - LengthBytes
                   PROVE  y[j] = 0
        OBVIOUS
      <4>1. j \in n + 2 .. p - L
        BY <1>2, <2>3, <3>2
      <4> QED
        BY <2>5, <4>1
    <3>6. \A i \in 1 .. LengthBytes :
              y[on + BlockBytes - LengthBytes + i] = InBytes(l)[i]
      <4>1. InBytes(l) = e
        BY <1>3 DEF e
      <4> HIDE DEF l
      <4> QED
        BY <2>3, <2>5, <4>1
    <3> HIDE DEF l
    <3>7. LastBlock(s, l) \in Seq(T) /\ BlockOf(LastBlock(s, l), y, on)
      BY <1>5, <2>3, <3>2, <3>3, <3>4, <3>5, <3>6, LastOf
    <3> QED
      BY <3>7 DEF s
  <2> HIDE DEF x, on
  <2>8. bs = Append(Append(v.blocks, w), x)
    BY <1>6, <1>10, <1>2 DEF w, x
  <2> DEFINE ws == Append(v.blocks, w)
  <2>9. /\ ws \in Seq(Seq(T)) /\ Len(ws) = P /\ ws[P] = w
        /\ \A i \in 1 .. q : ws[i] = v.blocks[i]
    BY <1>1, <2>6, AppendIs
  <2> HIDE DEF ws
  <2>10. bs = Append(ws, x) /\ P + 1 = Q /\ P \in Nat
    BY <1>2, <2>8 DEF ws
  <2>11. /\ bs \in Seq(Seq(T)) /\ Len(bs) = P + 1 /\ bs[P + 1] = x
         /\ \A i \in 1 .. P : bs[i] = ws[i]
    BY <2>7, <2>9, <2>10, AppendIs
  <2>12. ASSUME NEW b \in Nat, b < Q PROVE BlockOf(bs[b + 1], y, B * b)
    <3>1. CASE b = P
      BY <2>2, <2>7, <2>11, <3>1
    <3>2. CASE b = q
      <4>1. b + 1 = P /\ P \in 1 .. P
        BY <1>2, <3>2
      <4>2. bs[b + 1] = w
        BY <2>9, <2>11, <4>1
      <4> QED
        BY <2>6, <3>2, <4>2
    <3>3. CASE b # P /\ b # q
      <4>1. b < q /\ b + 1 \in 1 .. q /\ b + 1 \in 1 .. P
        BY <1>2, <2>12, <3>3
      <4>2. bs[b + 1] = v.blocks[b + 1]
        BY <2>9, <2>11, <4>1
      <4> QED
        BY <2>4, <4>1, <4>2
    <3> QED
      BY <3>1, <3>2, <3>3
  <2>13. BlocksOf(bs, y, count)
    <3> HIDE DEF Q, P
    <3>1. Len(bs) = count /\ Len(y) = B * count
      BY <2>1, <2>5, <2>10, <2>11 DEF p
    <3> QED
      BY <2>1, <2>12, <3>1 DEF BlocksOf
  <2> QED
    BY <2>5, <2>11, <2>13 DEF bs, y, count
<1> QED
  BY <1>2, <1>9, <1>10

(***************************************************************************)
(* Whatever the message and whatever the sizes of a block and of a length, *)
(* the blocks that are mixed are those of the standard (sha1.cpp:180-215,  *)
(* 500-566).                                                               *)
(***************************************************************************)
THEOREM ShaCutsByTheStandard == \A m \in Seq(0 .. 255) : CutByTheStandard(m)
<1> SUFFICES ASSUME NEW m \in Seq(0 .. 255) PROVE CutByTheStandard(m)
  OBVIOUS
<1> DEFINE e == InBytes(8 * Len(m))
           T == (0 .. 255) \union {e[i] : i \in 1 .. LengthBytes}
           v == Fed(m)[Len(m)]
           bs == PadMessage(v).blocks
           y == StandardPadding(m)
           count == (Len(m) + LengthBytes + BlockBytes) \div BlockBytes
           part(b) == SubSeq(y, BlockBytes * (b - 1) + 1, BlockBytes * b)
<1>1. m \in Seq(T) /\ e \in Seq(T) /\ 0 \in T /\ 128 \in T
  <2>1. e = [i \in 1 .. LengthBytes |-> e[i]] /\ LengthBytes \in Nat
    BY ShaAssumption DEF InBytes
  <2> HIDE DEF e
  <2>2. e \in Seq(T)
    <3>1. \A i \in 1 .. LengthBytes : e[i] \in T
      OBVIOUS
    <3> HIDE DEF T
    <3> QED
      BY <2>1, <3>1
  <2>3. m \in Seq(T)
    OBVIOUS
  <2> QED
    BY <2>2, <2>3
<1> HIDE DEF T, e
<1>2. v \in ShaStates(T) /\ CutAfter(m, Len(m), v)
  BY <1>1, FedCut
<1> HIDE DEF v
<1>3. bs \in Seq(Seq(T)) /\ y \in Seq(T) /\ BlocksOf(bs, y, count)
  BY <1>1, <1>2, EndCut DEF e
<1>4. Processed(m) = bs
  BY DEF Processed, v
<1> HIDE DEF bs, y, count
<1>5. Len(bs) = count /\ bs = [b \in 1 .. count |-> bs[b]]
  BY <1>3 DEF BlocksOf
<1>6. ASSUME NEW b \in 1 .. count PROVE bs[b] = part(b)
  <2> DEFINE c == b - 1
             at == BlockBytes * c
             x == bs[b]
  <2>1. c \in Nat /\ c + 1 = b /\ c < count /\ b \in 1 .. Len(bs) /\ count \in Nat
        /\ BlockBytes \in Nat
    <3>1. Len(bs) \in Nat
      BY <1>3, EmptyIs
    <3> QED
      BY <1>5, <3>1, ShaAssumption
  <2>2. at \in Nat /\ BlockBytes * (c + 1) = at + BlockBytes
    BY <2>1, Times
  <2>3. BlockBytes * c + BlockBytes <= BlockBytes * count
    BY <2>1, Grows
  <2>4. BlockOf(bs[c + 1], y, at) /\ Len(y) = BlockBytes * count
    BY <1>3, <2>1 DEF BlocksOf
  <2>5. x \in Seq(T)
    BY <1>3, <2>1
  <2> HIDE DEF at, c, x
  <2>6. at + BlockBytes <= Len(y)
    BY <2>3, <2>4 DEF at
  <2>7. BlockOf(x, y, at)
    BY <2>1, <2>4 DEF x
  <2>8. x = SubSeq(y, at + 1, at + BlockBytes)
    BY <1>3, <2>2, <2>5, <2>6, <2>7, BlockIs
  <2>9. part(b) = SubSeq(y, at + 1, at + BlockBytes)
    <3>1. BlockBytes * b = at + BlockBytes
      BY <2>1, <2>2
    <3>2. BlockBytes * (b - 1) = at
      BY DEF at, c
    <3> QED
      BY <3>1, <3>2
  <2> QED
    BY <2>8, <2>9 DEF x
<1> HIDE DEF part
<1>7. bs = [b \in 1 .. count |-> part(b)]
  BY <1>5, <1>6
<1> QED
  BY <1>4, <1>7 DEF CutByTheStandard, part, y, count

-----------------------------------------------------------------------------
(* The header of WebSocket *)

(***************************************************************************)
(* The header of whatever message send_msg writes announces its length; a  *)
(* longer one ends in assert(0) (websocket.h:77-108).                      *)
(***************************************************************************)
THEOREM AnswersAreAnnounced ==
    \A len \in Nat : len + 4 < 256 * 256 => LengthAnnounced(len)
<1> SUFFICES ASSUME NEW len \in Nat, len + 4 < 256 * 256 PROVE LengthAnnounced(len)
  OBVIOUS
<1> DEFINE real == len + 4
           hi == real \div 256
           lo == real % 256
<1>1. real \in Nat /\ real < 256 * 256
  OBVIOUS
<1> HIDE DEF real
<1>2. hi * 256 + lo = real /\ hi \in Nat /\ hi < 256
  BY <1>1
<1>3. ServerHeader(len) = IF real < 126 THEN <<130, real>> ELSE <<130, 126, hi % 256, lo>>
  BY DEF ServerHeader, real
<1> DEFINE h == ServerHeader(len)
<1> HIDE DEF hi, lo
<1>4. hi % 256 = hi
  BY ONLY <1>2
<1>5. CASE real < 126
  <2>1. h = <<130, real>>
    BY <1>3, <1>5
  <2>2. h[2] = real
    BY <2>1
  <2> HIDE DEF h
  <2>3. AnnouncedLength(h) = real
    BY <1>1, <1>5, <2>2 DEF AnnouncedLength
  <2> QED
    BY <2>3 DEF LengthAnnounced, real, h
<1>6. CASE ~(real < 126)
  <2>1. h = <<130, 126, hi, lo>>
    BY <1>3, <1>4, <1>6
  <2>2. h[2] = 126 /\ h[3] = hi /\ h[4] = lo
    BY <2>1
  <2> HIDE DEF h
  <2>3. AnnouncedLength(h) = hi * 256 + lo
    BY <2>2 DEF AnnouncedLength
  <2> QED
    BY <1>2, <2>3 DEF LengthAnnounced, real, h
<1> QED
  BY <1>5, <1>6

-----------------------------------------------------------------------------
(* ProtoNumbers *)

\* Base^w is a positive number and, for one digit more, Base times as much.
LEMMA PowerIs ==
    /\ Power[0] = 1
    /\ \A w \in Nat : Power[w] \in Nat \ {0} /\ Power[w + 1] = Power[w] * Base
<1> DEFINE B == Base
           V == Nat \ {0}
           step == [n \in Nat |-> [v \in V |-> v * B]]
           Eq(z) == z = [n \in Nat |-> IF n = 0 THEN 1 ELSE z[n - 1] * Base]
<1>1. B \in Nat \ {0}
  BY BaseAssumption
<1> HIDE DEF B
<1>2. \A v \in V : v * B \in V
  BY <1>1
<1>3. 1 \in V
  OBVIOUS
<1> HIDE DEF V
<1>4. step \in [Nat -> [V -> V]]
  BY <1>2
<1>5. PICK f : AllTurns(f, 1, step, V)
  <2> HIDE DEF step
  <2> QED
    BY <1>3, <1>4, TurnsExist
<1>6. ASSUME NEW n \in Nat PROVE f[n + 1] = f[n] * B
  <2>1. n + 1 \in Nat /\ f[n] \in V
    BY <1>5 DEF AllTurns
  <2>2. step[n + 1][f[n]] = f[n] * B
    BY <2>1
  <2> QED
    BY <1>5, <2>2 DEF AllTurns
<1> HIDE DEF step
<1>7. f[0] = 1 /\ f \in [Nat -> V]
  BY <1>5 DEF AllTurns
<1>8. Eq(f)
  <2>1. ASSUME NEW n \in Nat, n # 0 PROVE f[n] = f[n - 1] * B
    <3> DEFINE k == n - 1
    <3>1. k \in Nat /\ k + 1 = n
      BY <2>1
    <3> HIDE DEF k
    <3> QED
      BY <1>6, <3>1 DEF k
  <2> QED
    BY <1>7, <2>1 DEF B
<1>9. Power = CHOOSE z : Eq(z)
  BY DEF Power
<1>10. Eq(Power)
  <2> HIDE DEF Eq
  <2> QED
    BY <1>8, <1>9
<1>11. Power = [n \in Nat |-> IF n = 0 THEN 1 ELSE Power[n - 1] * Base]
  BY <1>10
<1> HIDE DEF Eq
<1>12. Power[0] = 1
  BY <1>11
<1>13. ASSUME NEW n \in Nat PROVE Power[n + 1] = Power[n] * B
  <2> DEFINE k == n + 1
  <2>1. k \in Nat /\ k # 0 /\ k - 1 = n
    OBVIOUS
  <2> HIDE DEF k
  <2>2. Power[k] = Power[k - 1] * Base
    BY <1>11, <2>1
  <2> QED
    BY <2>1, <2>2 DEF k, B
<1> DEFINE S == {n \in Nat : Power[n] \in V}
<1>14. 0 \in S
  BY <1>3, <1>12
<1>15. \A n \in Nat : n \in S => n + 1 \in S
  BY <1>2, <1>13
<1>16. \A n \in Nat : n \in S
  <2> HIDE DEF S
  <2> QED
    BY <1>14, <1>15, AllNaturals
<1> QED
  BY <1>12, <1>13, <1>16 DEF V, B

\* The range of two digits and more is even, as that of one is.
LEMMA PowerIsEven ==
    ASSUME NEW w \in Nat \ {0}
    PROVE  \E h \in Nat \ {0} : Power[w] = 2 * h
<1> DEFINE k == w - 1
           p == Power[k]
           B == Base
<1>1. k \in Nat /\ w = k + 1
  OBVIOUS
<1>2. p \in Nat \ {0} /\ Power[w] = p * B
  BY <1>1, PowerIs
<1>3. B \in Nat \ {0} /\ B % 2 = 0
  BY BaseAssumption
<1> HIDE DEF p, B
<1> DEFINE b == B \div 2
<1>5. b \in Nat \ {0} /\ B = 2 * b
  BY ONLY <1>3
<1> HIDE DEF b
<1>4. p * b \in Nat \ {0} /\ p * B = 2 * (p * b)
  BY <1>2, <1>5
<1> QED
  BY <1>2, <1>4

\* A number divided twice is divided by the product.
LEMMA DivTwice ==
    ASSUME NEW x \in Nat, NEW a \in Nat \ {0}, NEW b \in Nat \ {0}
    PROVE  (x \div a) \div b = x \div (a * b)
OBVIOUS

\* A number is its quotient and its rest.
LEMMA Divided ==
    ASSUME NEW x \in Int, NEW a \in Nat \ {0}
    PROVE  x = a * (x \div a) + (x % a) /\ x % a \in 0 .. a - 1 /\ x \div a \in Int
OBVIOUS

\* A multiple of a number leaves no rest.
LEMMA NoRest ==
    ASSUME NEW q \in Int, NEW a \in Nat \ {0}, NEW x \in Int, x = a * q
    PROVE  x % a = 0
<1>1. x = a * (x \div a) + (x % a) /\ x % a \in 0 .. a - 1 /\ x \div a \in Int
  BY Divided
<1> DEFINE d == q - (x \div a)
           m == x % a
<1>2. d \in Int /\ a * d = m /\ m \in 0 .. a - 1
  BY <1>1
<1> HIDE DEF d, m
<1>3. ~(d >= 1) /\ ~(d <= -1)
  BY <1>2
<1>4. d = 0
  BY <1>2, <1>3
<1> QED
  BY <1>2, <1>4 DEF m

\* The equations of the loop over the digits.
LEMMA NumberAfterIs ==
    ASSUME NEW ds \in Seq(Nat)
    PROVE  /\ NumberAfter(ds)[0] = 0
           /\ \A n \in 1 .. Len(ds) :
                 NumberAfter(ds)[n] = NumberAfter(ds)[n - 1] * Base + ds[n]
<1> DEFINE N == Len(ds)
           B == Base
           turn(n, v) == IF n \in 1 .. N THEN v * B + ds[n] ELSE v
           step == [n \in Nat |-> [v \in Nat |-> turn(n, v)]]
           Eq(z) == z = [n \in 0 .. N |-> IF n = 0 THEN 0 ELSE z[n - 1] * Base + ds[n]]
<1>1. N \in Nat /\ \A n \in 1 .. N : ds[n] \in Nat
  OBVIOUS
<1> HIDE DEF N
<1>2. B \in Nat
  BY BaseAssumption
<1> HIDE DEF B
<1>3. \A n \in Nat, v \in Nat : turn(n, v) \in Nat
  BY <1>1, <1>2
<1>4. step \in [Nat -> [Nat -> Nat]]
  <2> HIDE DEF turn
  <2> QED
    BY <1>3
<1>5. PICK f : AllTurns(f, 0, step, Nat)
  <2> HIDE DEF step
  <2> QED
    BY <1>4, TurnsExist
<1>6. ASSUME NEW n \in 1 .. N PROVE f[n] = f[n - 1] * B + ds[n]
  <2> DEFINE k == n - 1
  <2>1. k \in Nat /\ k + 1 = n /\ n \in Nat
    BY <1>1
  <2> HIDE DEF k
  <2>2. f[n] = step[n][f[k]] /\ f[k] \in Nat
    BY <1>5, <2>1 DEF AllTurns
  <2>3. step[n][f[k]] = turn(n, f[k])
    BY <2>1, <2>2
  <2> QED
    BY <2>2, <2>3 DEF k
<1>7. f[0] = 0
  BY <1>5 DEF AllTurns
<1> HIDE DEF step, turn
<1> DEFINE h == [n \in 0 .. N |-> f[n]]
<1>8. ASSUME NEW n \in 0 .. N
      PROVE  f[n] = IF n = 0 THEN 0 ELSE h[n - 1] * Base + ds[n]
  <2>1. CASE n = 0
    BY <1>7, <2>1
  <2>2. CASE n # 0
    <3>1. n \in 1 .. N /\ n - 1 \in 0 .. N
      BY <1>1, <2>2
    <3>2. h[n - 1] = f[n - 1]
      BY <3>1
    <3> QED
      BY <1>6, <2>2, <3>1, <3>2 DEF B
  <2> QED
    BY <2>1, <2>2
<1>9. Eq(h)
  BY <1>8
<1>10. NumberAfter(ds) = CHOOSE z : Eq(z)
  BY DEF NumberAfter, N
<1>11. Eq(NumberAfter(ds))
  <2> HIDE DEF Eq, h
  <2> QED
    BY <1>9, <1>10
<1> DEFINE z == NumberAfter(ds)
<1>12. z = [n \in 0 .. N |-> IF n = 0 THEN 0 ELSE z[n - 1] * Base + ds[n]]
  BY <1>11
<1> HIDE DEF z, Eq
<1>13. z[0] = 0 /\ \A n \in 1 .. N : z[n] = z[n - 1] * Base + ds[n]
  <2>1. 0 \in 0 .. N /\ \A n \in 1 .. N : n \in 0 .. N /\ n # 0
    BY <1>1
  <2> QED
    BY <1>12, <2>1
<1> QED
  BY <1>13 DEF z, N

\* The digits of a number are as many as asked for, and digits.
LEMMA DigitsAre ==
    ASSUME NEW n \in Nat, NEW w \in Nat
    PROVE  /\ DigitsOf(n, w) \in Seq(Nat) /\ Len(DigitsOf(n, w)) = w
           /\ \A k \in 1 .. w : DigitsOf(n, w)[k] = (n \div Power[w - k]) % Base
<1>1. ASSUME NEW k \in 1 .. w PROVE (n \div Power[w - k]) % Base \in Nat
  <2> DEFINE p == Power[w - k]
  <2>1. p \in Nat \ {0} /\ Base \in Nat \ {0}
    <3>1. w - k \in Nat
      OBVIOUS
    <3> QED
      BY <3>1, PowerIs, BaseAssumption
  <2> HIDE DEF p
  <2>2. n \div p \in Int
    BY <2>1
  <2> QED
    BY <2>1, <2>2, Divided DEF p
<1>2. DigitsOf(n, w) = [k \in 1 .. w |-> (n \div Power[w - k]) % Base]
  BY DEF DigitsOf
<1> QED
  BY <1>1, <1>2

\* The number is read back from its digits, however many its range has.
LEMMA DigitsReturn ==
    ASSUME NEW w \in Nat, NEW n \in Nat, n < Power[w]
    PROVE  Number(DigitsOf(n, w)) = n
<1> DEFINE ds == DigitsOf(n, w)
           z == NumberAfter(ds)
           B == Base
           S == {k \in Nat : k <= w => z[k] = n \div Power[w - k]}
<1>1. /\ ds \in Seq(Nat) /\ Len(ds) = w
      /\ \A k \in 1 .. w : ds[k] = (n \div Power[w - k]) % Base
  BY DigitsAre
<1> HIDE DEF ds
<1>2. z[0] = 0 /\ \A k \in 1 .. w : z[k] = z[k - 1] * Base + ds[k]
  BY <1>1, NumberAfterIs
<1>3. B \in Nat \ {0}
  BY BaseAssumption
<1> HIDE DEF z
<1>4. 0 \in S
  <2> DEFINE p == Power[w]
  <2>1. p \in Nat \ {0} /\ n < p
    BY PowerIs
  <2> HIDE DEF p
  <2>2. n \div p = 0
    BY <2>1
  <2> QED
    BY <1>2, <2>2 DEF p
<1>5. ASSUME NEW k \in Nat, k \in S PROVE k + 1 \in S
  <2> SUFFICES ASSUME k + 1 <= w PROVE z[k + 1] = n \div Power[w - (k + 1)]
    OBVIOUS
  <2> DEFINE j == k + 1
             m == w - j
             p == Power[m]
             x == n \div p
  <2>1. j \in 1 .. w /\ j - 1 = k /\ m \in Nat /\ w - k = m + 1
    OBVIOUS
  <2> HIDE DEF j, m
  <2>2. p \in Nat \ {0} /\ Power[m + 1] = p * B
    BY <2>1, PowerIs
  <2>3. z[k] = n \div (p * B)
    BY <1>5, <2>1, <2>2
  <2> HIDE DEF p, B
  <2>4. x \in Nat /\ x \div B = n \div (p * B)
    <3>1. n \in Nat /\ p \in Nat \ {0} /\ B \in Nat \ {0}
      BY <1>3, <2>2
    <3>2. x \in Nat
      BY ONLY <3>1
    <3> QED
      BY <3>1, <3>2, DivTwice
  <2>5. ds[j] = x % B
    BY <1>1, <2>1 DEF p, m, B
  <2> HIDE DEF x
  <2>6. x = B * (x \div B) + (x % B) /\ x \div B \in Int /\ x % B \in Int
    <3>1. x \in Int /\ B \in Nat \ {0}
      BY <1>3, <2>4
    <3> QED
      BY <3>1, Divided
  <2>7. z[j] = z[k] * B + ds[j]
    BY <1>2, <2>1 DEF B
  <2>8. z[j] = x
    BY <1>3, <2>3, <2>4, <2>5, <2>6, <2>7
  <2> QED
    BY <2>8 DEF x, p, m, j
<1>6. \A k \in Nat : k \in S
  <2> HIDE DEF S
  <2> QED
    BY <1>4, <1>5, AllNaturals
<1>7. z[w] = n \div Power[0]
  BY <1>6
<1>8. n \div 1 = n
  OBVIOUS
<1> QED
  BY <1>1, <1>7, <1>8, PowerIs DEF Number, z, ds

\* v is n where n fits, and one that fits and differs by a multiple of p if not.
SignedReading(n, p, v) ==
    /\ n \in -(p \div 2) .. p \div 2 - 1 => v = n
    /\ v \in -(p \div 2) .. p \div 2 - 1
    /\ (n - v) % p = 0

\* Two's complement gives back what is left of a number.
LEMMA SignedIs ==
    ASSUME NEW h \in Nat \ {0}, NEW n \in Int, NEW p \in Int, p = 2 * h,
           NEW r \in Int, r = n % p, NEW v \in Int, v = IF r < p \div 2 THEN r ELSE r - p
    PROVE  SignedReading(n, p, v)
<1> DEFINE d == n \div p
<1>1. p \in Nat \ {0} /\ p \div 2 = h
  OBVIOUS
<1>2. r \in 0 .. p - 1 /\ d \in Int /\ n = p * d + r
  BY <1>1, Divided
<1>3. v = IF r < h THEN r ELSE r - p
  BY <1>1
<1>4. 0 <= n /\ n < p => r = n
  BY <1>1
<1>5. 0 - p <= n /\ n < 0 => r = n + p
  BY <1>1
<1> HIDE DEF d
<1>6. v \in -h .. h - 1
  BY <1>2, <1>3
<1>7. n \in -h .. h - 1 => v = n
  BY <1>3, <1>4, <1>5
<1>8. (n - v) % p = 0
  <2>1. ASSUME NEW x \in Int, NEW q \in Int, x = p * q PROVE x % p = 0
    BY <1>1, <2>1, NoRest
  <2>2. CASE r < h
    <3>1. n - v = p * d /\ n - v \in Int
      BY <1>1, <1>2, <1>3, <2>2
    <3> QED
      BY <1>2, <2>1, <3>1
  <2>3. CASE ~(r < h)
    <3>1. d + 1 \in Int /\ p * (d + 1) = p * d + p
      BY <1>1, <1>2
    <3>2. n - v = p * (d + 1) /\ n - v \in Int
      BY <1>1, <1>2, <1>3, <2>3, <3>1
    <3> QED
      BY <2>1, <3>1, <3>2
  <2> QED
    BY <2>2, <2>3
<1> QED
  BY <1>1, <1>6, <1>7, <1>8 DEF SignedReading

\* Every number that is written to a message is read back from it if its type
\* holds it, and up to a multiple of the type's range if not: DigitsReturn, and
\* two's complement undone (msg_struct.h:60-226, proto_parser.h:61-71, 169-183).
THEOREM NumbersReturn ==
    \A type \in NumberTypes : \A n \in Int : NumberReturns(type, n)
<1> SUFFICES ASSUME NEW type \in NumberTypes, NEW n \in Int
             PROVE  NumberReturns(type, n)
  OBVIOUS
<1> DEFINE w == Width(type)
           p == Power[w]
           r == n % p
           e == Encoded(type, n)
           v == Value(type, e)
<1>1. w \in Nat \ {0}
  BY DEF NumberTypes, Width
<1> HIDE DEF w
<1>2. PICK h \in Nat \ {0} : p = 2 * h
  BY <1>1, PowerIsEven
<1>3. p \in Nat \ {0}
  BY <1>2
<1> HIDE DEF p
<1>4. r \in Nat /\ r < p
  BY <1>3, Divided
<1>5. e = DigitsOf(r, w)
  BY DEF Encoded, p, w
<1> HIDE DEF r
<1>6. Number(e) = r /\ Len(e) = w
  <2>1. w \in Nat /\ r \in Nat /\ r < Power[w]
    BY <1>1, <1>4 DEF p
  <2> HIDE DEF e
  <2>2. Number(DigitsOf(r, w)) = r
    BY ONLY <2>1, DigitsReturn
  <2>3. Len(DigitsOf(r, w)) = w
    BY ONLY <2>1, DigitsAre
  <2> QED
    BY ONLY <1>5, <2>2, <2>3
<1> HIDE DEF e
<1>7. e # <<>>
  BY <1>1, <1>6
<1>8. CASE Signed(type)
  <2>1. v = IF r < p \div 2 THEN r ELSE r - p
    BY <1>6, <1>7, <1>8 DEF Value, TwosComplement, w, p
  <2> HIDE DEF v
  <2>2. SignedReading(n, p, v)
    <3>1. r = n % p /\ r \in Int /\ p \in Int
      BY <1>3, <1>4 DEF r
    <3>2. v \in Int
      BY <2>1, <3>1
    <3> QED
      BY <1>2, <2>1, <3>1, <3>2, SignedIs
  <2>3. Held(type) = -(p \div 2) .. p \div 2 - 1
    BY <1>8 DEF Held, w, p
  <2> QED
    BY <1>6, <2>2, <2>3 DEF NumberReturns, SignedReading, v, e, w, p
<1>9. CASE ~Signed(type)
  <2>1. v = r
    BY <1>6, <1>9 DEF Value
  <2>2. Held(type) = 0 .. p - 1
    BY <1>9 DEF Held, w, p
  <2>3. n \in 0 .. p - 1 => r = n
    BY <1>3 DEF r
  <2>4. (n - r) % p = 0
    <3>1. n = p * (n \div p) + r /\ n \div p \in Int
      BY <1>3, Divided DEF r
    <3>2. n - r = p * (n \div p) /\ n - r \in Int
      BY <1>3, <1>4, <3>1
    <3> QED
      BY <1>3, <3>1, <3>2, NoRest
  <2>5. r \in 0 .. p - 1
    BY <1>3, <1>4
  <2> HIDE DEF v
  <2>6. Len(e) = w /\ (n \in Held(type) => v = n) /\ v \in Held(type)
    BY <1>6, <2>1, <2>2, <2>3, <2>5
  <2>7. (n - v) % p = 0
    BY <2>1, <2>4
  <2> QED
    BY <2>6, <2>7 DEF NumberReturns, v, e, w, p
<1> QED
  BY <1>8, <1>9
=============================================================================
