------------------------------ MODULE WebSocket ------------------------------
(***************************************************************************)
(* The bytes of one client connection: the upgrade request and the frames  *)
(* of src/logic/websocket.h and websocket_request.cpp, as the read         *)
(* callback of src/common/thread_io.h takes them from the input buffer.    *)
(* ClientIo.tla receives whole packets; here the stream arrives cut at any *)
(* byte, and all connections share the one object websocket::ref, whose    *)
(* buffer keeps what the previous callback left there.                     *)
(*                                                                         *)
(* A byte is the cell <<f, k>>: the k-th byte of frame f, frame 0 being    *)
(* the upgrade request; Stale is a byte of some earlier callback.  A frame *)
(* is a record of what its header says and of what becomes of its message: *)
(*   fin, op    the first byte;  masked, len  the second one and the length*)
(*   fate       "ok"       the message is pushed to the logic              *)
(*              "refused"  pk_limit drops it (thread_io.h:137-143)         *)
(*              "starved"  no receive block is free (thread_io.h:145-152)  *)
(*              "differs"  its own length is not the packet's (:127-129)   *)
(*              "bad"      its own length is out of range (:123-126)       *)
(* Left out are the 64-bit length form and payloads as long as buf, which  *)
(* fetch_payload_length takes for empty ones (websocket_request.cpp:77),   *)
(* and an upgrade request that buf does not hold or that has no key.       *)
(***************************************************************************)
EXTENDS Integers, SequencesExt

CONSTANTS ReqLen,     \* bytes of the upgrade request, its end included
          BufSize,    \* sizeof(buf), 2048
          Extended,   \* lengths from here on take two more bytes, 126
          MinPacket,  \* bytes the callback waits for, 6
          FrameKinds, \* the frames a client sends
          MaxFrames,  \* bound: frames of a run
          Stale       \* a byte of some earlier callback

\* MinPacket bytes hold either form of a length; no masked frame has less.
ASSUME WsAssumption ==
    /\ BufSize \in Nat /\ ReqLen \in 1..BufSize
    /\ Extended \in Nat /\ MinPacket \in 4..6
    /\ FrameKinds \subseteq
         [fin : BOOLEAN, op : Nat, masked : BOOLEAN, len : 0..(BufSize - 1),
          fate : {"ok", "refused", "starved", "differs", "bad"}]
    /\ MaxFrames \in Nat

VARIABLES up,      \* fd2websocket[fd]
          open,    \* the connection has not been closed
          in,      \* bufferevent_get_input(be)
          buf,     \* websocket::ref.buf
          frames,  \* the frames the client has sent
          wire,    \* bytes on their way
          got,     \* the payloads pushed to the logic, in order
          reading, \* cb_read is running
          early    \* the last callback returned from inside its loop

wsVars == <<up, open, in, buf, frames, wire, got, reading, early>>

HeaderLen(fr) ==
    2 + (IF fr.len < Extended THEN 0 ELSE 2) + (IF fr.masked THEN 4 ELSE 0)

Size(fr) == HeaderLen(fr) + fr.len

Cells(f, n) == [k \in 1..n |-> <<f, k>>]

Payload(f, fr) == [k \in 1..fr.len |-> <<f, HeaderLen(fr) + k>>]

WsInit ==
    /\ up = FALSE /\ open = TRUE /\ reading = FALSE /\ early = FALSE
    /\ in = <<>>
    /\ buf = [i \in 1..BufSize |-> Stale]
    /\ frames = <<>>
    /\ wire = Cells(0, ReqLen)
    /\ got = <<>>

(* The client sends a frame; it has read the answer to its request first.  *)
Send(fr) ==
    /\ up /\ open /\ Len(frames) < MaxFrames
    /\ frames' = Append(frames, fr)
    /\ wire' = wire \o Cells(Len(frames) + 1, Size(fr))
    /\ UNCHANGED <<up, open, in, buf, got, reading, early>>

(* Some bytes arrive, cut anywhere, and cb_read is called.                 *)
Receive(n) ==
    /\ open /\ ~reading /\ n <= Len(wire)
    /\ wire' = SubSeq(wire, n + 1, Len(wire))
    /\ in' = in \o SubSeq(wire, 1, n)
    /\ reading' = TRUE /\ early' = FALSE
    /\ UNCHANGED <<up, open, buf, frames, got>>

-----------------------------------------------------------------------------
(* cb_read *)

(* Bytes written over the start of buf; the rest stays what it was.        *)
CopyOut(bytes, old) == bytes \o SubSeq(old, Len(bytes) + 1, BufSize)

(* hand_shake: the request is answered when its end is the last thing in   *)
(* the buffer; more than buf holds is thrown away.                         *)
HandShake ==
    /\ reading /\ ~up
    /\ IF BufSize < Len(in)
       THEN in' = <<>> /\ UNCHANGED <<buf, up>>
       ELSE /\ buf' = CopyOut(in, buf)
            /\ up' = (in[Len(in)] = <<0, ReqLen>>)
            /\ in' = IF up' THEN <<>> ELSE in
    /\ reading' = FALSE
    /\ UNCHANGED <<open, frames, wire, got, early>>

(* Mutant: one byte more is waited for.                                    *)
EnoughStrict == MinPacket < Len(in)

Enough == MinPacket <= Len(in)

NothingMore ==
    /\ reading /\ up /\ ~Enough
    /\ reading' = FALSE
    /\ UNCHANGED <<up, open, in, buf, frames, wire, got, early>>

(* What handle_packet looks at: as much of the input as buf holds.         *)
Looked == IF BufSize < Len(in) THEN BufSize ELSE Len(in)
Seen == CopyOut(SubSeq(in, 1, Looked), buf)

(* fetch_websocket_info(buf): the frame the first bytes of buf announce.   *)
Fetched == frames[Seen[1][1]]

(* handle_packet has not got the whole frame, and leaves it there.         *)
Incomplete ==
    /\ reading /\ up /\ Enough
    /\ Looked < Size(Fetched)
    /\ buf' = Seen
    /\ reading' = FALSE
    /\ UNCHANGED <<up, open, in, frames, wire, got, early>>

(* What becomes of a frame: its connection is closed, ...                  *)
Closes ==
    /\ open' = FALSE
    /\ reading' = FALSE
    /\ UNCHANGED <<got, early>>

(* ... the callback returns at once, ...                                   *)
GivesUp ==
    /\ reading' = FALSE /\ early' = TRUE
    /\ UNCHANGED <<open, got>>

(* ... goes on with the next frame, ...                                    *)
GoesOn == UNCHANGED <<open, got, reading, early>>

(* ... or pushes a message first.                                          *)
Pushes(message) ==
    /\ got' = Append(got, message)
    /\ UNCHANGED <<open, reading, early>>

(* A control frame or a fragment the server does not take.                 *)
Unwanted(fr) == ~fr.fin \/ fr.op \notin {2, 9, 10}

HasMessage(fr) == ~Unwanted(fr) /\ fr.op = 2 /\ fr.len > 0

(* A whole frame: handle_packet moves its message to the start of buf,     *)
(* and the loop of cb_read does with it what its fate says.                *)
Packet ==
    /\ reading /\ up /\ Enough
    /\ Size(Fetched) <= Looked
    /\ in' = SubSeq(in, Size(Fetched) + 1, Len(in))
    /\ LET fr == Fetched
           message == SubSeq(Seen, HeaderLen(fr) + 1, Size(fr))
       IN  /\ buf' = IF HasMessage(fr) THEN CopyOut(message, Seen) ELSE Seen
           /\ \/ Unwanted(fr) /\ Closes
              \/ ~Unwanted(fr) /\ ~HasMessage(fr) /\ GoesOn
              \/ HasMessage(fr) /\ fr.fate = "bad" /\ Closes
              \/ HasMessage(fr) /\ fr.fate \in {"differs", "starved"} /\ GivesUp
              \/ HasMessage(fr) /\ fr.fate = "refused" /\ GoesOn
              \/ HasMessage(fr) /\ fr.fate = "ok" /\ Pushes(message)
    /\ UNCHANGED <<up, frames, wire>>

WsNext ==
    \/ \E fr \in FrameKinds : Send(fr)
    \/ \E n \in 1..Len(wire) : Receive(n)
    \/ HandShake \/ NothingMore \/ Incomplete \/ Packet

WsSpec == WsInit /\ [][WsNext]_wsVars

-----------------------------------------------------------------------------
(* send_msg: the frame header of a message of len bytes, with the 4 bytes  *)
(* of msg_head in front; unmasked, the lengths are the code's.             *)
ServerHeader(len) ==
    LET real == len + 4
    IN  IF real < 126 THEN <<130, real>>
        ELSE <<130, 126, (real \div 256) % 256, real % 256>>

(* What a client reads from it.                                            *)
AnnouncedLength(h) == IF h[2] = 126 THEN h[3] * 256 + h[4] ELSE h[2]

(* A message is announced with its length, on both sides of the change of  *)
(* form (websocket.h:77-108).                                              *)
LengthAnnounced(len) == AnnouncedLength(ServerHeader(len)) = len + 4

-----------------------------------------------------------------------------
(* The frames whose bytes have all left the input buffer and the wire.     *)
Consumed ==
    LET left == {c[1] : c \in ToSet(in) \cup ToSet(wire)}
    IN  {f \in 1..Len(frames) : f \notin left}

Fits(fr) == Size(fr) <= BufSize

Deadly(fr) == Unwanted(fr) \/ (HasMessage(fr) /\ fr.fate = "bad")

(* The consumed frames whose message is for the logic.                     *)
Carried == {f \in Consumed : HasMessage(frames[f]) /\ frames[f].fate = "ok"}

(* The frame a message was taken from.                                     *)
FrameOf(message) == message[1][1]

(***************************************************************************)
(* Every message a consumed frame carried reached the logic, whole, with   *)
(* its own bytes and in the order sent: no cut of the stream loses,        *)
(* repeats, mixes or swaps messages, and none is completed with what an    *)
(* earlier callback left in the shared buffer (websocket.h:110-140).       *)
(***************************************************************************)
WholeAndInOrder ==
    /\ {FrameOf(got[i]) : i \in 1..Len(got)} = Carried
    /\ \A i \in 1..Len(got) : got[i] = Payload(FrameOf(got[i]), frames[FrameOf(got[i])])
    /\ \A i, j \in 1..Len(got) : i < j => FrameOf(got[i]) < FrameOf(got[j])

(***************************************************************************)
(* A frame that has arrived whole, is masked as a client's must be and     *)
(* fits the buffer does not wait for bytes that come after it, unless the  *)
(* callback gave up at an earlier frame (thread_io.h:105-114).             *)
(***************************************************************************)
NothingReadyWaits ==
    open /\ up /\ ~reading /\ ~early /\ in # <<>> =>
        LET f == in[1][1]
        IN  ~(/\ frames[f].masked /\ Fits(frames[f])
              /\ ToSet(Cells(f, Size(frames[f]))) \subseteq ToSet(in))

(***************************************************************************)
(* The connection is closed only for a frame that deserves it: a fragment, *)
(* an opcode the server does not take or a message length out of range;    *)
(* and no frame is taken after that one (thread_io.h:109-111, 123-126).    *)
(***************************************************************************)
ClosedForCause ==
    ~open <=> \E f \in Consumed : Deadly(frames[f])

(***************************************************************************)
(* No cut of the byte stream of a client changes, loses, delays or swaps   *)
(* its messages or closes its connection without cause                     *)
(* (websocket.h:110-140, thread_io.h:94-166).                              *)
(***************************************************************************)
StreamKept == WholeAndInOrder /\ NothingReadyWaits /\ ClosedForCause
=============================================================================
