--------------------------------- MODULE Socket ---------------------------------
(***************************************************************************)
(* Net/Socket: a descriptor that is made when it is first asked for, and a  *)
(* stream buffer over it.  The bytes of a connection are numbered in each   *)
(* direction.  The kernel takes any number of the bytes it is given, none,  *)
(* or reports an error; what it took or holds is in wire and inbox.         *)
(***************************************************************************)
EXTENDS Integers, Sequences

CONSTANTS
  BufferSize,        \* 256 in the code
  MaxSent            \* bound: bytes of a connection, in each direction

ASSUME SocketAssumption == BufferSize \in Nat \ {0} /\ MaxSent \in Nat

VARIABLES
  sock,       \* the descriptor: "none" (-1), "made", "listening" or "connected"
  room,       \* epptr - pbase: 0 until the buffers are allocated
  out,        \* pbase to pptr: bytes not yet sent
  unread,     \* gptr to egptr: bytes received and not yet read
  error,      \* _error # 0
  written,    \* how many bytes the program has put into this connection
  wire,       \* what the kernel has taken of them
  arriving,   \* how many bytes the peer has sent
  inbox,      \* those of them the kernel still holds
  closed,     \* the peer has closed
  got         \* what the program has read

socketVars == <<sock, room, out, unread, error, written, wire, arriving, inbox, closed, got>>
streamVars == <<written, wire, arriving, inbox, closed, got>>

SocketInit ==
  /\ sock = "none" /\ room = 0 /\ out = <<>> /\ unread = <<>> /\ error = FALSE
  /\ written = 0 /\ wire = <<>> /\ arriving = 0 /\ inbox = <<>>
  /\ closed = FALSE /\ got = <<>>

IsConnected == sock # "none"

(* fd(): socket() may fail. *)
MakeSocket ==
  /\ sock = "none"
  /\ \/ sock' = "made" /\ UNCHANGED error
     \/ error' = TRUE /\ UNCHANGED sock
  /\ UNCHANGED <<room, out, unread, streamVars>>

(* disconnect() leaves the buffers as they are. *)
Disconnect == sock' = "none" /\ UNCHANGED <<room, out, unread, error, streamVars>>

NewStream ==
  /\ written' = 0 /\ wire' = <<>> /\ arriving' = 0 /\ inbox' = <<>>
  /\ closed' = FALSE /\ got' = <<>>

(* Mutant: what was not sent to the last peer stays in the buffer. *)
NewBuffersKeepOut == room' = BufferSize /\ unread' = <<>> /\ UNCHANGED out

(* setReceiveBuff() and setSendBuff() *)
NewBuffers == room' = BufferSize /\ unread' = <<>> /\ out' = <<>>

(* connect(), and the constructor with a descriptor that accept() returned.   *)
(* The descriptor is made anew.  setBlocking() may fail at the end.           *)
Connect ==
  \/ /\ sock' = "none" /\ error' = TRUE
     /\ UNCHANGED <<room, out, unread, streamVars>>
  \/ /\ sock' = "connected" /\ error' = FALSE /\ NewBuffers /\ NewStream
  \/ /\ sock' = "none" /\ error' = TRUE /\ NewBuffers /\ UNCHANGED streamVars

(* listen(): after a failure the descriptor stays. *)
Listen ==
  /\ \/ sock' = "listening" /\ UNCHANGED error
     \/ sock' = "made" /\ error' = TRUE
  /\ UNCHANGED <<room, out, unread, streamVars>>

--------------------------------------------------------------------------------
(* Mutant: what the kernel took stays at the front of the buffer. *)
UnsentAtFront(k) == SubSeq(out, 1, Len(out) - k)

(* sync() moves what was not sent to the front. *)
Unsent(k) == SubSeq(out, k + 1, Len(out))

(* The sends of sync(): the kernel takes k bytes; then all are sent, or it    *)
(* would block, or the connection is lost.  ENOTCONN, ECONNRESET and EPIPE    *)
(* are not kept as errors.                                                    *)
SyncSends(k) ==
  /\ k = 0 \/ sock = "connected"
  /\ wire' = IF sock = "connected" THEN wire \o SubSeq(out, 1, k) ELSE wire

SyncFails(k) ==
  /\ k < Len(out) /\ SyncSends(k)
  /\ out' = Unsent(k)
  /\ \/ sock = "connected" /\ UNCHANGED <<sock, error>>
     \/ sock' = "none" /\ error' \in BOOLEAN

Flush ==
  /\ IsConnected
  /\ \/ SyncSends(Len(out)) /\ out' = <<>> /\ UNCHANGED <<sock, error>>
     \/ \E k \in 0..Len(out) : SyncFails(k)
  /\ UNCHANGED <<room, unread, written, arriving, inbox, closed, got>>

(* sputc(): a byte goes into the buffer, or overflow() makes room for it.     *)
(* When sync() fails the byte is refused.  Without a buffer it is sent at     *)
(* once, which fails on a socket that never was connected.                    *)
Put ==
  /\ IsConnected /\ written < MaxSent
  /\ \/ /\ Len(out) < room
        /\ out' = Append(out, written + 1) /\ written' = written + 1
        /\ UNCHANGED <<sock, error, wire>>
     \/ /\ Len(out) = room /\ room > 0 /\ SyncSends(Len(out))
        /\ out' = <<written + 1>> /\ written' = written + 1
        /\ UNCHANGED <<sock, error>>
     \/ /\ Len(out) = room
        /\ \E k \in 0..Len(out) : SyncFails(k)
        /\ UNCHANGED written
     \/ /\ room = 0 /\ sock' = "none" /\ error' \in BOOLEAN
        /\ UNCHANGED <<out, written, wire>>
  /\ UNCHANGED <<room, unread, arriving, inbox, closed, got>>

--------------------------------------------------------------------------------
PeerSends ==
  /\ sock = "connected" /\ ~closed /\ arriving < MaxSent
  /\ arriving' = arriving + 1 /\ inbox' = Append(inbox, arriving + 1)
  /\ UNCHANGED <<sock, room, out, unread, error, written, wire, closed, got>>

PeerCloses ==
  /\ sock = "connected" /\ closed' = TRUE
  /\ UNCHANGED <<sock, room, out, unread, error, written, wire, arriving, inbox, got>>

(* sbumpc(): a byte from the buffer; underflow() fills it with what the       *)
(* kernel has.  At the end of the stream, and on an error, it disconnects.    *)
Get ==
  /\ \/ /\ unread # <<>> /\ got' = Append(got, Head(unread)) /\ unread' = Tail(unread)
        /\ UNCHANGED <<sock, error, inbox>>
     \/ /\ unread = <<>> /\ sock = "connected" /\ inbox # <<>>
        /\ \E n \in 1..Len(inbox) :
             /\ n <= BufferSize
             /\ got' = Append(got, Head(inbox)) /\ unread' = SubSeq(inbox, 2, n)
             /\ inbox' = SubSeq(inbox, n + 1, Len(inbox))
        /\ UNCHANGED <<sock, error>>
     \/ /\ unread = <<>> /\ IsConnected
        /\ sock' = "none" /\ error' \in BOOLEAN
        /\ closed /\ inbox = <<>> => error' = error
        /\ UNCHANGED <<unread, inbox, got>>
  /\ UNCHANGED <<room, out, written, wire, arriving, closed>>

SocketNext ==
  \/ MakeSocket \/ Disconnect \/ Connect \/ Listen
  \/ Flush \/ Put \/ PeerSends \/ PeerCloses \/ Get

SocketSpec == SocketInit /\ [][SocketNext]_socketVars

--------------------------------------------------------------------------------
(* Properties. *)

FirstBytes(n) == [i \in 1 .. n |-> i]

(* While a connection lasts, what the kernel took and the buffer together     *)
(* are the bytes written into it, and what was read, the buffer and the       *)
(* kernel's inbox are the bytes that came: none is lost, repeated, reordered  *)
(* or left from the connection before, whatever the kernel accepts and        *)
(* whichever call fails.                                                      *)
StreamsInOrder ==
  sock = "connected" =>
    /\ wire \o out = FirstBytes(written)
    /\ got \o unread \o inbox = FirstBytes(arriving)

SocketTypeOK ==
  /\ sock \in {"none", "made", "listening", "connected"}
  /\ written \in Nat /\ arriving \in Nat
  /\ out \in Seq(Nat) /\ unread \in Seq(Nat)
  /\ wire \in Seq(Nat) /\ inbox \in Seq(Nat) /\ got \in Seq(Nat)
================================================================================
