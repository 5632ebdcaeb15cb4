----------------------------- MODULE Connection -----------------------------
(***************************************************************************)
(* The TCP functions of src/src/hcore_connection.c, driven by one host     *)
(* that sends a flat buffer with hcore_tcp_send and then a chain of        *)
(* buffers with hcore_tcp_send_chain, and reads with hcore_tcp_recv, each  *)
(* when the ready flag of the event tells it to.  Between two system calls *)
(* the kernel, the peer and the host's event loop take any steps.          *)
(*                                                                         *)
(* A byte is identified by its address, so what the peer reads shows which *)
(* buffer every byte came from and in which order they left.               *)
(***************************************************************************)
EXTENDS Integers, Sequences, FiniteSetsExt

CONSTANTS
  Buffers,     \* the flat buffers a host may send, as records [pos, last]
  Chains,      \* the chains of buffers it may send after one
  IovMax,      \* HCORE_IOV_MAX
  SockRoom,    \* the bytes the kernel's send buffer holds
  MaxIn,       \* bound: the bytes the peer sends
  MaxFaults    \* bound: the system calls that fail with EINTR or an error

\* A buffer: pos never passes last.
Areas == {b \in [pos : Nat \ {0}, last : Nat \ {0}] : b.pos <= b.last}

ASSUME ConnectionAssumption ==
  /\ Buffers \subseteq Areas /\ \A c \in Chains : c \in Seq(Areas)
  /\ IovMax \in Nat \ {0} /\ SockRoom \in Nat \ {0}
  /\ MaxIn \in Nat /\ MaxFaults \in Nat

VARIABLES
  message,    \* the bytes the host set out to send
  flat,       \* what is left of the flat buffer
  out,        \* the links of the chain that are still to be sent
  sock,       \* the bytes in the kernel's send buffer
  got,        \* the bytes the peer has read
  sentSize,   \* c->sent_size
  inq,        \* how many bytes of the peer wait to be received
  peerSent,   \* how many it has sent
  peerOpen,   \* it has not closed its side
  wev, rev,   \* c->wev and c->rev: [ready, error, eof]
  faults,     \* system calls that failed
  pc          \* the function the host is in

vars == <<message, flat, out, sock, got, sentSize, inq, peerSent, peerOpen,
          wev, rev, faults, pc>>
kernel == <<inq, peerSent, peerOpen>>
-----------------------------------------------------------------------------
Min2(a, b) == IF a < b THEN a ELSE b

\* hcore_buf_get_size.
Size(b) == b.last - b.pos
TotalSize(links) ==
  LET f[i \in 0 .. Len(links)] == IF i = 0 THEN 0 ELSE f[i - 1] + Size(links[i])
  IN f[Len(links)]

Bytes(b) == [i \in 1 .. Size(b) |-> b.pos + i - 1]
AllBytes(links) ==
  LET f[i \in 0 .. Len(links)] == IF i = 0 THEN <<>> ELSE f[i - 1] \o Bytes(links[i])
  IN f[Len(links)]

Room == SockRoom - Len(sock)

\* NULL, which is the address of no byte.
Null == 0

\* The iovecs built so far, where the last one ends, and vec->size.
NoIovecs == [iovs |-> <<>>, prevLast |-> Null, size |-> 0]

\* Mutant: a coalesced buffer is not counted in vec->size.
AddToIovecShort(v, b) ==
  IF Len(v.iovs) = IovMax THEN v
  ELSE IF v.prevLast = b.pos
  THEN [v EXCEPT !.iovs[Len(v.iovs)].last = @ + Size(b), !.prevLast = b.last]
  ELSE [iovs |-> Append(v.iovs, b), prevLast |-> b.last, size |-> v.size + Size(b)]

\* A buffer that starts where the one before it ended extends its iovec; the
\* others take the next one, as long as there is one.
AddToIovec(v, b) ==
  IF Len(v.iovs) = IovMax THEN v
  ELSE IF v.prevLast = b.pos
  THEN [v EXCEPT !.iovs[Len(v.iovs)].last = @ + Size(b), !.prevLast = b.last,
                 !.size = @ + Size(b)]
  ELSE [iovs |-> Append(v.iovs, b), prevLast |-> b.last, size |-> v.size + Size(b)]

\* hcore_output_chain_to_iovec
ToIovec(links) ==
  LET f[i \in 0 .. Len(links)] ==
        IF i = 0 THEN NoIovecs
        ELSE LET v == f[i - 1] IN AddToIovec(v, links[i])
  IN f[Len(links)]

\* The first link at which n bytes of the chain have been passed over.
Reached(links, n) ==
  {i \in DOMAIN links : TotalSize(SubSeq(links, 1, i)) >= n}

\* Mutant: a link of which a part was sent is taken as sent.
UpdateWholeLink(links, n) ==
  IF n = 0 THEN links
  ELSE IF Reached(links, n) = {} THEN <<>>
  ELSE LET k == Min(Reached(links, n)) IN
       <<[links[k] EXCEPT !.pos = links[k].last]>>
       \o SubSeq(links, k + 1, Len(links))

\* hcore_update_output_chain: it stops at the link where the count is used up,
\* even when nothing of that link is left.
UpdateOutputChain(links, n) ==
  IF n = 0 THEN links
  ELSE IF Reached(links, n) = {} THEN <<>>
  ELSE LET k == Min(Reached(links, n))
           rest == n - TotalSize(SubSeq(links, 1, k - 1)) IN
       <<[links[k] EXCEPT !.pos = @ + rest]>> \o SubSeq(links, k + 1, Len(links))

\* send and writev on a non-blocking socket take what fits.
Takes(size) == Min2(size, Room)
-----------------------------------------------------------------------------
\* hcore_create_connection clears both events.
Fresh == [ready |-> FALSE, error |-> FALSE, eof |-> FALSE]

Init ==
  /\ flat \in Buffers /\ out \in Chains
  /\ message = Bytes(flat) \o AllBytes(out)
  /\ sock = <<>> /\ got = <<>> /\ sentSize = 0
  /\ inq = 0 /\ peerSent = 0 /\ peerOpen = TRUE
  /\ wev = Fresh /\ rev = Fresh
  /\ faults = 0 /\ pc = "idle"
-----------------------------------------------------------------------------
(* The host enters a function when the flags tell it to and no call failed. *)

Enter(f) ==
  /\ pc = "idle" /\ ~wev.error /\ ~rev.error
  /\ pc' = f
  /\ UNCHANGED <<message, flat, out, sock, got, sentSize, kernel, wev, rev, faults>>

CallSend == wev.ready /\ Size(flat) > 0 /\ Enter("send")

\* Mutant: the test of the flag in hcore_tcp_send_chain is inverted.
CallSendChainUnready == ~wev.ready /\ Size(flat) = 0 /\ out # <<>> /\ Enter("chain")

\* hcore_tcp_send_chain returns at once when the socket is not ready.
CallSendChain == wev.ready /\ Size(flat) = 0 /\ out # <<>> /\ Enter("chain")

CallRecv == rev.ready /\ ~rev.eof /\ Enter("recv")

\* A call of hcore_tcp_send or hcore_tcp_recv fails: EINTR clears the flag and
\* repeats the call, any other error ends it.
Fails(f) ==
  /\ pc = f /\ faults < MaxFaults
  /\ faults' = faults + 1
  /\ \/ /\ rev' = [rev EXCEPT !.ready = FALSE]
        /\ pc' = pc
     \/ /\ rev' = [rev EXCEPT !.error = TRUE]
        /\ pc' = "idle"
  /\ UNCHANGED <<message, flat, out, sock, got, sentSize, kernel, wev>>
-----------------------------------------------------------------------------
(* hcore_tcp_send.  Its variable wev is c->rev.                            *)

\* n > 0; the host goes on after the n bytes.
SendTakes ==
  /\ pc = "send" /\ Room > 0
  /\ LET n == Takes(Size(flat)) IN
     /\ sock' = sock \o SubSeq(Bytes(flat), 1, n)
     /\ rev' = [rev EXCEPT !.ready = @ /\ n = Size(flat)]
     /\ sentSize' = sentSize + n
     /\ flat' = [flat EXCEPT !.pos = @ + n]
  /\ pc' = "idle"
  /\ UNCHANGED <<message, out, got, kernel, wev, faults>>

\* EAGAIN
SendAgain ==
  /\ pc = "send" /\ Room = 0
  /\ rev' = [rev EXCEPT !.ready = FALSE]
  /\ pc' = "idle"
  /\ UNCHANGED <<message, flat, out, sock, got, sentSize, kernel, wev, faults>>

SendFails == Fails("send")
-----------------------------------------------------------------------------
(* hcore_tcp_send_chain.  One turn of its loop is one writev; hcore_writev  *)
(* repeats it on EAGAIN, which changes nothing, and gives up on EINTR.      *)

\* 0 <= n: the chain is advanced; the loop ends when not all was taken.
ChainTakes ==
  /\ pc = "chain"
  /\ \E vec \in {ToIovec(out)}, n \in 0 .. Room :
       /\ n = Takes(TotalSize(vec.iovs))
       /\ n > 0 \/ TotalSize(vec.iovs) = 0
       /\ sock' = sock \o SubSeq(AllBytes(vec.iovs), 1, n)
       /\ out' = UpdateOutputChain(out, n)
       /\ sentSize' = sentSize + n
       /\ wev' = [wev EXCEPT !.ready = @ /\ vec.size = n]
       /\ pc' = IF vec.size = n THEN pc ELSE "idle"
  /\ UNCHANGED <<message, flat, got, kernel, rev, faults>>

\* errno is not EAGAIN.
ChainFails ==
  /\ pc = "chain" /\ faults < MaxFaults
  /\ faults' = faults + 1
  /\ wev' = [wev EXCEPT !.error = TRUE]
  /\ pc' = "idle"
  /\ UNCHANGED <<message, flat, out, sock, got, sentSize, kernel, rev>>
-----------------------------------------------------------------------------
(* hcore_tcp_recv.                                                         *)

RecvTakes ==
  /\ pc = "recv" /\ inq > 0
  /\ \E n \in 1 .. inq : inq' = inq - n
  /\ pc' = "idle"
  /\ UNCHANGED <<message, flat, out, sock, got, sentSize, peerSent, peerOpen,
                 wev, rev, faults>>

\* Nothing to read: the end of the stream, or EAGAIN.
RecvEmpty ==
  /\ pc = "recv" /\ inq = 0
  /\ rev' = [rev EXCEPT !.ready = FALSE, !.eof = ~peerOpen]
  /\ pc' = "idle"
  /\ UNCHANGED <<message, flat, out, sock, got, sentSize, kernel, wev, faults>>

RecvFails == Fails("recv")
-----------------------------------------------------------------------------
(* The peer, and the event loop of the host, which marks an event ready     *)
(* while the kernel reports that its socket can be read or written.         *)

PeerReads ==
  /\ \E n \in 1 .. Len(sock) :
       /\ got' = got \o SubSeq(sock, 1, n)
       /\ sock' = SubSeq(sock, n + 1, Len(sock))
  /\ UNCHANGED <<message, flat, out, sentSize, kernel, wev, rev, faults, pc>>

PeerSends ==
  /\ peerOpen /\ peerSent < MaxIn
  /\ inq' = inq + 1 /\ peerSent' = peerSent + 1
  /\ UNCHANGED <<message, flat, out, sock, got, sentSize, peerOpen, wev, rev,
                 faults, pc>>

PeerCloses ==
  /\ peerOpen /\ peerOpen' = FALSE
  /\ UNCHANGED <<message, flat, out, sock, got, sentSize, inq, peerSent, wev,
                 rev, faults, pc>>

Writable ==
  /\ pc = "idle" /\ Room > 0 /\ ~wev.ready
  /\ wev' = [wev EXCEPT !.ready = TRUE]
  /\ UNCHANGED <<message, flat, out, sock, got, sentSize, kernel, rev, faults, pc>>

Readable ==
  /\ inq > 0 \/ ~peerOpen
  /\ pc = "idle" /\ ~rev.ready
  /\ rev' = [rev EXCEPT !.ready = TRUE]
  /\ UNCHANGED <<message, flat, out, sock, got, sentSize, kernel, wev, faults, pc>>

Send == CallSend \/ SendTakes \/ SendAgain \/ SendFails
SendChain == CallSendChain \/ ChainTakes \/ ChainFails
Recv == CallRecv \/ RecvTakes \/ RecvEmpty \/ RecvFails

Next == \/ Send \/ SendChain \/ Recv
        \/ PeerReads \/ PeerSends \/ PeerCloses \/ Writable \/ Readable

Spec == Init /\ [][Next]_vars

\* The host keeps serving its events, the event loop keeps reporting them and
\* the peer keeps reading.
FairSpec ==
  /\ Spec
  /\ WF_vars(Send) /\ WF_vars(SendChain) /\ WF_vars(Recv)
  /\ WF_vars(Writable) /\ WF_vars(PeerReads)
-----------------------------------------------------------------------------
\* What the peer has read, what is under way and what is left to send make up
\* the message: however the kernel cuts the sends (hcore_update_output_chain)
\* and however buffers are joined into iovecs (hcore_output_chain_to_iovec), no
\* byte is lost, sent twice or sent out of order, and c->sent_size counts what
\* the kernel took.
StreamIntact ==
  /\ got \o sock \o Bytes(flat) \o AllBytes(out) = message
  /\ sentSize = Len(got) + Len(sock)

\* hcore_tcp_send_chain gives up the readiness of the socket only when the
\* kernel's buffer is full: it never makes the host wait for an event that has
\* already happened.
WaitsOnlyWhenFull == [][wev.ready /\ ~wev'.ready => Len(sock') = SockRoom]_vars

\* A message that is being sent reaches the peer whole, unless a call failed,
\* whatever partial sends and full buffers come between.
Delivered == <>(got = message \/ wev.error \/ rev.error)

\* hcore_tcp_send_chain returns to its caller.
SendChainReturns == (pc = "chain") ~> (pc = "idle")
=============================================================================
