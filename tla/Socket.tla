------------------------------- MODULE Socket -------------------------------
(***************************************************************************)
(* Socket (net/Socket.cc): an object around a descriptor, whose methods    *)
(* make the hooked calls of module Hook.  A method sets out with an action *)
(* of this module, goes on with the steps of its call, and comes back with *)
(* finished, which may set out on another one.                             *)
(***************************************************************************)
EXTENDS Hook

VARIABLES
  sockfd,   \* fd_
  conn      \* isConnected_

sockVars == <<hookVars, sockfd, conn>>

SocketInit ==
  /\ HookInit
  /\ sockfd = [s \in Socks |-> NoFd]
  /\ conn = [s \in Socks |-> FALSE]

(* A method of s that makes a call on its descriptor. *)
Method(f, op, s, d) ==
  fib' = [fib EXCEPT ![f].pc = "enter", ![f].op = op, ![f].sock = s,
                     ![f].fd = d, ![f].no = @ + 1, ![f].ret = "none"]

(* What is remembered of f ends with the call. *)
Fresh(f) == /\ raced' = raced \ {f}
            /\ misled' = misled \ {f}
            /\ UNCHANGED stale

(* newSock (and, for a listener, ::bind and ::listen) *)
newSock(s, kind) ==
  /\ Free # {}
  /\ Open(NewFd, kind, s)
  /\ sockfd' = [sockfd EXCEPT ![s] = NewFd]

(* Socket::setRecvTimeout: a setsockopt *)
setRecvTimeout(d) == setTimeout(d, "READ")

(* Socket::connect: newSock() first, if there is no descriptor. *)
connect(f, s) ==
  /\ At(f, "body")
  /\ IF sockfd[s] = NoFd
     THEN newSock(s, "fresh")
     ELSE UNCHANGED <<kern, ctx, sockfd>>
  /\ Method(f, "connect", s, sockfd'[s])
  /\ UNCHANGED <<nthreads, chan, reg, timers, queue, cpu, history, conn>>

(* Socket::recv, send and their variants; nothing if not connected *)
transfer(f, s, op) ==
  /\ At(f, "body")
  /\ conn[s]
  /\ Method(f, op, s, sockfd[s])
  /\ UNCHANGED <<nthreads, kern, ctx, chan, reg, timers, queue, cpu, history,
                 sockfd, conn>>

(* Mutant: fd_ is not reset. *)
Closed_keeps(s) == UNCHANGED sockfd
Closed(s) == sockfd' = [sockfd EXCEPT ![s] = NoFd]

(* Socket::close, the destructor's too: isConnected_ = false, ::close and  *)
(* (in finished) fd_ = -1.                                                 *)
close(f, s) ==
  /\ At(f, "body")
  /\ conn[s] \/ sockfd[s] # NoFd
  /\ conn' = [conn EXCEPT ![s] = FALSE]
  /\ IF sockfd[s] # NoFd THEN Method(f, "close", s, sockfd[s]) ELSE UNCHANGED fib
  /\ UNCHANGED <<nthreads, kern, ctx, chan, reg, timers, queue, cpu, history,
                 sockfd>>

(* fcntl and ioctl on the descriptor of s *)
setFlags(f, s) ==
  /\ At(f, "body")
  /\ \E flag \in BOOLEAN : fcntl(sockfd[s], flag) \/ ioctl(sockfd[s], flag)
  /\ fib' = [fib EXCEPT ![f].no = @ + 1]
  /\ UNCHANGED <<nthreads, chan, reg, timers, queue, cpu, raced, misled,
                 sockfd, conn>>

(* sleep, usleep, nanosleep *)
sleep(f) ==
  /\ At(f, "body")
  /\ Method(f, "sleep", NoSock, NoFd)
  /\ UNCHANGED <<nthreads, kern, ctx, chan, reg, timers, queue, cpu, history,
                 sockfd, conn>>

(***************************************************************************)
(* After the call: connect() closes the socket if it failed, close()       *)
(* resets fd_; then the fiber goes on at `pc`.                             *)
(***************************************************************************)
finished(f, pc) ==
  LET s == fib[f].sock
      op == fib[f].op
  IN /\ At(f, "done")
     /\ op # "accept"
     /\ \/ /\ op = "connect" /\ fib[f].ret = "ok"
           /\ conn' = [conn EXCEPT ![s] = TRUE]
           /\ Between(f, pc)
           /\ UNCHANGED sockfd
        \/ /\ op = "connect" /\ fib[f].ret # "ok"
           /\ conn' = [conn EXCEPT ![s] = FALSE]
           /\ IF sockfd[s] # NoFd THEN Call(f, "close", sockfd[s]) ELSE Between(f, pc)
           /\ UNCHANGED sockfd
        \/ /\ op = "close"
           /\ Closed(s)
           /\ Between(f, pc)
           /\ UNCHANGED conn
        \/ /\ op \in {"recv", "send", "sleep"}
           /\ Between(f, pc)
           /\ UNCHANGED <<sockfd, conn>>
     /\ Fresh(f)
     /\ UNCHANGED <<nthreads, kern, ctx, chan, reg, timers, queue, cpu>>

-----------------------------------------------------------------------------
(* accept: accept_f gives a descriptor of a client, ... *)
TryAccept(f, client) ==
  LET d == fib[f].fd
  IN /\ At(f, "try")
     /\ fib[f].op = "accept"
     /\ Kind(d) = "listen" /\ "READ" \in kern[d].ready
     /\ Free # {}
     /\ kern' = [kern EXCEPT ![d].ready = {},
                   ![NewFd] = [kind |-> "stream", nonblock |-> FALSE,
                               ready |-> {"WRITE"}, sock |-> client]]
     /\ fib' = [fib EXCEPT ![f].pc = "accepted", ![f].fd = NewFd,
                           ![f].sock = client, ![f].loop = FALSE]
     /\ UNCHANGED <<nthreads, ctx, chan, reg, timers, queue, cpu, history, sockfd, conn>>

(* ... which gets its context, ... *)
Accepted(f) ==
  /\ At(f, "accepted")
  /\ Open(fib[f].fd, "stream", fib[f].sock)
  /\ GoOn(f, "init")
  /\ UNCHANGED <<nthreads, chan, reg, timers, queue, cpu, history, sockfd, conn>>

(* ... and Socket::init makes it the client's. *)
init(s, d) ==
  /\ ctx[d].there
  /\ sockfd' = [sockfd EXCEPT ![s] = d]
  /\ conn' = [conn EXCEPT ![s] = TRUE]
=============================================================================
