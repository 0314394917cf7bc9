----------------------------- MODULE PthreadIpc -----------------------------
(***************************************************************************)
(* The messages between threads of threads/pthread_ipc.c, on top of the    *)
(* scheduler: synchronous send, receive from one thread, receive from any, *)
(* call and reply.  A call runs with interrupts disabled, so it is one     *)
(* step up to the point where it blocks, and a thread that runs again      *)
(* returns from the call before anything else happens.                     *)
(*                                                                         *)
(* A message is known by its sender and its size, a reply by the thread    *)
(* that made it; the size of a reply is left out.  A thread that returns   *)
(* from a call with no wait flag set has the fields of its ipc_state reset *)
(* here: the code sets each of them again before anybody reads it.         *)
(***************************************************************************)
EXTENDS PosixSched

CONSTANTS
  Main, UserPolicies,   \* of PthreadSched
  ANYTID,
  Sizes,           \* the sizes of messages and of buffers
  Timeouts,        \* the timeouts of oskit_ipc_recv: a subset of {"0", "forever"}
  EarlyReplies,    \* whether a server replies to calls it has not received
  Cancelable       \* the sets of IPC wait flags with which a thread is canceled

ASSUME IpcAssumption ==
  /\ ANYTID \notin Thread \cup {NoThread}
  /\ Sizes \subseteq Nat
  /\ Timeouts \subseteq {"0", "forever"}
  /\ EarlyReplies \in BOOLEAN
  /\ Cancelable \subseteq SUBSET {"SEND", "RECV", "REPL"}

VARIABLES
  sched, new, blocked, enabled,   \* of PthreadSched
  ipc,        \* ipc_state and the IPC wait flags of each thread
  call,       \* the call each thread is blocked in, and its arguments
  result,     \* what the call that returns in this step returns
  sent,       \* how often the message a thread is blocked with was received; no
              \* such count is in the code
  canceled,   \* the threads with THREAD_CANCELED
  panic       \* the panic of pthread_ipc_cancel

S == INSTANCE PthreadSched WITH Handoffs <- TRUE, PolicyChanges <- {}

ipcVars == <<ipc, call, sent, canceled, panic>>
vars == <<sched, new, blocked, enabled, ipc, call, result, sent, canceled, panic>>

Limit == Max(Sizes \cup {0})

\* flags are the bits THREAD_WS_IPC*_WAIT; got is what the buffer for a message
\* or a reply holds, known by the thread that sent it.
IpcState ==
  [flags : SUBSET {"SEND", "RECV", "REPL"}, tid : Thread \cup {NoThread, ANYTID},
   got : Thread \cup {NoThread}, msg_size : 0 .. Limit, senders : Seq(Thread)]

NoCall == [at |-> "out", size |-> 0, peer |-> NoThread, nowait |-> FALSE, err |-> "0"]

NoResult == [of |-> NoThread, err |-> "0", actual |-> 0, peer |-> NoThread]

TypeOK ==
  /\ S!TypeOK
  /\ ipc \in [Thread -> IpcState]
  /\ call \in [Thread -> [at : {"out", "send", "recv", "wait", "call"}, size : 0 .. Limit,
                          peer : Thread \cup {NoThread, ANYTID}, nowait : BOOLEAN,
                          err : {"0", "ERANGE"}]]
  /\ result \in [of : Thread \cup {NoThread}, err : {"0", "ERANGE", "ECANCELED"},
                 actual : 0 .. Limit, peer : Thread \cup {NoThread}]
  /\ sent \in [Thread -> 0 .. 2]
  /\ canceled \subseteq Thread
  /\ panic \in BOOLEAN

Init ==
  /\ S!Init
  /\ ipc = [t \in Thread |-> [flags |-> {}, tid |-> NoThread, got |-> NoThread,
                              msg_size |-> 0, senders |-> <<>>]]
  /\ call = [t \in Thread |-> NoCall]
  /\ result = NoResult
  /\ sent = [t \in Thread |-> 0]
  /\ canceled = {}
  /\ panic = FALSE

At(places) == sched.cur \in Thread /\ call[sched.cur].at \in places

InterruptsEnabled == ~panic /\ ~At({"send", "recv", "wait", "call"})

\* A call begins: pthread_testcancel does not let a canceled thread make one.
Starts == ~panic /\ S!Preemptible /\ At({"out"}) /\ sched.cur \notin canceled

Result(err, actual, peer) ==
  [of |-> sched.cur, err |-> err, actual |-> actual, peer |-> peer]

Short(is) == IF is THEN "ERANGE" ELSE "0"

\* The running thread blocks in a call.
BlockIn(place, n, peer, nowait) ==
  /\ call' = [call EXCEPT ![sched.cur] = [at |-> place, size |-> n, peer |-> peer,
                                          nowait |-> nowait, err |-> "0"]]
  /\ sent' = [sent EXCEPT ![sched.cur] = 0]
  /\ result' = NoResult
  /\ S!Block
  /\ UNCHANGED <<canceled, panic>>

\* It returns from the call it blocked in.
ReturnFrom(r) ==
  LET t == sched.cur
  IN  /\ call' = [call EXCEPT ![t] = NoCall]
      /\ sent' = [sent EXCEPT ![t] = 0]
      /\ result' = r
      /\ ipc' = IF ipc[t].flags # {}
                THEN ipc
                ELSE [ipc EXCEPT ![t].tid = NoThread, ![t].got = NoThread, ![t].msg_size = 0]
      /\ UNCHANGED <<sched, new, blocked, enabled, canceled, panic>>

-----------------------------------------------------------------------------
(* Sending                                                                 *)

\* Mutant: a thread that waits for any message is not seen.
Mut_Expects(u, t) == "RECV" \in ipc[u].flags /\ ipc[u].tid = t

\* u waits for a message that t may send.
Expects(u, t) == "RECV" \in ipc[u].flags /\ ipc[u].tid \in {t, ANYTID}

\* The receiver's state after a message of t was put in its buffer.
Handed(x, t, n) == [x EXCEPT !.got = t, !.msg_size = n, !.tid = t, !.flags = @ \ {"RECV"}]

\* Mutant: a sender is not entered in the queue of the receiver.
Mut_Queued(dst, n, waits) ==
  [ipc EXCEPT ![sched.cur].msg_size = n, ![sched.cur].tid = dst,
              ![sched.cur].flags = @ \cup waits]

\* The state after the running thread has joined the senders of dst.
Queued(dst, n, waits) ==
  [ipc EXCEPT ![dst].senders = Append(@, sched.cur), ![sched.cur].msg_size = n,
              ![sched.cur].tid = dst, ![sched.cur].flags = @ \cup waits]

\* To a receiver that expects it the message is handed over at once, and so is the
\* processor; otherwise the sender queues up and blocks.
oskit_ipc_send(dst, n) ==
  LET t == sched.cur
  IN  /\ Starts
      /\ dst \in Thread \ new
      /\ IF Expects(dst, t)
         THEN /\ ipc' = [ipc EXCEPT ![dst] = Handed(@, t, n)]
              /\ result' = Result(Short(n > ipc[dst].msg_size), 0, dst)
              /\ blocked' = blocked \ {dst}
              /\ sched' = pthread_sched_handoff(sched, "YIELD", dst)
              /\ UNCHANGED <<new, enabled, call, sent, canceled, panic>>
         ELSE /\ ipc' = Queued(dst, n, {"SEND"})
              /\ BlockIn("send", n, dst, FALSE)

SendReturn ==
  LET t == sched.cur
  IN  /\ At({"send"})
      /\ ReturnFrom(IF t \in canceled
                    THEN Result("ECANCELED", 0, NoThread)
                    ELSE Result(Short(call[t].size > ipc[t].msg_size), 0, ipc[t].tid))

-----------------------------------------------------------------------------
(* Receiving                                                               *)

\* The sender u made a call and has to wait for the reply.
Awaits(u) == "REPL" \in ipc[u].flags

\* Mutant: the sender stays on the senders queue.
Mut_Received(u, actual) ==
  [ipc EXCEPT ![u].msg_size = actual, ![u].flags = @ \ {"SEND"}]

\* The state after the running thread has received the message of u.
Received(u, actual) ==
  [ipc EXCEPT ![sched.cur].senders = queue_remove(@, u),
              ![u].msg_size = actual, ![u].flags = @ \ {"SEND"}]

\* Take the message of the waiting sender u into a buffer of size n.
TakeFrom(u, n) ==
  LET actual == IF n < ipc[u].msg_size THEN n ELSE ipc[u].msg_size
      err == Short(actual > 0 /\ ipc[u].msg_size > n)
  IN  /\ ipc' = Received(u, actual)
      /\ result' = Result(err, actual, u)
      /\ sent' = [sent EXCEPT ![u] = @ + 1]
      /\ blocked' = IF Awaits(u) THEN blocked ELSE blocked \ {u}
      /\ sched' = IF Awaits(u) THEN sched ELSE pthread_sched_setrunnable(sched, u)
      /\ UNCHANGED <<new, enabled, call, canceled, panic>>

\* Wait for a message of src, or of anybody.
AwaitFrom(src, place, n, nowait) ==
  /\ ipc' = [ipc EXCEPT ![sched.cur].got = NoThread, ![sched.cur].msg_size = n,
                        ![sched.cur].tid = src, ![sched.cur].flags = @ \cup {"RECV"}]
  /\ BlockIn(place, n, src, nowait)

\* The code does not look at the timeout.
oskit_ipc_recv(src, n, timeout) ==
  /\ Starts
  /\ src \in Thread \ new
  /\ IF "SEND" \in ipc[src].flags /\ ipc[src].tid = sched.cur
     THEN TakeFrom(src, n)
     ELSE AwaitFrom(src, "recv", n, timeout = "0")

\* The first of the senders is served.  With a timeout of 0 and no sender it
\* fails with EAGAIN, and changes nothing.
oskit_ipc_wait(n) ==
  /\ Starts
  /\ IF ipc[sched.cur].senders # <<>>
     THEN TakeFrom(Head(ipc[sched.cur].senders), n)
     ELSE AwaitFrom(ANYTID, "wait", n, FALSE)

\* The end of a receive that blocked.
RecvReturn ==
  LET t == sched.cur
  IN  /\ At({"recv", "wait"})
      /\ ReturnFrom(IF t \in canceled
                    THEN Result("ECANCELED", 0, NoThread)
                    ELSE Result(Short(ipc[t].msg_size > call[t].size), ipc[t].msg_size,
                                ipc[t].tid))

-----------------------------------------------------------------------------
(* Remote procedure calls                                                  *)

\* Like a send, except that the caller blocks until the reply in either case.
oskit_ipc_call(dst, n) ==
  LET t == sched.cur
  IN  /\ Starts
      /\ dst \in Thread \ new
      /\ IF Expects(dst, t)
         THEN /\ ipc' = [ipc EXCEPT ![dst] = Handed(@, t, n),
                                    ![t].tid = dst,
                                    ![t].flags = @ \cup {"REPL"}]
              /\ sent' = [sent EXCEPT ![t] = 1]
              /\ call' = [call EXCEPT ![t] = [at |-> "call", size |-> n, peer |-> dst,
                                              nowait |-> FALSE,
                                              err |-> Short(n > ipc[dst].msg_size)]]
              /\ result' = NoResult
              /\ blocked' = (blocked \ {dst}) \cup {t}
              /\ sched' = pthread_sched_handoff(sched, "BLOCK", dst)
              /\ UNCHANGED <<new, enabled, canceled, panic>>
         ELSE /\ ipc' = Queued(dst, n, {"SEND", "REPL"})
              /\ BlockIn("call", n, dst, FALSE)

CallReturn ==
  LET t == sched.cur
  IN  /\ At({"call"})
      /\ ReturnFrom(Result(IF t \in canceled THEN "ECANCELED" ELSE call[t].err, 0,
                           ipc[t].got))

\* Mutant: any thread may reply.
Mut_MayReply(u) == "REPL" \in ipc[u].flags /\ u # sched.cur

\* Replies fail with EINVAL, and change nothing, unless u waits for one.
MayReply(u) == "REPL" \in ipc[u].flags /\ ipc[u].tid = sched.cur

\* The replier gives the processor to the caller.
oskit_ipc_reply(u) ==
  /\ ~panic /\ S!Preemptible /\ At({"out"})
  /\ MayReply(u)
  /\ "SEND" \in ipc[u].flags => EarlyReplies
  /\ ipc' = [ipc EXCEPT ![u].got = sched.cur, ![u].flags = @ \ {"REPL"}]
  /\ blocked' = blocked \ {u}
  /\ sched' = pthread_sched_handoff(sched, "YIELD", u)
  /\ result' = NoResult
  /\ UNCHANGED <<new, enabled, call, sent, canceled, panic>>

-----------------------------------------------------------------------------
(* Cancelation, and what else the threads do                               *)

\* pthread_cancel and pthread_ipc_cancel, which panics unless the thread waits
\* for a message.
pthread_cancel(t) ==
  /\ ~panic /\ S!Critical /\ At({"out"})
  /\ t \in Thread \ (new \cup canceled \cup {sched.cur})
  /\ ipc[t].flags \in Cancelable
  /\ canceled' = canceled \cup {t}
  /\ CASE ipc[t].flags = {} -> UNCHANGED <<sched, blocked, ipc, panic>>
       [] "RECV" \in ipc[t].flags ->
            /\ ipc' = [ipc EXCEPT ![t].flags = @ \ {"RECV"}]
            /\ blocked' = blocked \ {t}
            /\ sched' = pthread_sched_setrunnable(sched, t)
            /\ UNCHANGED panic
       [] OTHER -> panic' = TRUE /\ UNCHANGED <<sched, blocked, ipc>>
  /\ result' = NoResult
  /\ UNCHANGED <<new, enabled, call, sent>>

CallStep(step) ==
  /\ ~panic /\ At({"out"})
  /\ step
  /\ result' = NoResult
  /\ UNCHANGED ipcVars

InterruptStep(step) ==
  /\ InterruptsEnabled
  /\ step
  /\ result' = NoResult
  /\ UNCHANGED ipcVars

Next ==
  \/ \E u \in Thread, n \in Sizes : oskit_ipc_send(u, n)
  \/ SendReturn
  \/ \E u \in Thread, n \in Sizes, timeout \in Timeouts : oskit_ipc_recv(u, n, timeout)
  \/ \E n \in Sizes : oskit_ipc_wait(n)
  \/ RecvReturn
  \/ \E u \in Thread, n \in Sizes : oskit_ipc_call(u, n)
  \/ CallReturn
  \/ \E u \in Thread : oskit_ipc_reply(u)
  \/ \E t \in Thread : pthread_cancel(t)
  \/ \E t \in Thread, policy \in UserPolicies, p \in Prio : CallStep(S!Create(t, policy, p))
  \/ CallStep(S!Enter)
  \/ CallStep(S!Leave)
  \/ CallStep(S!sched_yield)
  \/ InterruptStep(S!Tick)
  \/ InterruptStep(S!IdlePoll)

Spec == Init /\ [][Next]_vars
-----------------------------------------------------------------------------
(* Safety                                                                  *)

\* Every wait can be ended: a thread is blocked exactly while one of its IPC flags
\* is set, is queued with the thread it sends to exactly while SEND is set, and
\* the scheduler's bookkeeping survives the directed switches.
WaitsAccounted ==
  /\ TypeOK
  /\ S!RunqConsistent /\ S!EveryThreadAccounted
  /\ \A t \in Thread :
       /\ IsInjective(ipc[t].senders)
       /\ ipc[t].flags # {} <=> t \in blocked
       /\ "RECV" \in ipc[t].flags => ipc[t].flags = {"RECV"}
       /\ \A u \in Thread :
            t \in Range(ipc[u].senders) <=> "SEND" \in ipc[t].flags /\ ipc[t].tid = u

\* No rendezvous is missed: never does a thread wait to send to one that waits
\* for its message, whichever of them came first.
NoMissedRendezvous ==
  \A t, u \in Thread : "SEND" \in ipc[t].flags /\ ipc[t].tid = u =>
    ~("RECV" \in ipc[u].flags /\ ipc[u].tid \in {t, ANYTID})

\* doc/pthread.tex on oskit_ipc_send: "Control returns to the caller only when the
\* receiver has initiated the receive."  A send or call that blocked and was not
\* canceled returns after its message was received once and only once.
SendIsSynchronous ==
  [][\A t \in Thread :
       /\ sent'[t] <= 1
       /\ call[t].at \in {"send", "call"} /\ call'[t].at = "out" =>
            t \in canceled \/ sent[t] = 1]_vars

\* A receive that blocked returns with a message in its buffer that is of the thread
\* it names and of the one it was asked for, and a call with a reply of the thread
\* it called, however many other threads sent, called or replied meanwhile.
PeerIsTheOneMeant ==
  [][\A t \in Thread : call[t].at \in {"recv", "wait", "call"} /\ call'[t].at = "out" =>
       \/ t \in canceled
       \/ /\ result'.peer = ipc[t].got /\ ipc[t].got \in Thread
          /\ call[t].peer \in {ipc[t].got, ANYTID}]_vars

\* The assertion of oskit_ipc_wait at pthread_ipc.c:313, when the running thread is
\* about to make that call: the first on its senders queue is sending to it.
FirstSenderIsSending ==
  Starts /\ ipc[sched.cur].senders # <<>> =>
    LET u == Head(ipc[sched.cur].senders)
    IN  "SEND" \in ipc[u].flags /\ ipc[u].tid = sched.cur

\* The comment at pthread_ipc.c:134 on what follows the wait of a send: "Back from
\* send. The receiver woke us up, or we got canceled."
SendersCanBeCanceled == ~panic

\* doc/pthread.tex:1818 on the argument actual of oskit_ipc_recv and of
\* oskit_ipc_wait: "The location in which to place the number of bytes received."
ActualFitsBuffer ==
  [][\A t \in Thread : call[t].at \in {"recv", "wait"} /\ call'[t].at = "out" =>
       result'.actual <= call[t].size]_vars

\* doc/pthread.tex:1806 on oskit_ipc_recv: "A zero value means do not wait, but
\* simply check to see if a message from the sender is pending."
ZeroMeansNoWait == \A t \in Thread : call[t].nowait => t \notin blocked
=============================================================================
