------------------------- MODULE ReceiverLifecycle --------------------------
(***************************************************************************)
(* RtpReceiver and MulticastAudioReceiver: start(), stop() and the thread  *)
(* that binds the socket and receives.  They share everything but the end  *)
(* of the thread, where only RtpReceiver clears _running.                  *)
(***************************************************************************)
EXTENDS Integers

CONSTANTS
  RecvThreads,  \* threads the receiver may create in a run (a bound)
  Callers,      \* threads that call start and stop
  NoThread

VARIABLES
  proto,    \* "rtp" or "tca1"
  rrun,     \* _running
  rstop,    \* _stop_event
  rcur,     \* _thread
  rpc,      \* thread -> "unborn", "binding", "receiving", "leaving", "gone"
  sockets,  \* threads that hold a bound socket
  rcall,    \* caller -> "ready", "joining"
  rjoin,    \* caller -> the thread its stop() joins
  asked     \* ghost: the last call that took effect: "start", "stop"

rvars == <<proto, rrun, rstop, rcur, rpc, sockets, rcall, rjoin, asked>>

ReceiversOK == NoThread \notin RecvThreads
Alive(t) == rpc[t] \in {"binding", "receiving", "leaving"}

TypeOK ==
  /\ rcur \in RecvThreads \cup {NoThread}
  /\ sockets \subseteq {t \in RecvThreads : rpc[t] = "receiving"}
  /\ rrun => rcur # NoThread

Init ==
  /\ proto \in {"rtp", "tca1"}
  /\ rrun = FALSE /\ rstop = FALSE /\ rcur = NoThread
  /\ rpc = [t \in RecvThreads |-> "unborn"] /\ sockets = {}
  /\ rcall = [c \in Callers |-> "ready"] /\ rjoin = [c \in Callers |-> NoThread]
  /\ asked = "stop"

\* start, under the lock.
Start(c) ==
  /\ rcall[c] = "ready"
  /\ asked' = "start"
  /\ IF rrun THEN UNCHANGED <<rrun, rstop, rcur, rpc>>
     ELSE \E t \in RecvThreads :
       /\ rpc[t] = "unborn"
       /\ rrun' = TRUE /\ rstop' = FALSE /\ rcur' = t
       /\ rpc' = [rpc EXCEPT ![t] = "binding"]
  /\ UNCHANGED <<proto, sockets, rcall, rjoin>>

\* stop, up to the join.
StopBegin(c) ==
  /\ rcall[c] = "ready" /\ rrun
  /\ asked' = "stop" /\ rrun' = FALSE /\ rstop' = TRUE
  /\ rcall' = [rcall EXCEPT ![c] = "joining"] /\ rjoin' = [rjoin EXCEPT ![c] = rcur]
  /\ UNCHANGED <<proto, rcur, rpc, sockets>>

\* The join ends: the thread has ended, or the timeout is over.
StopEnd(c) ==
  /\ rcall[c] = "joining"
  /\ rcall' = [rcall EXCEPT ![c] = "ready"] /\ rjoin' = [rjoin EXCEPT ![c] = NoThread]
  /\ UNCHANGED <<proto, rrun, rstop, rcur, rpc, sockets, asked>>

\* _bind succeeds, or the socket is closed and the thread leaves.
Bind(t) ==
  /\ rpc[t] = "binding"
  /\ \/ rpc' = [rpc EXCEPT ![t] = "receiving"] /\ sockets' = sockets \cup {t}
     \/ rpc' = [rpc EXCEPT ![t] = "leaving"] /\ UNCHANGED sockets
  /\ UNCHANGED <<proto, rrun, rstop, rcur, rcall, rjoin, asked>>

\* The loop ends on the event or on a receive error; the socket is closed.
LeaveLoop(t) ==
  /\ rpc[t] = "receiving"
  /\ rpc' = [rpc EXCEPT ![t] = "leaving"] /\ sockets' = sockets \ {t}
  /\ UNCHANGED <<proto, rrun, rstop, rcur, rcall, rjoin, asked>>

\* The end of _run: RtpReceiver clears _running in its outer finally.
Leave(t) ==
  /\ rpc[t] = "leaving"
  /\ rpc' = [rpc EXCEPT ![t] = "gone"]
  /\ rrun' = IF proto = "rtp" THEN FALSE ELSE rrun
  /\ UNCHANGED <<proto, rstop, rcur, sockets, rcall, rjoin, asked>>

Next ==
  \/ \E c \in Callers : Start(c) \/ StopBegin(c) \/ StopEnd(c)
  \/ \E t \in RecvThreads : Bind(t) \/ LeaveLoop(t) \/ Leave(t)

\* A bound thread gets out of recvfrom by its timeout and then tests the event.
Fairness == \A t \in RecvThreads :
  WF_rvars(Bind(t)) /\ WF_rvars(Leave(t)) /\ WF_rvars(rstop /\ LeaveLoop(t))
Spec == Init /\ [][Next]_rvars /\ Fairness

\* RtpReceiver's is_active() is true only with the known thread behind it, so that start() can
\* revive a receiver that died of a bind or receive error: whatever calls overlap, and whatever
\* thread of an earlier start ends late.
ActiveIsAlive == proto = "rtp" /\ rrun => rcur # NoThread /\ Alive(rcur)

\* A stop that found the receiver running is final: when nothing was started since, every socket is closed in the end.
StopCloses == (asked = "stop") ~> (sockets = {} \/ asked = "start")
=============================================================================
