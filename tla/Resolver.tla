------------------------------- MODULE Resolver -------------------------------
(***************************************************************************)
(* cdns::Resolver (src/tcprelay/resolver.cc): one per event loop, a c-ares *)
(* channel driven by the loop's read events and by one timer that the      *)
(* resolver re-arms. c-ares itself is external: it may answer a lookup at  *)
(* once (hosts file, literal address, bad name), answer on a socket, send  *)
(* again, or give up when the timer runs.                                  *)
(***************************************************************************)
EXTENDS Naturals

CONSTANTS Conns,    \* the server connections: each makes at most one lookup
          Sockets   \* descriptors c-ares may use

VARIABLES query,        \* the lookup of each connection
          timerActive_,
          timers,       \* calls of onTimer the loop has scheduled
          channels_     \* the sockets the loop reads for c-ares

resolverVars == <<query, timerActive_, timers, channels_>>

Pending == {c \in Conns : query[c] = "pending"}

ResolverInit ==
  /\ query = [c \in Conns |-> "none"]
  /\ timerActive_ = FALSE
  /\ timers = 0
  /\ channels_ = {}

\* onQueryResult runs the callbacks of the lookups in done; the relay's
\* callback is the caller's business.
onQueryResult(done) ==
  query' = [c \in Conns |-> IF c \in done THEN "done" ELSE query[c]]

\* A lookup that needs the network opens a socket unless one is open
\* (onSockCreate); ARES_FLAG_STAYOPEN keeps it for the next ones.
onSockCreate ==
  IF channels_ = {} THEN \E s \in Sockets : channels_' = {s} ELSE UNCHANGED channels_

\* onSockStateChange with nothing left to read: c-ares has closed the socket.
onSockStateChange(s) == channels_ \ {s}

\* resolve(): whether c-ares answers at once or not, the timer must run.
resolve(c, atOnce) ==
  /\ query[c] = "none"
  /\ query' = [query EXCEPT ![c] = IF atOnce THEN "done" ELSE "pending"]
  /\ IF atOnce THEN UNCHANGED channels_ ELSE onSockCreate
  /\ timerActive_' = TRUE
  /\ timers' = IF timerActive_ THEN timers ELSE timers + 1

\* onRead: the lookups of done are answered. A socket that fails is removed,
\* and what is still pending goes out on another one.
onRead(s, done, fails) ==
  /\ s \in channels_
  /\ done \subseteq Pending
  /\ done # {} \/ fails
  /\ onQueryResult(done)
  /\ IF ~fails THEN UNCHANGED channels_
     ELSE IF Pending = done THEN channels_' = onSockStateChange(s)
     ELSE \E n \in Sockets \ onSockStateChange(s) : channels_' = onSockStateChange(s) \cup {n}
  /\ UNCHANGED <<timerActive_, timers>>

\* A faulty onTimer: the timer is not re-armed while lookups are still pending.
onTimerOnce(done) ==
  /\ timers > 0
  /\ done \subseteq Pending
  /\ onQueryResult(done)
  /\ timerActive_' = FALSE
  /\ timers' = timers - 1
  /\ UNCHANGED channels_

\* onTimer: c-ares gives up on the lookups of done. The timer is re-armed for
\* as long as ares_timeout has something to wait for.
onTimer(done) ==
  /\ timers > 0
  /\ done \subseteq Pending
  /\ onQueryResult(done)
  /\ IF Pending = done
     THEN timerActive_' = FALSE /\ timers' = timers - 1
     ELSE UNCHANGED <<timerActive_, timers>>
  /\ UNCHANGED channels_

-------------------------------------------------------------------------------
ResolverTypeOK ==
  /\ query \in [Conns -> {"none", "pending", "done"}]
  /\ timerActive_ \in BOOLEAN
  /\ timers \in Nat
  /\ channels_ \subseteq Sockets

\* A lookup in flight always has exactly one timer behind it, and a socket to
\* be answered on: with neither, its callback would never run. timerActive_
\* says what the loop holds, or onTimer's assertion would fail.
LookupIsDriven ==
  /\ timers = IF timerActive_ THEN 1 ELSE 0
  /\ Pending # {} => timerActive_ /\ channels_ # {}
===============================================================================
