----------------------------- MODULE StreamLock -----------------------------
(***************************************************************************)
(* The processes that stream market data from the one Alpaca account: feed *)
(* daemons, which take a lock file first, and the trading platform, whose  *)
(* bar stream has no lock.  Every await of AlpacaMarketStream.run is a     *)
(* step: its connection may fail there, the process may be stopped there   *)
(* and it may be abandoned there.                                             *)
(*                                                                         *)
(* Alpaca (external) keeps one session per account.  It refuses a second   *)
(* one and learns only later that a client is gone.  The back-off of the   *)
(* reconnects, 1 s doubling to 60 s, is time and is left out.              *)
(***************************************************************************)
EXTENDS Naturals

CONSTANTS
  Daemons,      \* processes of scripts/run_feed_daemon.py
  Platforms,    \* processes of main.py
  NoOne,        \* the lock file does not exist
  MaxStarts,    \* bound: processes started
  MaxFaults     \* bound: connections lost by the network, and failing calls on
                \* the lock file

ASSUME StreamLockAssumption ==
  /\ Daemons \cap Platforms = {}
  /\ NoOne \notin Daemons \cup Platforms
  /\ MaxStarts \in Nat /\ MaxFaults \in Nat

VARIABLES
  pc,
  lockFile,     \* who created alpaca.lock
  sessions,     \* the clients Alpaca holds a session of
  abandoned,    \* history: who created the lock file was killed since, or failed
                \* to write or to delete it
  said,         \* the last thing a daemon's run_feed_daemon printed
  starts, faults

vars == <<pc, lockFile, sessions, abandoned, said, starts, faults>>

----------------------------------------------------------------------------

Process == Daemons \cup Platforms

\* Where the loop of run() can be.
Looping == {"connecting", "connected", "authenticated", "subscribed", "waiting"}

Goes(p, to) == pc' = [pc EXCEPT ![p] = to]

Init ==
  /\ pc = [p \in Process |-> "down"]
  /\ lockFile = NoOne /\ sessions = {} /\ abandoned = FALSE
  /\ said = [d \in Daemons |-> "nothing"]
  /\ starts = 0 /\ faults = 0

\* FeedDaemon.start, or boot: the task of run() is created.
Start(p) ==
  /\ pc[p] = "down" /\ starts < MaxStarts /\ starts' = starts + 1
  /\ Goes(p, "starting")
  /\ said' = [d \in Daemons |-> IF d = p THEN "nothing" ELSE said[d]]
  /\ UNCHANGED <<lockFile, sessions, abandoned, faults>>

\* mutant: acquire() inside the try, so that a refusal runs the finally too
RefusedInTry(d) == Goes(d, "refused") /\ lockFile' = NoOne
Refused(d) == Goes(d, "refused") /\ UNCHANGED lockFile

Fault == faults < MaxFaults /\ faults' = faults + 1

\* The exclusive create fails, or the write of the pid after it: then the file
\* is there, and nobody will release it.
AcquireFails(d) ==
  /\ Goes(d, "refused") /\ Fault
  /\ lockFile' \in {NoOne, d} /\ abandoned' = (lockFile' = d)

\* SingleConnectionLock.acquire; its error ends the task, which nobody awaits.
Acquire(d) ==
  /\ pc[d] = "starting"
  /\ \/ /\ lockFile = NoOne
        /\ Goes(d, "connecting") /\ lockFile' = d
        /\ UNCHANGED <<abandoned, faults>>
     \/ lockFile = NoOne /\ AcquireFails(d)
     \/ lockFile # NoOne /\ Refused(d) /\ UNCHANGED <<abandoned, faults>>
  /\ UNCHANGED <<sessions, said, starts>>

RunUnlocked(p) ==
  /\ pc[p] = "starting" /\ Goes(p, "connecting")
  /\ UNCHANGED <<lockFile, sessions, abandoned, said, starts, faults>>

Connect(p) ==
  /\ pc[p] = "connecting" /\ Goes(p, "connected")
  /\ UNCHANGED <<lockFile, sessions, abandoned, said, starts, faults>>

\* _authenticate: with a session of the account open, Alpaca answers an error,
\* run() leaves the connection and waits.
Authenticate(p) ==
  /\ pc[p] = "connected"
  /\ IF sessions = {}
       THEN Goes(p, "authenticated") /\ sessions' = {p}
       ELSE Goes(p, "waiting") /\ UNCHANGED sessions
  /\ UNCHANGED <<lockFile, abandoned, said, starts, faults>>

Subscribe(p) ==
  /\ pc[p] = "authenticated" /\ Goes(p, "subscribed")
  /\ UNCHANGED <<lockFile, sessions, abandoned, said, starts, faults>>

\* mutant: an error of the connection ends run() without a retry
GivesUp == "refused"
Waits == "waiting"

\* ConnectionClosed, or any other exception of the connection.
ConnectionLost(p) ==
  /\ pc[p] \in Looping \ {"waiting"} /\ Fault
  /\ Goes(p, Waits)
  /\ UNCHANGED <<lockFile, sessions, abandoned, said, starts>>

Reconnect(p) ==
  /\ pc[p] = "waiting" /\ Goes(p, "connecting")
  /\ UNCHANGED <<lockFile, sessions, abandoned, said, starts, faults>>

----------------------------------------------------------------------------
(* The end of a process.                                                   *)

\* FeedDaemon.stop, or _shutdown_all: the task is cancelled at its await and
\* leaves the connection; the server may learn of it later.
Stop(p) ==
  /\ pc[p] \in Looping
  /\ Goes(p, "closing")
  /\ sessions' \in {sessions, sessions \ {p}}
  /\ UNCHANGED <<lockFile, abandoned, said, starts, faults>>

\* The error of a deletion is swallowed: the file stays.
Unlink ==
  \/ lockFile' = NoOne /\ abandoned' = FALSE /\ UNCHANGED faults
  \/ UNCHANGED lockFile /\ abandoned' = TRUE /\ Fault

\* run()'s finally, and the daemon's last words on what it received and stored.
Release(d) ==
  /\ pc[d] = "closing" /\ Goes(d, "down")
  /\ Unlink
  /\ \E verdict \in {"OK", "WARNING"} : said' = [said EXCEPT ![d] = verdict]
  /\ UNCHANGED <<sessions, starts>>

\* A stop of a daemon without the lock: FeedDaemon.stop swallows the error of the task,
\* nothing was received and nothing was dropped.
StopRefused(d) ==
  /\ pc[d] = "refused" /\ Goes(d, "down")
  /\ said' = [said EXCEPT ![d] = "OK"]
  /\ UNCHANGED <<lockFile, sessions, abandoned, starts, faults>>

LeaveUnlocked(p) ==
  /\ pc[p] = "closing" /\ Goes(p, "down")
  /\ UNCHANGED <<lockFile, sessions, abandoned, said, starts, faults>>

Kill(p) ==
  /\ pc[p] # "down" /\ Goes(p, "down")
  /\ abandoned' = (abandoned \/ lockFile = p)
  /\ UNCHANGED <<lockFile, sessions, said, starts, faults>>

\* "If no daemon is running, delete the lock file and retry."
DeleteLockFile ==
  /\ lockFile # NoOne /\ \A d \in Daemons : pc[d] = "down"
  /\ lockFile' = NoOne /\ abandoned' = FALSE
  /\ UNCHANGED <<pc, sessions, said, starts, faults>>

\* Alpaca notices that a client is gone.
SessionEnds(p) ==
  /\ p \in sessions /\ pc[p] \notin {"authenticated", "subscribed"}
  /\ sessions' = sessions \ {p}
  /\ UNCHANGED <<pc, lockFile, abandoned, said, starts, faults>>

----------------------------------------------------------------------------

Advance(p) ==
  \/ p \in Daemons /\ Acquire(p)
  \/ p \in Platforms /\ RunUnlocked(p)
  \/ Connect(p) \/ Authenticate(p) \/ Subscribe(p) \/ Reconnect(p)
  \/ p \in Daemons /\ Release(p)
  \/ p \in Platforms /\ LeaveUnlocked(p)

Next ==
  \/ DeleteLockFile
  \/ \E p \in Process : \/ Start(p) \/ Advance(p)
                        \/ ConnectionLost(p) \/ Stop(p) \/ Kill(p)
                        \/ SessionEnds(p)
  \/ \E d \in Daemons : StopRefused(d)

Spec == Init /\ [][Next]_vars

\* The event loop runs a task that can run, and Alpaca drops the sessions of
\* clients that are gone.
FairSpec ==
  Spec /\ \A p \in Process : WF_vars(Advance(p)) /\ WF_vars(SessionEnds(p))

----------------------------------------------------------------------------

TypeOK ==
  /\ pc \in [Process -> Looping \cup {"down", "starting", "refused", "closing"}]
  /\ \A p \in Platforms : pc[p] # "refused"
  /\ lockFile \in Daemons \cup {NoOne}
  /\ sessions \subseteq Process /\ \A p, q \in sessions : p = q
  /\ abandoned \in BOOLEAN
  /\ said \in [Daemons -> {"nothing", "OK", "WARNING"}]
  /\ starts \in 0..MaxStarts /\ faults \in 0..MaxFaults

\* From its first connection attempt to the end of its last connection a daemon
\* owns the lock file, whatever other starts, refusals and ends go on: no two
\* daemons are ever at the account.
LockCoversConnection ==
  \A d \in Daemons : pc[d] \in Looping \cup {"closing"} => lockFile = d

\* A lock file whose daemon is down was left by a kill, or by a write or a
\* deletion of the file that failed: a stop at any await, a lost connection and
\* the refusal of another daemon leave none behind.
\* (alpaca_market_data.py SingleConnectionLock, run)
StaleOnlyAfterFailure ==
  \A d \in Daemons : lockFile = d /\ pc[d] = "down" => abandoned

\* A daemon that has the lock reaches its subscription after any loss, unless it
\* ends or a process outside the lock has the account.
StreamRecovers ==
  \A d \in Daemons :
    pc[d] \in Looping ~> \/ pc[d] \in {"subscribed", "closing", "down"}
                         \/ Platforms \cap sessions # {}

=============================================================================
