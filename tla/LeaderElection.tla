-------------------------- MODULE LeaderElection --------------------------
(***************************************************************************)
(* The processes of cmd/csi-provisioner with --leader-election: who runs   *)
(* the provision controller.  The lease is that of client-go, as main.go   *)
(* configures it: no clock is shared, but all run at one speed; a waiting  *)
(* process measures the lease from the moment it reads a changed record, a *)
(* leader its deadline from the answer to its last write.  Nothing makes a *)
(* leader notice the deadline in time: it may hang, and go on afterwards.  *)
(***************************************************************************)
EXTENDS Naturals

CONSTANTS
  Procs,
  LeaseDuration, RenewDeadline, RetryPeriod,  \* the flags, in ticks of the clock
  Delay,                                      \* bound on the ticks an answer takes
  MaxStarts                                   \* bound on the starts of processes

\* A leader sleeps for a retry period after a write and then tries to renew the
\* lease until the deadline.
Term == RetryPeriod + RenewDeadline

\* The flags have defaults (15, 10 and 5 seconds), and main.go checks none of them.
DurationsType ==
  {LeaseDuration, RenewDeadline, RetryPeriod, Delay, MaxStarts} \subseteq Nat

\* The flags leave a leader the time to give up before its lease ends.
Margin == Term + Delay < LeaseDuration

\* The time by which a leader may outlive its lease, though it gives up in time.
Excess == IF Margin THEN 0 ELSE Term + Delay - LeaseDuration

VARIABLES
  mode,    \* mode[p]: what process p does
  id,      \* id[p]: its identity
  starts,  \* starts of processes so far
  holder,  \* the holderIdentity of the lease, 0 for none
  unseen,  \* the processes that have not read the lease since it was written
  left,    \* left[p]: ticks until p gives up (running) or may take the lease
  hung     \* history: a leader has outstayed its deadline

electionVars == <<mode, id, starts, holder, unseen, left, hung>>

ElectionTypeOK ==
  /\ mode \in [Procs -> {"down", "waiting", "running"}]
  /\ id \in [Procs -> 0 .. MaxStarts]
  /\ starts \in 0 .. MaxStarts
  /\ holder \in 0 .. MaxStarts
  /\ unseen \subseteq Procs
  /\ left \in [Procs -> 0 .. LeaseDuration + Excess]
  /\ hung \in BOOLEAN

ElectionInit ==
  /\ mode = [p \in Procs |-> "down"]
  /\ id = [p \in Procs |-> 0]
  /\ starts = 0
  /\ holder = 0
  /\ unseen = {}
  /\ left = [p \in Procs |-> 0]
  /\ hung = FALSE

Running(p) == mode[p] = "running"

-----------------------------------------------------------------------------
\* (faulty) every process bears the name of the driver
DriverIdentity == 1

\* The start time and a random number make an identity of each start.
Identity == starts + 1

Boot(p) ==
  /\ mode[p] = "down"
  /\ starts < MaxStarts
  /\ starts' = starts + 1
  /\ id' = [id EXCEPT ![p] = Identity]
  /\ mode' = [mode EXCEPT ![p] = "waiting"]
  /\ unseen' = unseen \cup {p}
  /\ UNCHANGED <<holder, left, hung>>

\* A waiting process reads the lease every retry period.
Observe(p) ==
  /\ mode[p] = "waiting"
  /\ p \in unseen
  /\ unseen' = unseen \ {p}
  /\ left' = [left EXCEPT ![p] = LeaseDuration]
  /\ UNCHANGED <<mode, id, starts, holder, hung>>

\* (faulty) lease duration and retry period are taken for each other
WriteSwapped(p, d) ==
  /\ holder' = id[p]
  /\ unseen' = Procs \ {p}
  /\ left' = [left EXCEPT ![p] = LeaseDuration + RenewDeadline + d]

\* p writes the lease, and has the answer d ticks later.
Write(p, d) ==
  /\ holder' = id[p]
  /\ unseen' = Procs \ {p}
  /\ left' = [left EXCEPT ![p] = Term + d]

Expired(p) == p \notin unseen /\ left[p] = 0

\* (faulty) --leader-election is off
RunAtOnce(p) ==
  /\ mode[p] = "waiting"
  /\ mode' = [mode EXCEPT ![p] = "running"]
  /\ UNCHANGED <<id, starts, holder, unseen, left, hung>>

\* (faulty) a lease that was not given back is not taken
AcquireFree(p) ==
  /\ mode[p] = "waiting"
  /\ holder \in {0, id[p]}
  /\ \E d \in 0 .. Delay : Write(p, d)
  /\ mode' = [mode EXCEPT ![p] = "running"]
  /\ UNCHANGED <<id, starts, hung>>

\* With the lease, le.Run calls run.  If the answer is lost, it has the lease and
\* tries again.
Acquire(p) ==
  /\ mode[p] = "waiting"
  /\ holder \in {0, id[p]} \/ Expired(p)
  /\ \E d \in 0 .. Delay : Write(p, d)
  /\ mode' \in {mode, [mode EXCEPT ![p] = "running"]}
  /\ UNCHANGED <<id, starts, hung>>

\* The leader writes the lease anew; the answer comes before its deadline, or never.  One
\* that has hung finds the lease its own still, and renews it, or another's.
Renew(p) ==
  /\ Running(p)
  /\ holder = id[p]
  /\ \/ \E d \in 0 .. Delay : d <= left[p] /\ Write(p, d)
     \/ unseen' = Procs \ {p} /\ UNCHANGED <<holder, left>>
  /\ UNCHANGED <<mode, id, starts, hung>>

\* The leader gives up and exits, or the process dies; the lease is not given back.
Stop(p) ==
  /\ mode[p] # "down"
  /\ mode' = [mode EXCEPT ![p] = "down"]
  /\ id' = [id EXCEPT ![p] = 0]
  /\ left' = [left EXCEPT ![p] = 0]
  /\ UNCHANGED <<starts, holder, unseen, hung>>

MustGiveUp(p) == Running(p) /\ left[p] = 0

\* Time passes, a leader that must give up notwithstanding.
Tick ==
  /\ left' = [p \in Procs |-> IF left[p] = 0 THEN 0 ELSE left[p] - 1]
  /\ hung' = (hung \/ \E p \in Procs : MustGiveUp(p))
  /\ UNCHANGED <<mode, id, starts, holder, unseen>>

-----------------------------------------------------------------------------
ElectionNext ==
  \/ \E p \in Procs : Boot(p) \/ Observe(p) \/ Acquire(p) \/ Renew(p) \/ Stop(p)
  \/ Tick

ElectionSpec == ElectionInit /\ [][ElectionNext]_electionVars

\* Time passes, a process that waits tries to get the lease, not always with the answer
\* lost, and a leader whose deadline has passed exits in the end.  Nothing is assumed of
\* renewals, nor that no leader hangs.
ElectionFairness ==
  /\ WF_electionVars(Tick)
  /\ \A p \in Procs :
       /\ WF_electionVars(Observe(p))
       /\ SF_electionVars(Acquire(p) /\ Running(p)')
       /\ WF_electionVars(MustGiveUp(p) /\ Stop(p))

FairElectionSpec == ElectionSpec /\ ElectionFairness

-----------------------------------------------------------------------------
\* p has lost the lease, and gives up within Excess ticks unless it hangs.
Leaving(p) == Running(p) /\ holder # id[p] /\ left[p] <= Excess

\* main.go:162 "Leader election should be done here": of two processes that lead, one has
\* lost the lease and is about to give up, whatever the durations, and though answers are
\* lost or late and processes hang, die and start at any time.
OneLeads ==
  \A p, q \in Procs : p # q /\ Running(p) /\ Running(q) => Leaving(p) \/ Leaving(q)

\* main.go:64 "Duration, in seconds, that non-leader candidates will wait to force acquire
\* leadership", 65 "that the acting leader will retry refreshing leadership before giving
\* up": a candidate that has waited finds no leader, except one that hangs.
TwoNeedHang ==
  (\E p, q \in Procs : p # q /\ Running(p) /\ Running(q)) => hung

\* A process that waits is not kept waiting by a dead leader: as long as it is up,
\* somebody comes to lead.
TakesOver ==
  \A p \in Procs : mode[p] = "waiting" ~> mode[p] = "down" \/ \E q \in Procs : Running(q)

=============================================================================
