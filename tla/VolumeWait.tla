---------------------------- MODULE VolumeWait ----------------------------
(***************************************************************************)
(* PVWaitDelete (pkg/tools/pv.go): callers wait until the volume of one    *)
(* name is deleted, which others delete and make again meanwhile.          *)
(***************************************************************************)
EXTENDS Naturals

CONSTANTS
  Waiters,
  MaxMade,   \* bound on the volumes made under the name
  MaxFaults  \* bound on API errors and closed watches

VARIABLES
  exists,  \* a volume of that name exists
  made,    \* how many were made
  wait,    \* wait[w]: the call of w
  faults

vars == <<exists, made, wait, faults>>

Results == {"nil", "failed", "closed", "timeout"}

\* event: the watch channel holds the Deleted event.  gone (history): there was a
\* moment since the start of the call at which no volume of that name existed.
WaitType == [pc    : {"idle", "get", "open", "watch"} \cup Results,
             event : BOOLEAN,
             gone  : BOOLEAN]

TypeOK ==
  /\ exists \in BOOLEAN
  /\ made \in 0 .. MaxMade
  /\ wait \in [Waiters -> WaitType]
  /\ \A w \in Waiters : wait[w].event => wait[w].pc \in {"watch", "nil", "timeout"}
  /\ faults \in 0 .. MaxFaults

Init ==
  /\ exists = TRUE
  /\ made = 1
  /\ wait = [w \in Waiters |-> [pc |-> "idle", event |-> FALSE, gone |-> FALSE]]
  /\ faults = 0

At(w, l) == wait[w].pc = l

Goto(w, l) == wait' = [wait EXCEPT ![w].pc = l]

Fault == faults < MaxFaults /\ faults' = faults + 1

-----------------------------------------------------------------------------
\* A first call, or the next one of the same caller.
Call(w) ==
  /\ wait[w].pc \in {"idle"} \cup Results
  /\ wait' = [wait EXCEPT ![w] = [pc |-> "get", event |-> FALSE, gone |-> ~exists]]
  /\ UNCHANGED <<exists, made, faults>>

GetVolume(w) ==
  /\ At(w, "get")
  /\ Goto(w, IF exists THEN "open" ELSE "nil")
  /\ UNCHANGED <<exists, made, faults>>

\* Every error of Get is taken for "not found".
GetFails(w) ==
  /\ At(w, "get")
  /\ Goto(w, "nil")
  /\ Fault
  /\ UNCHANGED <<exists, made>>

\* What exists already is reported as an Added event, which the loop skips.
OpenWatch(w) ==
  /\ At(w, "open")
  /\ Goto(w, "watch")
  /\ UNCHANGED <<exists, made, faults>>

OpenFails(w) ==
  /\ At(w, "open")
  /\ Goto(w, "failed")
  /\ Fault
  /\ UNCHANGED <<exists, made>>

\* (faulty) any event ends the wait, the first Added one too
TakeAnyEvent(w) ==
  /\ At(w, "watch")
  /\ wait[w].event \/ exists
  /\ Goto(w, "nil")
  /\ UNCHANGED <<exists, made, faults>>

TakeEvent(w) ==
  /\ At(w, "watch")
  /\ wait[w].event
  /\ Goto(w, "nil")
  /\ UNCHANGED <<exists, made, faults>>

\* The watch is closed before it has passed on a Deleted event.
WatchClosed(w) ==
  /\ At(w, "watch")
  /\ ~wait[w].event
  /\ Goto(w, "closed")
  /\ Fault
  /\ UNCHANGED <<exists, made>>

\* (faulty) there is no timeout
NoTimeout(w) == At(w, "watch") /\ FALSE /\ UNCHANGED vars

Timeout(w) ==
  /\ At(w, "watch")
  /\ Goto(w, "timeout")
  /\ UNCHANGED <<exists, made, faults>>

Step(w) ==
  \/ GetVolume(w)
  \/ OpenWatch(w)
  \/ TakeEvent(w)
  \/ Timeout(w)

-----------------------------------------------------------------------------
\* The volume is deleted: open watches get a Deleted event.
DeleteVolume ==
  /\ exists
  /\ exists' = FALSE
  /\ wait' = [w \in Waiters |-> [wait[w] EXCEPT !.event = @ \/ At(w, "watch"),
                                                !.gone = TRUE]]
  /\ UNCHANGED <<made, faults>>

MakeVolume ==
  /\ ~exists
  /\ made < MaxMade
  /\ exists' = TRUE
  /\ made' = made + 1
  /\ UNCHANGED <<wait, faults>>

WaitFails(w) ==
  \/ GetFails(w)
  \/ OpenFails(w)
  \/ WatchClosed(w)

=============================================================================
