--------------------------- MODULE AtomicMetrics ---------------------------
(***************************************************************************)
(* What the agent promises to whoever reads it: one snapshot that is       *)
(* replaced as a whole, in which a collector that failed keeps its last    *)
(* section, and flags that describe the snapshot in place when they are    *)
(* written.  No locks, no stages, no half-written state.                   *)
(***************************************************************************)
EXTENDS Naturals

CONSTANTS
  Client,     \* readers
  Collector,  \* the sections of a snapshot
  Fallible,   \* the collectors that may fail
  Flagged,    \* the collectors that have a flag
  Required    \* the flags that make the agent healthy

VARIABLES
  snapshot,   \* section -> the publication in which it was collected
  stamp,      \* the number of publications
  status,     \* the flags that are true
  reply,      \* the last snapshot each reader was given
  told        \* the last status each reader was given

vars == <<snapshot, stamp, status, reply, told>>

Answer(at, sections) == [stamp |-> at, sections |-> sections]
Report(flags)        == [healthy |-> Required \subseteq flags, flags |-> flags]

Init ==
  /\ snapshot = [s \in Collector |-> 0]
  /\ stamp = 0
  /\ status = {}
  /\ reply = [c \in Client |-> Answer(0, snapshot)]
  /\ told = [c \in Client |-> Report({})]

\* All sections at once: the collectors in failed keep what they had.
Publish(failed) ==
  /\ stamp' = stamp + 1
  /\ snapshot' = [s \in Collector |-> IF s \in failed THEN snapshot[s] ELSE stamp + 1]
  /\ UNCHANGED <<status, reply, told>>

\* The flags of the snapshot in place.
Flag ==
  /\ status' = {s \in Flagged : snapshot[s] = stamp}
  /\ UNCHANGED <<snapshot, stamp, reply, told>>

ReadMetrics(c) ==
  /\ reply' = [reply EXCEPT ![c] = Answer(stamp, snapshot)]
  /\ UNCHANGED <<snapshot, stamp, status, told>>

ReadStatus(c) ==
  /\ told' = [told EXCEPT ![c] = Report(status)]
  /\ UNCHANGED <<snapshot, stamp, status, reply>>

Next ==
  \/ \E failed \in SUBSET Fallible : Publish(failed)
  \/ Flag
  \/ \E c \in Client : ReadMetrics(c) \/ ReadStatus(c)

Spec == Init /\ [][Next]_vars
=============================================================================
