----------------------------- MODULE DiskRates -----------------------------
(***************************************************************************)
(* The throughput of the disk collector (agent/src/metrics/disk.rs): one   *)
(* figure for all devices, from counters that are found by the name of the *)
(* device. A device can be mounted at several places, and then it is seen  *)
(* several times in a cycle; one that was unmounted keeps counting; and a  *)
(* name may be found in one cycle and not in the next.                     *)
(*                                                                         *)
(* As in NetworkRates a rate is the number of bytes it is computed from,   *)
(* and one direction stands for both.                                      *)
(***************************************************************************)
EXTENDS Counters, Sequences, FiniteSets, SequencesExt

CONSTANTS
  Device,
  Listed,     \* the devices whose name can be found in /proc/diskstats
  MaxMounts,  \* bound: mounts at a time
  MaxBytes    \* bound: a counter

ASSUME ListedAssumption == Listed \subseteq Device
ASSUME DiskBoundsAssumption == MaxMounts \in Nat /\ MaxBytes \in Nat

VARIABLES
  mounts,     \* the devices of the mounted file systems, in order
  counter,    \* device -> its counter in /proc/diskstats
  recorded,   \* the devices in prev_io
  prev_io,    \* device -> its value
  io,         \* <<the total of the last cycle>>, NoIo without file systems
  since,      \* history: device -> bytes since the last cycle it was mounted in
  missed      \* history: the devices whose counter was not found in that cycle

diskVars == <<mounts, counter, recorded, prev_io, io, since, missed>>

NoIo       == <<>>
First(n)   == {mounts[k] : k \in 1 .. n}
Mounted    == First(Len(mounts))

\* new() records nothing.
DiskInit ==
  /\ mounts = <<>> /\ counter = [d \in Device |-> 0]
  /\ recorded = {} /\ prev_io = [d \in Device |-> 0] /\ io = NoIo
  /\ since = [d \in Device |-> 0] /\ missed = {}

-----------------------------------------------------------------------------
Transfer ==
  /\ \E d \in Device : /\ counter[d] < MaxBytes
                       /\ counter' = [counter EXCEPT ![d] = @ + 1]
                       /\ since' = [since EXCEPT ![d] = @ + 1]
  /\ UNCHANGED <<mounts, recorded, prev_io, io, missed>>

MountOrUnmount ==
  /\ \/ Len(mounts) < MaxMounts /\ \E d \in Device : mounts' = Append(mounts, d)
     \/ \E k \in 1 .. Len(mounts) : mounts' = RemoveAt(mounts, k)
  /\ UNCHANGED <<counter, recorded, prev_io, io, since, missed>>

\* Faulty variant: the values of this cycle are recorded after the loop, so a
\* device that is mounted twice is counted twice.
VisitLate(acc, d, now) ==
  [total |-> acc.total + (IF d \in recorded THEN Monus(now, prev_io[d]) ELSE 0),
   seen  |-> acc.seen \cup {d},
   prev  |-> [acc.prev EXCEPT ![d] = now]]

\* The body of the loop, for a mount of a device whose counter is at now.
Visit(acc, d, now) ==
  [total |-> acc.total + (IF d \in acc.seen THEN Monus(now, acc.prev[d]) ELSE 0),
   seen  |-> acc.seen \cup {d},
   prev  |-> [acc.prev EXCEPT ![d] = now]]

\* A device that is not found counts as zero.
Now(found, d) == IF d \in found THEN counter[d] ELSE 0

\* What the loop has after its first n mounts.
Loop(found) ==
  LET after[n \in 0 .. Len(mounts)] ==
        IF n = 0 THEN [total |-> 0, seen |-> recorded, prev |-> prev_io]
                 ELSE Visit(after[n - 1], mounts[n], Now(found, mounts[n]))
  IN  after

\* A cycle that finds the counters of some devices; of none when the file
\* cannot be read.
CollectDisks(found) ==
  LET end == Loop(found)[Len(mounts)] IN
  /\ io' = IF mounts = <<>> THEN NoIo ELSE <<end.total>>
  /\ recorded' = end.seen /\ prev_io' = end.prev
  /\ since' = [d \in Device |-> IF d \in Mounted THEN 0 ELSE since[d]]
  /\ missed' = (missed \ Mounted) \cup (Mounted \ found)
  /\ UNCHANGED <<mounts, counter>>

DiskNext == Transfer \/ MountOrUnmount \/ \E found \in SUBSET Listed : CollectDisks(found)

DiskSpec == DiskInit /\ [][DiskNext]_diskVars

-----------------------------------------------------------------------------
\* The inductive invariant: a device moved what its counter differs by from the
\* value recorded of it, which is zero if its name was not found then.
DiskInv ==
  /\ mounts \in Seq(Device) /\ recorded \subseteq Device /\ missed \subseteq Device
  /\ counter \in [Device -> Nat] /\ prev_io \in [Device -> Nat] /\ since \in [Device -> Nat]
  /\ \A d \in recorded : IF d \in missed THEN prev_io[d] = 0 ELSE counter[d] = prev_io[d] + since[d]

\* The bytes that a device adds to the total: what it moved since its last value;
\* all it ever moved, if its name was not found when that was recorded.
Due(d) == {d} \X (1 .. (IF d \in missed THEN counter[d] ELSE since[d]))

\* The total is what the devices that are mounted, recorded and found moved since
\* each of them was seen last: every byte counts once, in whatever order and how
\* often its device is mounted, and none that was moved before it was first seen.
TotalIsExact ==
  [][\A found \in SUBSET Listed : CollectDisks(found) /\ mounts # <<>> =>
       io' = <<Cardinality(UNION {Due(d) : d \in Mounted \cap recorded \cap found})>>]_diskVars
=============================================================================
