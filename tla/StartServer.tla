---------------------------- MODULE StartServer ----------------------------
(***************************************************************************)
(* The script deploy/start-server.sh, run again and again on one host: it  *)
(* restarts the agent, ends the tunnels of earlier runs, starts a tunnel   *)
(* of its own in the background and waits for its URL and registration in  *)
(* a log file that every run uses. The tunnel process, the agent and the   *)
(* script move on their own; under "set -e" a command that fails ends the  *)
(* run, and a run that ends leaves its tunnel behind.                      *)
(*                                                                         *)
(* The tunnel of a run has the number of the run; 0 stands for none. Runs  *)
(* do not overlap, so the pid file always holds the last tunnel.           *)
(***************************************************************************)
EXTENDS Naturals, FiniteSets

CONSTANTS
  MaxRuns,    \* bound: runs of the script
  Patience,   \* rounds of a waiting loop before it times out
  ChildFirst  \* the background child opens the log before the script reads it

ASSUME BoundsAssumption == MaxRuns \in Nat /\ Patience \in Nat
ASSUME ChildAssumption == ChildFirst \in BOOLEAN

VARIABLES
  pc,         \* the step of the script; "idle": no run, "done": a run printed ONLINE
  run,        \* the number of the run
  agent,      \* the agent serves requests
  tunnel,     \* run -> the state of its cloudflared process
  old,        \* pids pgrep found that are still to be handled
  victim,     \* the pid being handled
  log,        \* the tunnel whose URL is in the log, and which registered
  waited,     \* rounds of the present loop
  publicUrl   \* PUBLIC_URL

script == <<pc, run, old, victim, waited, publicUrl>>
vars   == <<script, agent, tunnel, log>>

Tunnel   == 1 .. MaxRuns
EmptyLog == [url |-> 0, registered |-> 0]
Working  == {"restart", "isActive", "health", "find", "stop", "term", "again", "kill",
             "launch", "url", "alive", "registered", "test"}

Alive(r) == tunnel[r] \in {"forked", "running", "ending"}

Init ==
  /\ pc = "idle" /\ run = 0
  /\ agent \in BOOLEAN
  /\ tunnel = [r \in Tunnel |-> "none"]
  /\ old = {} /\ victim = 0
  /\ log = EmptyLog
  /\ waited = 0 /\ publicUrl = 0

-----------------------------------------------------------------------------
\* The script.
Run ==
  /\ pc \in {"idle", "done"} /\ run < MaxRuns
  /\ run' = run + 1
  /\ pc' = "restart"
  /\ publicUrl' = 0
  /\ UNCHANGED <<agent, tunnel, old, victim, log, waited>>

\* The run is interrupted; its tunnel goes on.
Interrupt ==
  /\ pc \in Working
  /\ pc' = "idle"
  /\ UNCHANGED <<run, agent, tunnel, old, victim, log, waited, publicUrl>>

RestartAgent ==
  /\ pc = "restart" /\ pc' \in {"isActive", "idle"}
  /\ agent' \in BOOLEAN
  /\ UNCHANGED <<run, tunnel, old, victim, log, waited, publicUrl>>

\* systemctl is-active, then the health request; both fail without the agent.
CheckAgent ==
  /\ \/ pc = "isActive" /\ pc' = IF agent THEN "health" ELSE "idle"
     \/ pc = "health" /\ pc' = IF agent THEN "find" ELSE "idle"
  /\ UNCHANGED <<run, agent, tunnel, old, victim, log, waited, publicUrl>>

\* pgrep; the two seconds slept since the start are enough for a child of the
\* run before to have become cloudflared.
FindOld ==
  /\ pc = "find" /\ pc' = "stop"
  /\ \A r \in Tunnel : tunnel[r] # "forked"
  /\ old' = {r \in Tunnel : Alive(r)}
  /\ UNCHANGED <<run, agent, tunnel, victim, log, waited, publicUrl>>

\* The next pid of the list: skipped when it is gone by now.
NextOld ==
  /\ pc = "stop"
  /\ IF old = {}
       THEN pc' = "launch" /\ UNCHANGED <<old, victim>>
       ELSE \E r \in old :
              /\ victim' = r /\ old' = old \ {r}
              /\ pc' = IF Alive(r) THEN "term" ELSE "stop"
  /\ UNCHANGED <<run, agent, tunnel, log, waited, publicUrl>>

\* kill fails, and ends the run, when the process is gone since it was probed.
Terminate ==
  /\ pc = "term"
  /\ IF Alive(victim)
       THEN pc' = "again" /\ tunnel' = [tunnel EXCEPT ![victim] = "ending"]
       ELSE pc' = "idle" /\ UNCHANGED tunnel
  /\ UNCHANGED <<run, agent, old, victim, log, waited, publicUrl>>

\* A second later: the process is gone, or it has to be killed.
ProbeAgain ==
  /\ pc = "again"
  /\ pc' = IF Alive(victim) THEN "kill" ELSE "stop"
  /\ UNCHANGED <<run, agent, tunnel, old, victim, log, waited, publicUrl>>

\* Faulty variant: the process is not killed after all.
KillNotDone ==
  /\ pc = "kill" /\ pc' = "stop"
  /\ UNCHANGED <<run, agent, tunnel, old, victim, log, waited, publicUrl>>

Kill ==
  /\ pc = "kill"
  /\ pc' = IF Alive(victim) THEN "stop" ELSE "idle"
  /\ tunnel' = [tunnel EXCEPT ![victim] = "gone"]
  /\ UNCHANGED <<run, agent, old, victim, log, waited, publicUrl>>

\* The child is forked; it opens the log itself.
Launch ==
  /\ pc = "launch" /\ pc' = "url"
  /\ tunnel' = [tunnel EXCEPT ![run] = "forked"]
  /\ waited' = 0
  /\ UNCHANGED <<run, agent, old, victim, log, publicUrl>>

\* Faulty variant: the loop has no timeout.
WaitForUrlForever ==
  /\ pc = "url" /\ (ChildFirst => tunnel[run] # "forked")
  /\ IF log.url # 0
       THEN publicUrl' = log.url /\ pc' = "alive"
       ELSE UNCHANGED <<publicUrl, pc>>
  /\ waited' = 0
  /\ UNCHANGED <<run, agent, tunnel, old, victim, log>>

\* One round of the loop that looks for a URL in the log.
WaitForUrl ==
  /\ pc = "url"
  /\ ChildFirst => tunnel[run] # "forked"
  /\ \/ /\ waited > Patience
        /\ pc' = "idle" /\ UNCHANGED <<waited, publicUrl>>
     \/ /\ waited <= Patience /\ log.url # 0
        /\ publicUrl' = log.url /\ pc' = "alive" /\ waited' = 0
     \/ /\ waited <= Patience /\ log.url = 0
        /\ waited' = waited + 1 /\ UNCHANGED <<pc, publicUrl>>
  /\ UNCHANGED <<run, agent, tunnel, old, victim, log>>

\* A round of the second loop: the process is alive, ...
VerifyAlive ==
  /\ pc = "alive"
  /\ pc' = IF waited <= Patience /\ Alive(run) THEN "registered" ELSE "idle"
  /\ UNCHANGED <<run, agent, tunnel, old, victim, log, waited, publicUrl>>

\* ... and the log has a registration.
VerifyRegistered ==
  /\ pc = "registered"
  /\ IF log.registered # 0
       THEN pc' = "test" /\ UNCHANGED waited
       ELSE pc' = "alive" /\ waited' = waited + 1
  /\ UNCHANGED <<run, agent, tunnel, old, victim, log, publicUrl>>

\* After two more seconds, which the child has used to open the log.
TestMetrics ==
  /\ pc = "test" /\ tunnel[run] # "forked"
  /\ pc' = IF agent THEN "done" ELSE "idle"
  /\ UNCHANGED <<run, agent, tunnel, old, victim, log, waited, publicUrl>>

-----------------------------------------------------------------------------
\* The processes.

\* Faulty variant: the log is opened for appending.
OpenLogAppends(r) ==
  /\ tunnel[r] = "forked"
  /\ tunnel' = [tunnel EXCEPT ![r] = "running"]
  /\ UNCHANGED <<script, agent, log>>

\* The redirection empties the log, then the child becomes cloudflared.
OpenLog(r) ==
  /\ tunnel[r] = "forked"
  /\ tunnel' = [tunnel EXCEPT ![r] = "running"]
  /\ log' = EmptyLog
  /\ UNCHANGED <<script, agent>>

\* The script takes the first URL in the log, so only the first line counts.
Announce(r) ==
  /\ tunnel[r] = "running" /\ log.url = 0
  /\ log' = [log EXCEPT !.url = r]
  /\ UNCHANGED <<script, agent, tunnel>>

Register(r) ==
  /\ tunnel[r] = "running" /\ log.url # 0 /\ log.registered = 0
  /\ log' = [log EXCEPT !.registered = r]
  /\ UNCHANGED <<script, agent, tunnel>>

End(r) ==
  /\ tunnel[r] \in {"running", "ending"}
  /\ tunnel' = [tunnel EXCEPT ![r] = "gone"]
  /\ UNCHANGED <<script, agent, log>>

\* The agent crashes, or systemd starts it again.
AgentChanges ==
  /\ agent' = ~ agent
  /\ UNCHANGED <<script, tunnel, log>>

Script ==
  \/ RestartAgent \/ CheckAgent \/ FindOld \/ NextOld \/ Terminate \/ ProbeAgain \/ Kill
  \/ Launch \/ WaitForUrl \/ VerifyAlive \/ VerifyRegistered \/ TestMetrics

Next ==
  \/ Run \/ Script \/ Interrupt
  \/ \E r \in Tunnel : OpenLog(r) \/ Announce(r) \/ Register(r) \/ End(r)
  \/ AgentChanges

\* The script goes on, and a forked child gets to run.
Fairness ==
  /\ WF_vars(Script)
  /\ \A r \in Tunnel : WF_vars(OpenLog(r))

Spec     == Init /\ [][Next]_vars
FairSpec == Spec /\ Fairness

-----------------------------------------------------------------------------
TypeOK ==
  /\ pc \in Working \cup {"idle", "done"}
  /\ run \in 0 .. MaxRuns
  /\ agent \in BOOLEAN
  /\ tunnel \in [Tunnel -> {"none", "forked", "running", "ending", "gone"}]
  /\ old \subseteq Tunnel /\ victim \in 0 .. MaxRuns
  /\ log \in [url : 0 .. MaxRuns, registered : 0 .. MaxRuns]
  /\ waited \in 0 .. Patience + 1
  /\ publicUrl \in 0 .. MaxRuns

\* Two tunnels never run at the same time, whatever ended the runs before.
OneTunnel ==
  \A r1, r2 \in Tunnel : Alive(r1) /\ Alive(r2) => r1 = r2

\* The loops that wait, and the end of a run that was online.
Waiting == {"url", "alive", "registered", "test", "done"}

\* While old tunnels are being ended, every process alive is still on the list
\* or is the one in hand; afterwards only that of the run can be.
OneInv ==
  /\ pc \in {"term", "again", "kill"} =>
       victim \in Tunnel /\ \A r \in Tunnel : Alive(r) => r \in old \cup {victim}
  /\ pc = "stop" => \A r \in Tunnel : Alive(r) => r \in old
  /\ pc = "launch" => \A r \in Tunnel : ~ Alive(r)
  /\ pc \in Waiting => \A r \in Tunnel : Alive(r) => r = run

\* Once the child of the run has opened the log, it holds lines of its own only,
\* and what the script has seen there is still there.
LogInv ==
  /\ pc \in Waiting /\ tunnel[run] # "forked" =>
       /\ log.url \in {0, run} /\ log.registered \in {0, run}
  /\ pc \in Waiting \ {"url"} =>
       tunnel[run] # "forked" /\ publicUrl = run /\ log.url = run
  /\ pc \in {"test", "done"} => log.registered = run

StartInv ==
  /\ TypeOK
  /\ pc \in Working \cup {"done"} => run \in Tunnel
  /\ pc = "registered" => waited <= Patience
  /\ OneTunnel /\ OneInv
  /\ ChildFirst => LogInv

\* "Start Cloudflare Quick Tunnel and capture URL" (line 90): the URL a run prints
\* as the public one is the URL of the tunnel it started.
UrlIsOwn == pc = "done" => publicUrl = run

\* Nothing that an earlier run left in the log decides about a run: what it
\* prints are the URL and the registration of its own tunnel.
OnlineIsOwn ==
  pc = "done" => publicUrl = run /\ log = [url |-> run, registered |-> run]

\* Every run ends, online or not: neither loop waits for ever.
RunEnds == pc \in Working ~> pc \in {"idle", "done"}
=============================================================================
