---------------------------- MODULE DeployProofs -----------------------------
(***************************************************************************)
(* Proofs about the scripts: the installation (Preinstall), for any number *)
(* of tokens, whatever was stopped and edited before, and the start of the *)
(* agent and its tunnel (StartServer), for any number of runs.             *)
(***************************************************************************)
EXTENDS StartServer, Preinstall, TLAPS

-----------------------------------------------------------------------------
(***************************************************************************)
(* Preinstall.                                                             *)
(***************************************************************************)

LEMMA InitReady ==
  ASSUME PreinstallInit
  PROVE  PreinstallInv
<1>1. config \in [text : {"absent", "opened", "example", "edited"}, plain : 0 .. 1, indented : 0 .. 1]
  BY DEF PreinstallInit, NoConfig
<1>2. token \in [file : FileState, id : 0 .. MaxTokens] /\ token.file = "absent"
  BY TokensAssumption DEF PreinstallInit, NoToken, FileState
<1>3. tokens \in 0 .. MaxTokens
  BY TokensAssumption DEF PreinstallInit
<1>4. HostTypeOK
  BY <1>1, <1>2, <1>3 DEF PreinstallInit, HostTypeOK, FileState
<1>5. QED
  BY <1>2, <1>4 DEF PreinstallInit, PreinstallInv,
     FromVerify, FromUnit, FromCors, FromOwn, FromToken, FromDir, FromBinary

\* A step keeps what the steps before it have left.
LEMMA NextReady ==
  ASSUME PreinstallInv, [PreinstallNext]_preinstallVars
  PROVE  PreinstallInv'
<1> USE DEF PreinstallInv, HostTypeOK, Step, FileState, NoConfig, NoToken, Example, Goto, host,
    FromVerify, FromUnit, FromCors, FromOwn, FromToken, FromDir, FromBinary
<1>1. CASE RunScript
  BY <1>1 DEF RunScript
<1>2. CASE Checks
  BY <1>2 DEF Checks
<1>3. CASE CreateUser
  BY <1>3 DEF CreateUser
<1>4. CASE InstallBinary
  BY <1>4 DEF InstallBinary
<1>5. CASE CreateConfigDir
  BY <1>5 DEF CreateConfigDir
<1>6. CASE InstallConfig
  BY <1>6 DEF InstallConfig
<1>7. CASE EnsureToken
  <2>1. CASE step = "token" /\ token.file = "absent"
    BY <1>7, <2>1, TokensAssumption DEF EnsureToken
  <2>2. CASE step = "token" /\ token.file # "absent"
    BY <1>7, <2>2 DEF EnsureToken
  <2>3. CASE step = "writeToken"
    <3>1. tokens' \in 0 .. MaxTokens /\ token' \in [file : FileState, id : 0 .. MaxTokens]
          /\ token'.file = "written"
      BY <1>7, <2>3, TokensAssumption DEF EnsureToken, WriteToken
    <3>2. step' = "ownConfig" /\ UNCHANGED <<user, binary, dir, config, owned, unit, enabled, cut>>
      BY <1>7, <2>3 DEF EnsureToken
    <3>3. QED
      BY <2>3, <3>1, <3>2
  <2>4. QED
    BY <1>7, <2>1, <2>2, <2>3 DEF EnsureToken
<1>8. CASE SetPermissions
  <2>1. CASE step = "ownConfig"
    BY <1>8, <2>1 DEF SetPermissions
  <2>2. CASE step = "ownToken"
    BY <1>8, <2>2 DEF SetPermissions
  <2>3. QED
    BY <1>8, <2>1, <2>2 DEF SetPermissions
<1>9. CASE EnsureCors
  BY <1>9 DEF EnsureCors
<1>10. CASE InstallService
  BY <1>10 DEF InstallService
<1>11. CASE VerifyService
  BY <1>11 DEF VerifyService
<1>12. CASE EnableService
  BY <1>12 DEF EnableService
<1>13. CASE Stop
  BY <1>13 DEF Stop
<1>14. CASE EditConfig
  BY <1>14 DEF EditConfig
<1>15. CASE RotateToken
  <2>1. tokens' \in 0 .. MaxTokens /\ token' \in [file : FileState, id : 0 .. MaxTokens]
        /\ token'.file = "written"
    BY <1>15, TokensAssumption DEF RotateToken, WriteToken
  <2>2. step' = "idle" /\ UNCHANGED <<user, binary, dir, config, owned, unit, enabled, cut>>
    BY <1>15 DEF RotateToken
  <2>3. QED
    BY <2>1, <2>2
<1>16. CASE UNCHANGED preinstallVars
  BY <1>16 DEF preinstallVars
<1>17. QED
  BY <1>1, <1>2, <1>3, <1>4, <1>5, <1>6, <1>7, <1>8, <1>9, <1>10, <1>11, <1>12, <1>13,
     <1>14, <1>15, <1>16 DEF PreinstallNext, ScriptStep

\* The steps that are done have left what the later ones and the agent need.
THEOREM PreinstallInvariant == PreinstallSpec => []PreinstallInv
<1>1. PreinstallInit => PreinstallInv
  BY InitReady
<1>2. PreinstallInv /\ [PreinstallNext]_preinstallVars => PreinstallInv'
  BY NextReady
<1>3. QED
  BY <1>1, <1>2, PTL DEF PreinstallSpec

\* A run that reaches its summary leaves an agent that starts, but for an empty
\* token file of an earlier run and for an indented header.
THEOREM ReadyWhenDone == PreinstallSpec => []DoneMeansReady
<1>1. PreinstallInv => DoneMeansReady
  <2> SUFFICES ASSUME PreinstallInv, step = "done"
               PROVE  /\ enabled /\ config.plain = 1
                      /\ AgentStarts \/ (cut /\ token.file = "opened") \/ config.indented = 1
    BY DEF DoneMeansReady
  <2>1. /\ user /\ binary = "written" /\ unit = "written" /\ enabled
        /\ config.text # "absent" /\ config.plain = 1
        /\ token.file # "absent" /\ "config" \in owned /\ "token" \in owned
        /\ token.file = "opened" => cut
    BY DEF PreinstallInv, FromVerify, FromUnit, FromCors, FromOwn, FromToken, FromDir, FromBinary
  <2>2. owned = {"config", "token"}
    BY <2>1 DEF PreinstallInv, HostTypeOK
  <2>3. token.file \in {"opened", "written"} /\ config.indented \in 0 .. 1
    BY <2>1 DEF PreinstallInv, HostTypeOK, FileState
  <2>4. QED
    BY <2>1, <2>2, <2>3 DEF AgentStarts
<1>2. QED
  BY <1>1, PreinstallInvariant, PTL

\* A token in use stays until the administrator writes another, and an edited
\* configuration is never replaced.
THEOREM NothingOverwritten == PreinstallSpec => CredentialsKept
<1> DEFINE Kept == /\ token.file = "written" => token' = token \/ RotateToken
                   /\ config.text = "edited" => config'.text = "edited"
<1>1. PreinstallInit => PreinstallInv
  BY InitReady
<1>2. PreinstallInv /\ [PreinstallNext]_preinstallVars => PreinstallInv'
  BY NextReady
<1>3. ASSUME PreinstallInv, [PreinstallNext]_preinstallVars
      PROVE  Kept
  <2>1. CASE InstallConfig
    BY <1>3, <2>1 DEF InstallConfig, Goto, PreinstallInv
  <2>2. CASE EnsureToken
    BY <1>3, <2>2 DEF EnsureToken, Goto, PreinstallInv
  <2>3. CASE EnsureCors
    BY <1>3, <2>3 DEF EnsureCors, PreinstallInv, HostTypeOK
  <2>4. CASE EditConfig
    BY <2>4 DEF EditConfig
  <2>5. CASE RotateToken
    BY <2>5 DEF RotateToken
  <2>6. CASE UNCHANGED <<config, token>>
    BY <2>6
  <2>7. QED
    BY <1>3, <2>1, <2>2, <2>3, <2>4, <2>5, <2>6
    DEF PreinstallNext, ScriptStep, RunScript, Checks, CreateUser, InstallBinary, CreateConfigDir, SetPermissions,
        InstallService, VerifyService, EnableService, Stop, preinstallVars, host
<1>4. QED
  BY <1>1, <1>2, <1>3, PTL DEF PreinstallSpec, CredentialsKept

-----------------------------------------------------------------------------
(***************************************************************************)
(* StartServer.                                                            *)
(***************************************************************************)

LEMMA InitStart == Init => StartInv
<1> SUFFICES ASSUME Init
             PROVE  StartInv
  OBVIOUS
<1>1. TypeOK
  <2>1. log \in [url : 0 .. MaxRuns, registered : 0 .. MaxRuns]
    BY BoundsAssumption DEF Init, EmptyLog
  <2>2. tunnel \in [Tunnel -> {"none", "forked", "running", "ending", "gone"}]
    BY DEF Init
  <2>3. 0 \in 0 .. MaxRuns /\ 0 \in 0 .. Patience + 1
    BY BoundsAssumption
  <2>4. QED
    BY <2>1, <2>2, <2>3 DEF Init, TypeOK
<1>2. OneTunnel
  BY DEF Init, OneTunnel, Alive
<1>3. QED
  BY <1>1, <1>2 DEF Init, StartInv, OneInv, LogInv, Working, Waiting

\* A step keeps the invariant.
LEMMA NextStart == StartInv /\ [Next]_vars => StartInv'
<1> SUFFICES ASSUME StartInv, [Next]_vars
             PROVE  StartInv'
  OBVIOUS
<1>a. TypeOK /\ OneTunnel /\ OneInv /\ (ChildFirst => LogInv)
      /\ (pc \in Working \cup {"done"} => run \in Tunnel) /\ (pc = "registered" => waited <= Patience)
  BY DEF StartInv
<1>1. CASE RestartAgent
  <2>1. TypeOK'
    BY <1>1, <1>a, BoundsAssumption DEF RestartAgent, TypeOK, Working, Tunnel
  <2>2. (pc \in Working \cup {"done"} => run \in Tunnel)' /\ (pc = "registered" => waited <= Patience)'
    BY <1>1, <1>a, BoundsAssumption DEF RestartAgent, TypeOK, Working, Tunnel
  <2>3. OneTunnel'
    BY <1>1, <1>a DEF RestartAgent, TypeOK, OneTunnel, OneInv, Alive, Waiting, Working
  <2>4. OneInv'
    BY <1>1, <1>a DEF RestartAgent, TypeOK, OneInv, Alive, Waiting, Working
  <2>5. ChildFirst => LogInv'
    BY <1>1, <1>a DEF RestartAgent, TypeOK, OneInv, LogInv, Alive, Waiting, Working
  <2>6. QED
    BY <2>1, <2>2, <2>3, <2>4, <2>5 DEF StartInv
<1>2. CASE CheckAgent
  <2>1. TypeOK'
    BY <1>2, <1>a, BoundsAssumption DEF CheckAgent, TypeOK, Working, Tunnel
  <2>2. (pc \in Working \cup {"done"} => run \in Tunnel)' /\ (pc = "registered" => waited <= Patience)'
    BY <1>2, <1>a, BoundsAssumption DEF CheckAgent, TypeOK, Working, Tunnel
  <2>3. OneTunnel'
    BY <1>2, <1>a DEF CheckAgent, TypeOK, OneTunnel, OneInv, Alive, Waiting, Working
  <2>4. OneInv'
    BY <1>2, <1>a DEF CheckAgent, TypeOK, OneInv, Alive, Waiting, Working
  <2>5. ChildFirst => LogInv'
    BY <1>2, <1>a DEF CheckAgent, TypeOK, OneInv, LogInv, Alive, Waiting, Working
  <2>6. QED
    BY <2>1, <2>2, <2>3, <2>4, <2>5 DEF StartInv
<1>3. CASE FindOld
  <2>1. TypeOK'
    BY <1>3, <1>a, BoundsAssumption DEF FindOld, TypeOK, Working, Tunnel
  <2>2. (pc \in Working \cup {"done"} => run \in Tunnel)' /\ (pc = "registered" => waited <= Patience)'
    BY <1>3, <1>a, BoundsAssumption DEF FindOld, TypeOK, Working, Tunnel
  <2>3. OneTunnel'
    BY <1>3, <1>a DEF FindOld, TypeOK, OneTunnel, OneInv, Alive, Waiting, Working
  <2>4. OneInv'
    BY <1>3, <1>a DEF FindOld, TypeOK, OneInv, Alive, Waiting, Working
  <2>5. ChildFirst => LogInv'
    BY <1>3, <1>a DEF FindOld, TypeOK, OneInv, LogInv, Alive, Waiting, Working
  <2>6. QED
    BY <2>1, <2>2, <2>3, <2>4, <2>5 DEF StartInv
<1>4. CASE NextOld
  <2>1. TypeOK'
    <3>1. pc' \in {"launch", "term", "stop"}
      BY <1>4 DEF NextOld
    <3>2. old' \subseteq Tunnel /\ victim' \in 0 .. MaxRuns
      <4>1. \/ old' = old /\ victim' = victim
            \/ \E r \in old : victim' = r /\ old' = old \ {r}
        BY <1>4 DEF NextOld
      <4>2. old \subseteq Tunnel /\ victim \in 0 .. MaxRuns
        BY <1>a DEF TypeOK
      <4>3. \A r \in Tunnel : r \in 0 .. MaxRuns
        BY BoundsAssumption DEF Tunnel
      <4>4. QED
        BY <4>1, <4>2, <4>3
    <3>3. UNCHANGED <<run, agent, tunnel, log, waited, publicUrl>>
      BY <1>4 DEF NextOld
    <3>4. QED
      BY <1>a, <3>1, <3>2, <3>3 DEF TypeOK, Working
  <2>2. (pc \in Working \cup {"done"} => run \in Tunnel)' /\ (pc = "registered" => waited <= Patience)'
    BY <1>4, <1>a, BoundsAssumption DEF NextOld, TypeOK, Working, Tunnel
  <2>3. OneTunnel'
    BY <1>4, <1>a DEF NextOld, TypeOK, OneTunnel, OneInv, Alive, Waiting, Working
  <2>4. OneInv'
    BY <1>4, <1>a DEF NextOld, TypeOK, OneInv, Alive, Waiting, Working
  <2>5. ChildFirst => LogInv'
    BY <1>4, <1>a DEF NextOld, TypeOK, OneInv, LogInv, Alive, Waiting, Working
  <2>6. QED
    BY <2>1, <2>2, <2>3, <2>4, <2>5 DEF StartInv
<1>5. CASE Terminate
  <2>1. TypeOK'
    BY <1>5, <1>a, BoundsAssumption DEF Terminate, TypeOK, Working, Tunnel
  <2>2. (pc \in Working \cup {"done"} => run \in Tunnel)' /\ (pc = "registered" => waited <= Patience)'
    BY <1>5, <1>a, BoundsAssumption DEF Terminate, TypeOK, Working, Tunnel
  <2>3. OneTunnel'
    BY <1>5, <1>a DEF Terminate, TypeOK, OneTunnel, OneInv, Alive, Waiting, Working
  <2>4. OneInv'
    BY <1>5, <1>a DEF Terminate, TypeOK, OneInv, Alive, Waiting, Working
  <2>5. ChildFirst => LogInv'
    BY <1>5, <1>a DEF Terminate, TypeOK, OneInv, LogInv, Alive, Waiting, Working
  <2>6. QED
    BY <2>1, <2>2, <2>3, <2>4, <2>5 DEF StartInv
<1>6. CASE ProbeAgain
  <2>1. TypeOK'
    BY <1>6, <1>a, BoundsAssumption DEF ProbeAgain, TypeOK, Working, Tunnel
  <2>2. (pc \in Working \cup {"done"} => run \in Tunnel)' /\ (pc = "registered" => waited <= Patience)'
    BY <1>6, <1>a, BoundsAssumption DEF ProbeAgain, TypeOK, Working, Tunnel
  <2>3. OneTunnel'
    BY <1>6, <1>a DEF ProbeAgain, TypeOK, OneTunnel, OneInv, Alive, Waiting, Working
  <2>4. OneInv'
    BY <1>6, <1>a DEF ProbeAgain, TypeOK, OneInv, Alive, Waiting, Working
  <2>5. ChildFirst => LogInv'
    BY <1>6, <1>a DEF ProbeAgain, TypeOK, OneInv, LogInv, Alive, Waiting, Working
  <2>6. QED
    BY <2>1, <2>2, <2>3, <2>4, <2>5 DEF StartInv
<1>7. CASE Kill
  <2>1. TypeOK'
    BY <1>7, <1>a, BoundsAssumption DEF Kill, TypeOK, Working, Tunnel
  <2>2. (pc \in Working \cup {"done"} => run \in Tunnel)' /\ (pc = "registered" => waited <= Patience)'
    BY <1>7, <1>a, BoundsAssumption DEF Kill, TypeOK, Working, Tunnel
  <2>3. OneTunnel'
    BY <1>7, <1>a DEF Kill, TypeOK, OneTunnel, OneInv, Alive, Waiting, Working
  <2>4. OneInv'
    BY <1>7, <1>a DEF Kill, TypeOK, OneInv, Alive, Waiting, Working
  <2>5. ChildFirst => LogInv'
    BY <1>7, <1>a DEF Kill, TypeOK, OneInv, LogInv, Alive, Waiting, Working
  <2>6. QED
    BY <2>1, <2>2, <2>3, <2>4, <2>5 DEF StartInv
<1>8. CASE Launch
  <2>1. TypeOK'
    BY <1>8, <1>a, BoundsAssumption DEF Launch, TypeOK, Working, Tunnel
  <2>2. (pc \in Working \cup {"done"} => run \in Tunnel)' /\ (pc = "registered" => waited <= Patience)'
    BY <1>8, <1>a, BoundsAssumption DEF Launch, TypeOK, Working, Tunnel
  <2>3. OneTunnel'
    BY <1>8, <1>a DEF Launch, TypeOK, OneTunnel, OneInv, Alive, Waiting, Working
  <2>4. OneInv'
    BY <1>8, <1>a DEF Launch, TypeOK, OneInv, Alive, Waiting, Working
  <2>5. ChildFirst => LogInv'
    BY <1>8, <1>a DEF Launch, TypeOK, OneInv, LogInv, Alive, Waiting, Working
  <2>6. QED
    BY <2>1, <2>2, <2>3, <2>4, <2>5 DEF StartInv
<1>9. CASE WaitForUrl
  <2>1. TypeOK'
    BY <1>9, <1>a, BoundsAssumption DEF WaitForUrl, TypeOK, Working, Tunnel
  <2>2. (pc \in Working \cup {"done"} => run \in Tunnel)' /\ (pc = "registered" => waited <= Patience)'
    BY <1>9, <1>a, BoundsAssumption DEF WaitForUrl, TypeOK, Working, Tunnel
  <2>3. OneTunnel'
    BY <1>9, <1>a DEF WaitForUrl, TypeOK, OneTunnel, OneInv, Alive, Waiting, Working
  <2>4. OneInv'
    BY <1>9, <1>a DEF WaitForUrl, TypeOK, OneInv, Alive, Waiting, Working
  <2>5. ChildFirst => LogInv'
    BY <1>9, <1>a DEF WaitForUrl, TypeOK, OneInv, LogInv, Alive, Waiting, Working
  <2>6. QED
    BY <2>1, <2>2, <2>3, <2>4, <2>5 DEF StartInv
<1>10. CASE VerifyAlive
  <2>1. TypeOK'
    BY <1>10, <1>a, BoundsAssumption DEF VerifyAlive, TypeOK, Working, Tunnel
  <2>2. (pc \in Working \cup {"done"} => run \in Tunnel)' /\ (pc = "registered" => waited <= Patience)'
    BY <1>10, <1>a, BoundsAssumption DEF VerifyAlive, TypeOK, Working, Tunnel
  <2>3. OneTunnel'
    BY <1>10, <1>a DEF VerifyAlive, TypeOK, OneTunnel, OneInv, Alive, Waiting, Working
  <2>4. OneInv'
    BY <1>10, <1>a DEF VerifyAlive, TypeOK, OneInv, Alive, Waiting, Working
  <2>5. ChildFirst => LogInv'
    BY <1>10, <1>a DEF VerifyAlive, TypeOK, OneInv, LogInv, Alive, Waiting, Working
  <2>6. QED
    BY <2>1, <2>2, <2>3, <2>4, <2>5 DEF StartInv
<1>11. CASE VerifyRegistered
  <2>1. TypeOK'
    BY <1>11, <1>a, BoundsAssumption DEF VerifyRegistered, TypeOK, Working, Tunnel
  <2>2. (pc \in Working \cup {"done"} => run \in Tunnel)' /\ (pc = "registered" => waited <= Patience)'
    BY <1>11, <1>a, BoundsAssumption DEF VerifyRegistered, TypeOK, Working, Tunnel
  <2>3. OneTunnel'
    BY <1>11, <1>a DEF VerifyRegistered, TypeOK, OneTunnel, OneInv, Alive, Waiting, Working
  <2>4. OneInv'
    BY <1>11, <1>a DEF VerifyRegistered, TypeOK, OneInv, Alive, Waiting, Working
  <2>5. ChildFirst => LogInv'
    BY <1>11, <1>a DEF VerifyRegistered, TypeOK, OneInv, LogInv, Alive, Waiting, Working
  <2>6. QED
    BY <2>1, <2>2, <2>3, <2>4, <2>5 DEF StartInv
<1>12. CASE TestMetrics
  <2>1. TypeOK'
    BY <1>12, <1>a, BoundsAssumption DEF TestMetrics, TypeOK, Working, Tunnel
  <2>2. (pc \in Working \cup {"done"} => run \in Tunnel)' /\ (pc = "registered" => waited <= Patience)'
    BY <1>12, <1>a, BoundsAssumption DEF TestMetrics, TypeOK, Working, Tunnel
  <2>3. OneTunnel'
    BY <1>12, <1>a DEF TestMetrics, TypeOK, OneTunnel, OneInv, Alive, Waiting, Working
  <2>4. OneInv'
    BY <1>12, <1>a DEF TestMetrics, TypeOK, OneInv, Alive, Waiting, Working
  <2>5. ChildFirst => LogInv'
    BY <1>12, <1>a DEF TestMetrics, TypeOK, OneInv, LogInv, Alive, Waiting, Working
  <2>6. QED
    BY <2>1, <2>2, <2>3, <2>4, <2>5 DEF StartInv
<1>13. CASE Run
  <2>1. TypeOK'
    BY <1>13, <1>a, BoundsAssumption DEF Run, TypeOK, Working, Tunnel
  <2>2. (pc \in Working \cup {"done"} => run \in Tunnel)' /\ (pc = "registered" => waited <= Patience)'
    BY <1>13, <1>a, BoundsAssumption DEF Run, TypeOK, Working, Tunnel
  <2>3. OneTunnel'
    BY <1>13, <1>a DEF Run, TypeOK, OneTunnel, OneInv, Alive, Waiting, Working
  <2>4. OneInv'
    BY <1>13, <1>a DEF Run, TypeOK, OneInv, Alive, Waiting, Working
  <2>5. ChildFirst => LogInv'
    BY <1>13, <1>a DEF Run, TypeOK, OneInv, LogInv, Alive, Waiting, Working
  <2>6. QED
    BY <2>1, <2>2, <2>3, <2>4, <2>5 DEF StartInv
<1>14. CASE Interrupt
  <2>1. TypeOK'
    BY <1>14, <1>a, BoundsAssumption DEF Interrupt, TypeOK, Working, Tunnel
  <2>2. (pc \in Working \cup {"done"} => run \in Tunnel)' /\ (pc = "registered" => waited <= Patience)'
    BY <1>14, <1>a, BoundsAssumption DEF Interrupt, TypeOK, Working, Tunnel
  <2>3. OneTunnel'
    BY <1>14, <1>a DEF Interrupt, TypeOK, OneTunnel, OneInv, Alive, Waiting, Working
  <2>4. OneInv'
    BY <1>14, <1>a DEF Interrupt, TypeOK, OneInv, Alive, Waiting, Working
  <2>5. ChildFirst => LogInv'
    BY <1>14, <1>a DEF Interrupt, TypeOK, OneInv, LogInv, Alive, Waiting, Working
  <2>6. QED
    BY <2>1, <2>2, <2>3, <2>4, <2>5 DEF StartInv
<1>15. ASSUME NEW r \in Tunnel, OpenLog(r)
     PROVE  StartInv'
  <2>1. TypeOK'
    BY <1>15, <1>a, BoundsAssumption DEF OpenLog, TypeOK, Working, Tunnel, script, EmptyLog
  <2>2. (pc \in Working \cup {"done"} => run \in Tunnel)' /\ (pc = "registered" => waited <= Patience)'
    BY <1>15, <1>a, BoundsAssumption DEF OpenLog, TypeOK, Working, Tunnel, script
  <2>3. OneTunnel'
    BY <1>15, <1>a DEF OpenLog, TypeOK, OneTunnel, OneInv, Alive, Waiting, Working, script
  <2>4. OneInv'
    BY <1>15, <1>a DEF OpenLog, TypeOK, OneInv, Alive, Waiting, Working, script
  <2>5. ChildFirst => LogInv'
    BY <1>15, <1>a DEF OpenLog, TypeOK, OneInv, LogInv, Alive, Waiting, Working, script, EmptyLog
  <2>6. QED
    BY <2>1, <2>2, <2>3, <2>4, <2>5 DEF StartInv
<1>16. ASSUME NEW r \in Tunnel, Announce(r)
     PROVE  StartInv'
  <2>1. TypeOK'
    BY <1>16, <1>a, BoundsAssumption DEF Announce, TypeOK, Working, Tunnel, script
  <2>2. (pc \in Working \cup {"done"} => run \in Tunnel)' /\ (pc = "registered" => waited <= Patience)'
    BY <1>16, <1>a, BoundsAssumption DEF Announce, TypeOK, Working, Tunnel, script
  <2>3. OneTunnel'
    BY <1>16, <1>a DEF Announce, TypeOK, OneTunnel, OneInv, Alive, Waiting, Working, script
  <2>4. OneInv'
    BY <1>16, <1>a DEF Announce, TypeOK, OneInv, Alive, Waiting, Working, script
  <2>5. ChildFirst => LogInv'
    BY <1>16, <1>a DEF Announce, TypeOK, OneInv, LogInv, Alive, Waiting, Working, script
  <2>6. QED
    BY <2>1, <2>2, <2>3, <2>4, <2>5 DEF StartInv
<1>17. ASSUME NEW r \in Tunnel, Register(r)
     PROVE  StartInv'
  <2>1. TypeOK'
    BY <1>17, <1>a, BoundsAssumption DEF Register, TypeOK, Working, Tunnel, script
  <2>2. (pc \in Working \cup {"done"} => run \in Tunnel)' /\ (pc = "registered" => waited <= Patience)'
    BY <1>17, <1>a, BoundsAssumption DEF Register, TypeOK, Working, Tunnel, script
  <2>3. OneTunnel'
    BY <1>17, <1>a DEF Register, TypeOK, OneTunnel, OneInv, Alive, Waiting, Working, script
  <2>4. OneInv'
    BY <1>17, <1>a DEF Register, TypeOK, OneInv, Alive, Waiting, Working, script
  <2>5. ChildFirst => LogInv'
    BY <1>17, <1>a DEF Register, TypeOK, OneInv, LogInv, Alive, Waiting, Working, script
  <2>6. QED
    BY <2>1, <2>2, <2>3, <2>4, <2>5 DEF StartInv
<1>18. ASSUME NEW r \in Tunnel, End(r)
     PROVE  StartInv'
  <2>1. TypeOK'
    BY <1>18, <1>a, BoundsAssumption DEF End, TypeOK, Working, Tunnel, script
  <2>2. (pc \in Working \cup {"done"} => run \in Tunnel)' /\ (pc = "registered" => waited <= Patience)'
    BY <1>18, <1>a, BoundsAssumption DEF End, TypeOK, Working, Tunnel, script
  <2>3. OneTunnel'
    BY <1>18, <1>a DEF End, TypeOK, OneTunnel, OneInv, Alive, Waiting, Working, script
  <2>4. OneInv'
    BY <1>18, <1>a DEF End, TypeOK, OneInv, Alive, Waiting, Working, script
  <2>5. ChildFirst => LogInv'
    BY <1>18, <1>a DEF End, TypeOK, OneInv, LogInv, Alive, Waiting, Working, script
  <2>6. QED
    BY <2>1, <2>2, <2>3, <2>4, <2>5 DEF StartInv
<1>19. CASE AgentChanges
  <2>1. TypeOK'
    BY <1>19, <1>a, BoundsAssumption DEF AgentChanges, TypeOK, Working, Tunnel, script
  <2>2. (pc \in Working \cup {"done"} => run \in Tunnel)' /\ (pc = "registered" => waited <= Patience)'
    BY <1>19, <1>a, BoundsAssumption DEF AgentChanges, TypeOK, Working, Tunnel, script
  <2>3. OneTunnel'
    BY <1>19, <1>a DEF AgentChanges, TypeOK, OneTunnel, OneInv, Alive, Waiting, Working, script
  <2>4. OneInv'
    BY <1>19, <1>a DEF AgentChanges, TypeOK, OneInv, Alive, Waiting, Working, script
  <2>5. ChildFirst => LogInv'
    BY <1>19, <1>a DEF AgentChanges, TypeOK, OneInv, LogInv, Alive, Waiting, Working, script
  <2>6. QED
    BY <2>1, <2>2, <2>3, <2>4, <2>5 DEF StartInv
<1>20. CASE UNCHANGED vars
  BY <1>20 DEF vars, script, StartInv, TypeOK, OneTunnel, OneInv, LogInv, Alive
<1>21. QED
  BY <1>1, <1>2, <1>3, <1>4, <1>5, <1>6, <1>7, <1>8, <1>9, <1>10, <1>11, <1>12, <1>13, <1>14, <1>15, <1>16, <1>17, <1>18, <1>19, <1>20 DEF Next, Script

\* Whatever was stopped, crashed or left running before, the processes that are
\* alive are accounted for, and the log holds lines of the present run only.
THEOREM StartInvariant == Spec => []StartInv
<1>1. Init => StartInv
  BY InitStart
<1>2. StartInv /\ [Next]_vars => StartInv'
  BY NextStart
<1>3. QED
  BY <1>1, <1>2, PTL DEF Spec

\* The state has its type.
THEOREM TypeCorrect == Spec => []TypeOK
<1>1. StartInv => TypeOK
  BY DEF StartInv
<1>2. QED
  BY <1>1, StartInvariant, PTL

\* No two tunnels run at the same time.
THEOREM OneAtATime == Spec => []OneTunnel
<1>1. StartInv => OneTunnel
  BY DEF StartInv
<1>2. QED
  BY <1>1, StartInvariant, PTL

\* When the child opens the log before the script first looks into it, a run that
\* reports ONLINE reports the URL and the registration of its own tunnel.
THEOREM OwnWhenOnline == Spec => [](ChildFirst => OnlineIsOwn)
<1>1. StartInv => (ChildFirst => OnlineIsOwn)
  <2> SUFFICES ASSUME StartInv, ChildFirst, pc = "done"
               PROVE  publicUrl = run /\ log = [url |-> run, registered |-> run]
    BY DEF OnlineIsOwn
  <2>1. publicUrl = run /\ log.url = run /\ log.registered = run
    BY DEF StartInv, LogInv, Waiting
  <2>2. log \in [url : 0 .. MaxRuns, registered : 0 .. MaxRuns]
    BY DEF StartInv, TypeOK
  <2>3. QED
    BY <2>1, <2>2
<1>2. QED
  BY <1>1, StartInvariant, PTL
=============================================================================
