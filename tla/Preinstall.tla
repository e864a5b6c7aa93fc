----------------------------- MODULE Preinstall -----------------------------
(***************************************************************************)
(* The script deploy/preinstall.sh on one host. Under "set -e" it goes     *)
(* through its steps in order and stops at the first one that fails; it    *)
(* can also be interrupted anywhere, and it is then run again ("Safe to    *)
(* run multiple times"). Between runs the administrator edits the          *)
(* configuration or writes another token.                                  *)
(*                                                                         *)
(* A file that a command creates and then writes has a state between the   *)
(* two: "opened". Building, checks and messages change nothing here.       *)
(***************************************************************************)
EXTENDS Naturals

CONSTANT MaxTokens  \* bound: tokens written by anyone

ASSUME TokensAssumption == MaxTokens \in Nat

VARIABLES
  step,       \* the step the running script is at; "idle": no script runs
  user,     \* the system user remotebtop exists
  binary,   \* /usr/local/bin/remotebtop-agent
  dir,      \* /etc/remotebtop exists
  config,   \* config.toml: where its text is from, and its [cors] headers
  token,    \* the token file, and which token it holds
  owned,    \* the files of /etc/remotebtop the user owns
  unit,     \* the unit file in /etc/systemd/system
  enabled,  \* the unit is enabled
  tokens,   \* the number of tokens written so far
  cut       \* history: a run stopped between creating and writing a token

host == <<user, binary, dir, config, token, owned, unit, enabled, tokens>>
preinstallVars == <<step, host, cut>>

FileState == {"absent", "opened", "written"}
Step == {"checks", "user", "binary", "writeBinary", "dir", "config", "writeConfig",
         "token", "writeToken", "ownConfig", "ownToken", "cors",
         "unit", "writeUnit", "verify", "enable"}

\* A header is plain when it starts its line; TOML also allows it indented.
NoConfig == [text |-> "absent", plain |-> 0, indented |-> 0]
Example  == [text |-> "example", plain |-> 1, indented |-> 0]
NoToken  == [file |-> "absent", id |-> 0]

PreinstallInit ==
  /\ step = "idle"
  /\ user = FALSE /\ binary = "absent" /\ dir = FALSE
  /\ config = NoConfig /\ token = NoToken /\ owned = {}
  /\ unit = "absent" /\ enabled = FALSE
  /\ tokens = 0
  /\ cut = FALSE

-----------------------------------------------------------------------------
Goto(from, to) == step = from /\ step' = to

RunScript ==
  /\ step \in {"idle", "done"}
  /\ step' = "checks"
  /\ UNCHANGED <<host, cut>>

\* check_os ... verify_binary
Checks == Goto("checks", "user") /\ UNCHANGED <<host, cut>>

CreateUser ==
  /\ Goto("user", "binary")
  /\ user' = TRUE
  /\ UNCHANGED <<binary, dir, config, token, owned, unit, enabled, tokens, cut>>

\* install replaces the file, then writes it.
InstallBinary ==
  /\ \/ Goto("binary", "writeBinary") /\ binary' = "opened"
     \/ Goto("writeBinary", "dir") /\ binary' = "written"
  /\ UNCHANGED <<user, dir, config, token, owned, unit, enabled, tokens, cut>>

CreateConfigDir ==
  /\ Goto("dir", "config")
  /\ dir' = TRUE
  /\ UNCHANGED <<user, binary, config, token, owned, unit, enabled, tokens, cut>>

InstallConfig ==
  /\ \/ /\ Goto("config", "writeConfig")
        /\ config.text = "absent"
        /\ config' = [NoConfig EXCEPT !.text = "opened"]
     \/ Goto("config", "token") /\ config.text # "absent" /\ UNCHANGED config
     \/ Goto("writeConfig", "token") /\ config' = Example
  /\ UNCHANGED <<user, binary, dir, token, owned, unit, enabled, tokens, cut>>

WriteToken ==
  /\ tokens < MaxTokens
  /\ tokens' = tokens + 1
  /\ token' = [file |-> "written", id |-> tokens + 1]

\* Faulty variant: an existing token is not preserved.
EnsureTokenAlways ==
  /\ \/ /\ Goto("token", "writeToken")
        /\ token' = [NoToken EXCEPT !.file = "opened"] /\ UNCHANGED tokens
     \/ Goto("writeToken", "ownConfig") /\ WriteToken
  /\ UNCHANGED <<user, binary, dir, config, owned, unit, enabled, cut>>

\* The shell opens the file, openssl writes it.
EnsureToken ==
  /\ \/ /\ Goto("token", "writeToken")
        /\ token.file = "absent"
        /\ token' = [NoToken EXCEPT !.file = "opened"] /\ UNCHANGED tokens
     \/ Goto("token", "ownConfig") /\ token.file # "absent" /\ UNCHANGED <<token, tokens>>
     \/ Goto("writeToken", "ownConfig") /\ WriteToken
  /\ UNCHANGED <<user, binary, dir, config, owned, unit, enabled, cut>>

\* Faulty variant: only the configuration is handed over.
SetPermissionsConfig ==
  /\ \/ Goto("ownConfig", "ownToken") /\ owned' = owned \cup {"config"}
     \/ Goto("ownToken", "cors") /\ UNCHANGED owned
  /\ UNCHANGED <<user, binary, dir, config, token, unit, enabled, tokens, cut>>

SetPermissions ==
  /\ \/ Goto("ownConfig", "ownToken") /\ owned' = owned \cup {"config"}
     \/ Goto("ownToken", "cors") /\ owned' = owned \cup {"token"}
  /\ UNCHANGED <<user, binary, dir, config, token, unit, enabled, tokens, cut>>

\* grep sees only plain headers; the section is appended in one write.
EnsureCors ==
  /\ Goto("cors", "unit")
  /\ config' = [config EXCEPT !.plain = IF @ = 0 THEN 1 ELSE @]
  /\ UNCHANGED <<user, binary, dir, token, owned, unit, enabled, tokens, cut>>

InstallService ==
  /\ \/ Goto("unit", "writeUnit") /\ unit' = "opened"
     \/ Goto("writeUnit", "verify") /\ unit' = "written"
  /\ UNCHANGED <<user, binary, dir, config, token, owned, enabled, tokens, cut>>

VerifyService == Goto("verify", "enable") /\ UNCHANGED <<host, cut>>

EnableService ==
  /\ Goto("enable", "done")
  /\ enabled' = TRUE
  /\ UNCHANGED <<user, binary, dir, config, token, owned, unit, tokens, cut>>

\* A step fails, or the run is interrupted.
Stop ==
  /\ step \in Step
  /\ step' = "idle"
  /\ cut' = (cut \/ step = "writeToken")
  /\ UNCHANGED host

-----------------------------------------------------------------------------
\* The administrator, while no script runs.
EditConfig ==
  /\ step \in {"idle", "done"} /\ config.text # "absent"
  /\ step' = "idle"
  /\ \E header \in {"plain", "indented", "none"} :
       config' = [text |-> "edited",
                  plain |-> IF header = "plain" THEN 1 ELSE 0,
                  indented |-> IF header = "indented" THEN 1 ELSE 0]
  /\ UNCHANGED <<user, binary, dir, token, owned, unit, enabled, tokens, cut>>

RotateToken ==
  /\ step \in {"idle", "done"} /\ dir
  /\ step' = "idle"
  /\ WriteToken
  /\ UNCHANGED <<user, binary, dir, config, owned, unit, enabled, cut>>

ScriptStep ==
  \/ Checks \/ CreateUser \/ InstallBinary \/ CreateConfigDir \/ InstallConfig
  \/ EnsureToken \/ SetPermissions \/ EnsureCors \/ InstallService
  \/ VerifyService \/ EnableService

PreinstallNext == RunScript \/ ScriptStep \/ Stop \/ EditConfig \/ RotateToken

PreinstallSpec == PreinstallInit /\ [][PreinstallNext]_preinstallVars

-----------------------------------------------------------------------------
HostTypeOK ==
  /\ step \in Step \cup {"idle", "done"}
  /\ user \in BOOLEAN /\ dir \in BOOLEAN /\ enabled \in BOOLEAN /\ cut \in BOOLEAN
  /\ binary \in FileState /\ unit \in FileState
  /\ config \in [text : {"absent", "opened", "example", "edited"}, plain : 0 .. 1, indented : 0 .. 1]
  /\ token \in [file : FileState, id : 0 .. MaxTokens]
  /\ owned \in SUBSET {"config", "token"}
  /\ tokens \in 0 .. MaxTokens

\* AppConfig::load fails on a repeated table, read_token_file and main on a
\* token file that cannot be read or is empty; an empty configuration loads.
AgentStarts ==
  /\ user /\ binary = "written" /\ unit = "written"
  /\ config.text # "absent" /\ config.plain + config.indented <= 1
  /\ token.file = "written"
  /\ owned = {"config", "token"}

\* The steps after one has been done, and the end of the run.
FromVerify == {"verify", "enable", "done"}
FromUnit   == {"unit", "writeUnit"} \cup FromVerify
FromCors   == {"cors"} \cup FromUnit
FromOwn    == {"ownConfig", "ownToken"} \cup FromCors
FromToken  == {"token", "writeToken"} \cup FromOwn
FromDir    == {"dir", "config", "writeConfig"} \cup FromToken
FromBinary == {"binary", "writeBinary"} \cup FromDir

\* What the steps of the present run that are done have left; it is theirs or
\* that of an earlier run. A token file is empty only between two steps, or
\* because a run was stopped there.
PreinstallInv ==
  /\ HostTypeOK
  /\ step \in FromBinary => user
  /\ step \in FromDir => binary = "written"
  /\ step = "writeConfig" => config.text = "opened"
  /\ step \in FromToken => config.text # "absent"
  /\ step = "writeToken" => token.file = "opened"
  /\ step \in FromOwn => token.file # "absent"
  /\ step \in {"ownToken"} \cup FromCors => "config" \in owned
  /\ step \in FromCors => "token" \in owned
  /\ step \in FromUnit => config.plain = 1
  /\ step \in FromVerify => unit = "written"
  /\ step = "done" => enabled
  /\ token.file = "opened" => cut \/ step = "writeToken"

\* A run that reaches its summary leaves an agent that starts, after however
\* many stopped runs and edits, except in two cases: an earlier run left an
\* empty token file, or the [cors] header was indented.
DoneMeansReady ==
  step = "done" =>
    /\ enabled /\ config.plain = 1
    /\ AgentStarts \/ (cut /\ token.file = "opened") \/ config.indented = 1

\* A token in use and an edited text survive every further run.
CredentialsKept ==
  [][/\ token.file = "written" => token' = token \/ RotateToken
     /\ config.text = "edited" => config'.text = "edited"]_preinstallVars
=============================================================================
