------------------------------ MODULE HostMode ------------------------------
(***************************************************************************)
(* The host mode of sysagent: one variable of the process and one option   *)
(* of global.cfg, changed together by SetHostMode calls that gRPC threads  *)
(* run side by side.  Maintenance is refused while the job cache holds a   *)
(* job, and only a host in maintenance may be shut down.  Every critical   *)
(* section and every file operation of the code is a step of its own.      *)
(*                                                                         *)
(* global.cfg also holds the ports of the services: BaseConfig.Set reads   *)
(* the whole file, truncates it and writes it back.                        *)
(***************************************************************************)
EXTENDS Naturals

CONSTANTS Callers,    \* gRPC threads that run SetHostMode
          OtherJobs,  \* jobs other than shutdowns
          Shutdowns,  \* shutdown jobs
          Faults      \* whether global.cfg may fail to open, or the disk be full

ASSUME HostModeAssumption ==
    /\ OtherJobs \cap Shutdowns = {}
    /\ Faults \in BOOLEAN

AllJobs   == OtherJobs \cup Shutdowns
HostModes == {"UNKNOWN", "NORMAL", "MAINTENANCE"}
Cfg == [form : {"whole", "modeOnly", "empty", "garbled"}, mode : HostModes]

VARIABLES
    mode,       \* _GLOBAL_HOST_MODE
    cfg,        \* global.cfg
    up,         \* whether sysagentd runs
    pc,         \* where a SetHostMode call is; idle, accepted, refused: not in one
    want,       \* the mode it is to set
    old,        \* old_mode
    goal,       \* the mode it is applying: want, or old to roll back
    ports,      \* whether the copy of global.cfg that its Set read had the ports
    job,        \* state of each job
    modeCache,  \* __job_cache
    late,       \* history: jobs cached since the check of a call that sets the mode
    alone,      \* history: calls that no other call has overlapped so far
    torn        \* history: a write of global.cfg was lost, cut short by a
                \* restart, or overlapped another one

callVars    == <<pc, want, old, goal, ports>>
modeJobVars == <<job, modeCache>>
history     == <<late, alone, torn>>
modeVars    == <<mode, cfg, up, callVars, modeJobVars, history>>

Between == {"idle", "accepted", "refused"}
Pc == Between \cup {"precheck", "jobs", "set", "read", "open", "write"}
Unfinished == {"queued", "running"}

ModeTypeOK ==
    /\ mode \in HostModes
    /\ cfg \in Cfg
    /\ up \in BOOLEAN
    /\ pc \in [Callers -> Pc]
    /\ want \in [Callers -> HostModes]
    /\ old \in [Callers -> HostModes]
    /\ goal \in [Callers -> HostModes]
    /\ ports \in [Callers -> BOOLEAN]
    /\ job \in [AllJobs -> {"none", "admitted", "done"} \cup Unfinished]
    /\ modeCache \subseteq AllJobs
    /\ late \in [Callers -> SUBSET AllJobs]
    /\ alone \in SUBSET Callers
    /\ torn \in BOOLEAN

\* InitGlobalCfg has read an intact global.cfg.
ModeInit ==
    /\ mode \in HostModes
    /\ cfg = [form |-> "whole", mode |-> mode]
    /\ up = TRUE
    /\ pc = [c \in Callers |-> "idle"]
    /\ want = [c \in Callers |-> mode]
    /\ old = want
    /\ goal = want
    /\ ports = [c \in Callers |-> TRUE]
    /\ job = [j \in AllJobs |-> "none"]
    /\ modeCache = {}
    /\ late = [c \in Callers |-> {}]
    /\ alone = {}
    /\ torn = FALSE

-----------------------------------------------------------------------------
(* SetHostMode                                                             *)

Goto(c, there) == pc' = [pc EXCEPT ![c] = there]
At(c, here) == up /\ pc[c] = here
Undoing(c) == goal[c] # want[c]

\* The end of _PreCheckAndSetHostMode: global.cfg is next, or, in a rollback,
\* the HostModeException for the caller.
Applied(c) == Goto(c, IF Undoing(c) THEN "refused" ELSE "read")

\* PreCheckAndSetHostMode up to its try: nothing to do if the mode is right
StartSetHostMode(c, m) ==
    /\ up /\ pc[c] \in Between
    /\ want' = [want EXCEPT ![c] = m]
    /\ goal' = [goal EXCEPT ![c] = m]
    /\ old'  = [old EXCEPT ![c] = mode]
    /\ Goto(c, IF mode = m THEN "accepted" ELSE "precheck")
    /\ alone' = IF \A d \in Callers \ {c} : pc[d] \in Between THEN {c} ELSE {}
    /\ UNCHANGED <<mode, cfg, up, ports, modeJobVars, late, torn>>

\* _SysPreCheckAndSetMode reads the mode once more: anything but a change
\* between NORMAL and MAINTENANCE is skipped without a word
SysPreCheck(c) ==
    /\ At(c, "precheck")
    /\ CASE mode = "NORMAL" /\ goal[c] = "MAINTENANCE" -> Goto(c, "jobs")
         [] mode = "MAINTENANCE" /\ goal[c] = "NORMAL" -> Goto(c, "set")
         [] OTHER -> Applied(c)
    /\ UNCHANGED <<mode, cfg, up, want, old, goal, ports, modeJobVars, history>>

\* Mutant: the jobs are not looked at.
CheckNoJobs(c) ==
    /\ At(c, "jobs")
    /\ Goto(c, "set")
    /\ UNCHANGED <<mode, cfg, up, want, old, goal, ports, modeJobVars, history>>

\* is_own_jobs: SYS_PRECHECK_SET_FAIL, which nothing rolls back
CheckJobs(c) ==
    /\ At(c, "jobs")
    /\ Goto(c, IF modeCache = {} THEN "set" ELSE "refused")
    /\ UNCHANGED <<mode, cfg, up, want, old, goal, ports, modeJobVars, history>>

SetSysHostMode(c) ==
    /\ At(c, "set")
    /\ mode' = goal[c]
    /\ late' = [late EXCEPT ![c] = {}]
    /\ Applied(c)
    /\ UNCHANGED <<cfg, up, want, old, goal, ports, modeJobVars, alone, torn>>

\* Mutant: a failure to open global.cfg is reported and not rolled back.
CfgModeFailKeepingMode(c) == Goto(c, "refused") /\ goal' = goal

\* SYS_CFGMODE_FAIL: _PreCheckAndSetHostMode(old_mode)
CfgModeFail(c) == Goto(c, "precheck") /\ goal' = [goal EXCEPT ![c] = old[c]]

Writing(c) == pc[c] \in {"open", "write"}

\* BaseConfig.Set reads global.cfg, which it cannot parse when garbled
ReadCfg(c) ==
    /\ At(c, "read")
    /\ IF cfg.form = "garbled" THEN CfgModeFail(c) ELSE Goto(c, "open") /\ goal' = goal
    /\ ports' = [ports EXCEPT ![c] = cfg.form = "whole"]
    /\ torn' = (torn \/ \E d \in Callers : Writing(d))
    /\ UNCHANGED <<mode, cfg, up, want, old, modeJobVars, late, alone>>

\* open(..., 'w') truncates
OpenCfg(c) ==
    /\ At(c, "open")
    /\ cfg' = [cfg EXCEPT !.form = "empty"]
    /\ Goto(c, "write")
    /\ UNCHANGED <<mode, up, want, old, goal, ports, modeJobVars, history>>

\* What is written over a file that another call has written since it was
\* truncated leaves the end of a longer one in place.  Beyond a mode without
\* ports that is the ports, if they still begin a line there; otherwise it is
\* half a line, which does not parse.
Overwrite(there, new) ==
    LET aligned == there.mode = new.mode \/ (there.mode = "UNKNOWN" /\ new.mode = "NORMAL")
    IN  CASE there.form = "garbled" -> {new, there}
          [] there.form = "whole" /\ new.form = "modeOnly" ->
                 {[new EXCEPT !.form = IF aligned THEN "whole" ELSE "garbled"]}
          [] there.form = new.form /\ there.mode = "MAINTENANCE" /\ ~aligned ->
                 {[new EXCEPT !.form = "garbled"]}
          [] OTHER -> {new}

\* Mutant: what was read is not written back.
WriteModeOnly(c) ==
    /\ At(c, "write")
    /\ cfg' \in Overwrite(cfg, [mode |-> want[c], form |-> "modeOnly"])
    /\ Goto(c, "accepted")
    /\ UNCHANGED <<mode, up, want, old, goal, ports, modeJobVars, history>>

\* write, and the finaliser of the file flushes it; the ports are there if they
\* were there when it was read
WriteCfg(c) ==
    /\ At(c, "write")
    /\ cfg' \in Overwrite(cfg, [mode |-> want[c],
                                form |-> IF ports[c] THEN "whole" ELSE "modeOnly"])
    /\ Goto(c, "accepted")
    /\ UNCHANGED <<mode, up, want, old, goal, ports, modeJobVars, history>>

\* The file cannot be opened.
CfgFault(c) ==
    /\ Faults
    /\ At(c, "open")
    /\ CfgModeFail(c)
    /\ UNCHANGED <<mode, cfg, up, want, old, ports, modeJobVars, history>>

\* The disk is full: what was written is still in the buffer when the file is
\* finalised, which drops the error, and Set returns as if nothing was wrong.
LoseCfg(c) ==
    /\ Faults
    /\ At(c, "write")
    /\ Goto(c, "accepted")
    /\ torn' = TRUE
    /\ UNCHANGED <<mode, cfg, up, want, old, goal, ports, modeJobVars, late, alone>>

-----------------------------------------------------------------------------
(* Jobs                                                                    *)

Enqueue(j) ==
    /\ job' = [job EXCEPT ![j] = "queued"]
    /\ modeCache' = modeCache \cup {j}
    /\ late' = [c \in Callers |-> IF pc[c] = "set" THEN late[c] \cup {j} ELSE {}]

\* any handler that adds a job: none of them looks at the mode
AddJob(j) ==
    /\ up /\ j \in OtherJobs /\ job[j] = "none"
    /\ Enqueue(j)
    /\ UNCHANGED <<mode, cfg, up, callVars, alone, torn>>

\* Shutdown, first step: only in maintenance
AdmitShutdown(j) ==
    /\ up /\ j \in Shutdowns /\ job[j] = "none"
    /\ mode = "MAINTENANCE"
    /\ job' = [job EXCEPT ![j] = "admitted"]
    /\ UNCHANGED <<mode, cfg, up, callVars, modeCache, history>>

AddShutdown(j) ==
    /\ up /\ job[j] = "admitted"
    /\ Enqueue(j)
    /\ UNCHANGED <<mode, cfg, up, callVars, alone, torn>>

ModeRunJob(j) ==
    /\ up /\ job[j] = "queued"
    /\ job' = [job EXCEPT ![j] = "running"]
    /\ UNCHANGED <<mode, cfg, up, callVars, modeCache, history>>

\* a shutdown command may fail, and the job ends like any other; one that has
\* been deleted is forgotten, and its name used again
EndJob(j) ==
    /\ up /\ job[j] = "running"
    /\ job' = [job EXCEPT ![j] = IF j \in modeCache THEN "done" ELSE "none"]
    /\ UNCHANGED <<mode, cfg, up, callVars, modeCache, history>>

\* DeleteJob: a client may delete a job whose id it was given, which for a
\* shutdown is none
ModeDelJob(j) ==
    /\ up /\ j \in modeCache \cap OtherJobs
    /\ modeCache' = modeCache \ {j}
    /\ job' = [job EXCEPT ![j] = IF @ = "done" THEN "none" ELSE @]
    /\ UNCHANGED <<mode, cfg, up, callVars, history>>

-----------------------------------------------------------------------------
Stopped ==
    /\ pc' = [c \in Callers |-> "idle"]
    /\ job' = [j \in AllJobs |-> "none"]
    /\ modeCache' = {}
    /\ late' = [c \in Callers |-> {}]
    /\ alone' = {}
    /\ torn' = (torn \/ \E c \in Callers : pc[c] = "write")
    /\ UNCHANGED <<cfg, want, old, goal, ports>>

\* sysagentd, or the host, is restarted: without a readable mode and the ports
\* InitGlobalCfg raises and the process exits
Restart ==
    /\ up
    /\ up' = (cfg.form = "whole")
    /\ mode' = IF cfg.form = "whole" THEN cfg.mode ELSE "UNKNOWN"
    /\ Stopped

Call(c) == \/ SysPreCheck(c) \/ CheckJobs(c) \/ SetSysHostMode(c)
           \/ ReadCfg(c) \/ OpenCfg(c) \/ WriteCfg(c)

ModeNext ==
    \/ \E c \in Callers : \/ \E m \in HostModes : StartSetHostMode(c, m)
                          \/ Call(c) \/ CfgFault(c) \/ LoseCfg(c)
    \/ \E j \in AllJobs : \/ AddJob(j) \/ AdmitShutdown(j) \/ AddShutdown(j)
                          \/ ModeRunJob(j) \/ EndJob(j) \/ ModeDelJob(j)
    \/ Restart

ModeSpec == ModeInit /\ [][ModeNext]_modeVars

-----------------------------------------------------------------------------
(* Properties                                                              *)

\* The ports in global.cfg, without which sysagentd does not start, are lost
\* in three ways only: a restart between truncation and write, a full disk, or
\* two calls that write side by side.
ConfigLossHasCause ==
    cfg.form # "whole" => torn \/ \E c \in Callers : pc[c] = "write"

\* Whatever calls run side by side, the jobs in the cache when maintenance is
\* set came after the check of that very call.
MaintenanceIsChecked ==
    \A c \in Callers :
        pc[c] = "set" /\ goal[c] = "MAINTENANCE" => modeCache \subseteq late[c]

\* A call that no other has overlapped, that was to change something and was
\* accepted, has done both its writes, except that a mode that is, or is to be,
\* UNKNOWN is left alone in memory.  Where the write was lost the file is left
\* empty, never with another mode in it.
AcceptedIsDone ==
    \A c \in alone : pc[c] = "accepted" /\ old[c] # want[c] =>
        /\ mode = want[c] \/ "UNKNOWN" \in {mode, want[c]}
        /\ cfg.form = "whole" \/ torn
        /\ cfg.mode = want[c] \/ cfg.form = "empty"

\* A call that no other has overlapped and that was refused leaves the mode as
\* it found it, but for a rollback to MAINTENANCE stopped by a job in the cache.
RefusedIsUndone ==
    \A c \in alone : pc[c] = "refused" =>
        \/ mode = old[c]
        \/ old[c] = "MAINTENANCE" /\ mode = "NORMAL" /\ Undoing(c)

\* Mode and global.cfg are well formed, or it is known why not (BaseConfig.Set).
ModeConsistent == ModeTypeOK /\ ConfigLossHasCause

\* The answer of an undisturbed SetHostMode tells what it did.
AnswersAreTrue == AcceptedIsDone /\ RefusedIsUndone
=============================================================================
