----------------------------- MODULE JobControl -----------------------------
(***************************************************************************)
(* Job control in the shell (c-shell): launching pipelines in the          *)
(* foreground and in the background, the job table, the SIGCHLD handler,   *)
(* resume with its timeout, and end of input.                              *)
(*                                                                         *)
(* The shell is one thread.  Its signal handlers interleave with it where  *)
(* the signals are not blocked, its children everywhere.  A step of the    *)
(* shell is what it does between two points where a child's change of      *)
(* state, or a signal, can make a difference: one fork(), one return of    *)
(* waitpid(), one pass over the table.                                     *)
(*                                                                         *)
(* A process group is known by its rank among the launches, a command by   *)
(* its position in the pipeline; position 0 is a redirection helper (the   *)
(* process that concatenates several input files or copies to several      *)
(* output files).  pids are not reused.  What is printed is left out, and  *)
(* so is what only the printing reads (cmd, exit_status).                  *)
(***************************************************************************)
EXTENDS Naturals, Sequences, FiniteSets

CONSTANTS
    MAXJOBS,        \* entries of bg_jobs, 100 in the code
    MaxCmds,        \* longest pipeline
    MaxLaunches,    \* bound on the pipelines launched
    WithHelper,     \* do commands have several redirections of one kind?
    WithTimeout     \* is --timeout modelled?

ASSUME JobAssumption ==
    /\ MAXJOBS \in Nat \ {0}
    /\ MaxCmds \in Nat \ {0}
    /\ MaxLaunches \in Nat
    /\ WithHelper \in BOOLEAN
    /\ WithTimeout \in BOOLEAN

Groups == 1 .. MaxLaunches
Commands == 1 .. MaxCmds
Members == 0 .. MaxCmds
Shell == 0

VARIABLES
    child,              \* what the kernel knows of each process
    launches,           \* pipelines launched; the last one is lead_pgid
    bg_jobs,            \* the table, job_cnt is its length
    next_job_num,
    sigchld_pending,
    tty,                \* the terminal's foreground process group
    pc,                 \* where the shell is
    cmd,                \* arguments of execute(): length of the pipeline, bg
    fg,                 \* fg_job()'s index in the table, 0 outside
    live,               \* ... and its count of processes
    alarm,              \* "off", "set" or "fired" (fg_timed_out)
    eof_warned,
    timeouts,           \* does the user give --timeout?
    loading             \* commands of the last launch that still hold their exec_err pipe

tableVars == <<bg_jobs, next_job_num>>
resumeVars == <<fg, live, alarm, timeouts>>
fgVars == <<resumeVars, loading>>
vars == <<child, launches, tableVars, sigchld_pending, tty, pc, cmd, fgVars, eof_warned>>

\* "stopping" and "continued" are changes waitpid() has not reported yet.
ChildStates == {"none", "running", "stopping", "stopped", "continued", "zombie", "reaped"}
Labels == {"top", "prompt", "line", "spawn", "abort", "wait", "stop",
           "fgwait", "fgstop", "fgend", "exited"}
Entries == [job_num : Nat, pid : Groups, pids : Seq(Members), state : {"stopped", "running"},
            is_done : BOOLEAN]

TypeOK ==
    /\ child \in [Groups -> [Members -> ChildStates]]
    /\ launches \in 0 .. MaxLaunches
    /\ bg_jobs \in Seq(Entries) /\ Len(bg_jobs) <= MAXJOBS
    /\ next_job_num \in 1 .. MaxLaunches + 1
    /\ sigchld_pending \in BOOLEAN
    /\ tty \in Groups \cup {Shell}
    /\ pc \in Labels
    /\ cmd \in [length : 0 .. MaxCmds, bg : BOOLEAN]
    /\ fg \in 0 .. MAXJOBS
    /\ live \in 0 .. MaxCmds
    /\ alarm \in {"off", "set", "fired"}
    /\ eof_warned \in BOOLEAN
    /\ timeouts \in BOOLEAN
    /\ loading \subseteq Commands

NoCmd == [length |-> 0, bg |-> FALSE]

Init ==
    /\ child = [g \in Groups |-> [k \in Members |-> "none"]]
    /\ launches = 0
    /\ bg_jobs = <<>>
    /\ next_job_num = 1
    /\ sigchld_pending = FALSE
    /\ tty = Shell
    /\ pc = "top"
    /\ cmd = NoCmd
    /\ fg = 0
    /\ live = 0
    /\ alarm = "off"
    /\ eof_warned = FALSE
    /\ timeouts \in {FALSE, WithTimeout}
    /\ loading = {}

-----------------------------------------------------------------------------
(* The children, and what waitpid() and kill() do to them *)

Alive(s) == s \in {"running", "stopping", "stopped", "continued"}
Exists(s) == Alive(s) \/ s = "zombie"
GroupExists(g) == \E k \in Members : Exists(child[g][k])
Become(g, k, s) == child' = [child EXCEPT ![g][k] = s]

\* kill(-g, SIGCONT): a continued process no longer reports its stop.
Continue(g) == child' = [child EXCEPT ![g] = [k \in Members |->
    IF @[k] \in {"stopping", "stopped"} THEN "continued" ELSE @[k]]]

\* A process exits, or is killed.
ChildExits(g, k) ==
    /\ pc # "exited"
    /\ Alive(child[g][k])
    /\ Become(g, k, "zombie")
    /\ loading' = IF g = launches THEN loading \ {k} ELSE loading
    /\ UNCHANGED <<launches, tableVars, sigchld_pending, tty, pc, cmd, resumeVars, eof_warned>>

\* exec() closes the pipe, which a builtin of a pipeline holds to its end.
ChildExecs(k) ==
    /\ pc # "exited"
    /\ k \in loading /\ child[launches][k] \in {"running", "continued"}
    /\ loading' = loading \ {k}
    /\ UNCHANGED <<child, launches, tableVars, sigchld_pending, tty, pc, cmd, resumeVars, eof_warned>>

\* It is stopped, from the terminal or by a signal; a signal continues it.
ChildStopsOrContinues(g, k) ==
    /\ pc # "exited"
    /\ \/ child[g][k] \in {"running", "continued"} /\ Become(g, k, "stopping")
       \/ child[g][k] \in {"stopping", "stopped"} /\ Become(g, k, "continued")
    /\ UNCHANGED <<launches, tableVars, sigchld_pending, tty, pc, cmd, fgVars, eof_warned>>

\* What the report of a state leaves behind.
Reported(s) ==
    CASE s = "stopping" -> "stopped"
      [] s = "continued" -> "running"
      [] s = "zombie" -> "reaped"

-----------------------------------------------------------------------------
(* sigchld_handler(), one iteration *)

\* SIGCHLD is not blocked.
Unblocked == pc \in {"top", "prompt", "line"}

Forget(pids, k) == [j \in DOMAIN pids |-> IF pids[j] = k THEN 0 ELSE pids[j]]
\* Mutant of AllDone: only the first command counts.
FirstDone(pids) == pids = <<>> \/ pids[1] = 0

AllDone(pids) == \A j \in DOMAIN pids : pids[j] = 0

\* What the report of state s of member k does to the entry of its job.
Noted(e, k, s) ==
    CASE s = "stopping" -> [e EXCEPT !.state = "stopped"]
      [] s = "continued" -> [e EXCEPT !.state = "running"]
      [] s = "zombie" -> [e EXCEPT !.pids = Forget(@, k),
                                   !.is_done = @ \/ AllDone(Forget(e.pids, k))]

Tracks(e, g, k) == e.pid = g /\ \E j \in DOMAIN e.pids : k # 0 /\ e.pids[j] = k

\* Mutant of Sigchld: the main loop is not told.
SigchldQuiet(g, k) ==
    /\ Unblocked
    /\ child[g][k] \in {"stopping", "continued", "zombie"}
    /\ Become(g, k, Reported(child[g][k]))
    /\ bg_jobs' = [i \in DOMAIN bg_jobs |->
           IF Tracks(bg_jobs[i], g, k) THEN Noted(bg_jobs[i], k, child[g][k]) ELSE bg_jobs[i]]
    /\ UNCHANGED <<launches, sigchld_pending, next_job_num, tty, pc, cmd, fgVars, eof_warned>>

Sigchld(g, k) ==
    /\ Unblocked
    /\ child[g][k] \in {"stopping", "continued", "zombie"}
    /\ Become(g, k, Reported(child[g][k]))
    /\ sigchld_pending' = TRUE
    /\ bg_jobs' = [i \in DOMAIN bg_jobs |->
           IF Tracks(bg_jobs[i], g, k) THEN Noted(bg_jobs[i], k, child[g][k]) ELSE bg_jobs[i]]
    /\ UNCHANGED <<launches, next_job_num, tty, pc, cmd, fgVars, eof_warned>>

-----------------------------------------------------------------------------
(* The main loop *)

\* The members of S in increasing order.
Ordered(S) == [n \in 1 .. Cardinality(S) |->
                  CHOOSE i \in S : Cardinality({j \in S : j <= i}) = n]

\* The table after remove_job() of each entry that is not in K: the later ones
\* move down.
Keep(K) == [n \in 1 .. Cardinality(K) |-> bg_jobs[Ordered(K)[n]]]

\* prcs_cmplt_job(): report the jobs that are done and remove them.
PrcsCmpltJob ==
    /\ sigchld_pending' = FALSE
    /\ bg_jobs' = IF sigchld_pending THEN Keep({i \in DOMAIN bg_jobs : ~bg_jobs[i].is_done})
                  ELSE bg_jobs

ReportDone ==
    /\ pc = "top"
    /\ pc' = "prompt"
    /\ PrcsCmpltJob
    /\ UNCHANGED <<child, launches, next_job_num, tty, cmd, fgVars, eof_warned>>

\* fgets() returns a line; a SIGCHLD does not make it return (SA_RESTART).
ReadLine ==
    /\ pc = "prompt"
    /\ pc' = "line"
    /\ eof_warned' = FALSE
    /\ UNCHANGED <<child, launches, tableVars, sigchld_pending, tty, cmd, fgVars>>

\* No command of the line is left, or the line is not valid.
EndLine ==
    /\ pc = "line"
    /\ pc' = "top"
    /\ UNCHANGED <<child, launches, tableVars, sigchld_pending, tty, cmd, fgVars, eof_warned>>

HasStopped == \E i \in DOMAIN bg_jobs : ~bg_jobs[i].is_done /\ bg_jobs[i].state = "stopped"

\* End of input: warn once about stopped jobs, else hang up every job and exit.
EndOfInput ==
    /\ pc = "prompt"
    /\ IF HasStopped /\ ~eof_warned
       THEN pc' = "top" /\ eof_warned' = TRUE
       ELSE pc' = "exited" /\ UNCHANGED eof_warned
    /\ UNCHANGED <<child, launches, tableVars, sigchld_pending, tty, cmd, fgVars>>

\* fgets() fails, and errno is EINTR, as a wait that a timer ended leaves it:
\* the end of input is not looked at.
InputInterrupted ==
    /\ pc = "prompt" /\ timeouts
    /\ pc' = "top"
    /\ PrcsCmpltJob
    /\ UNCHANGED <<child, launches, next_job_num, tty, cmd, fgVars, eof_warned>>

-----------------------------------------------------------------------------
(* execute() *)

\* add_job() returns silently when the table is full.
AddJob(pids) ==
    IF Len(bg_jobs) >= MAXJOBS THEN bg_jobs
    ELSE Append(bg_jobs, [job_num |-> next_job_num, pid |-> launches, pids |-> pids,
                          state |-> "running", is_done |-> FALSE])
NextJobNum == IF Len(bg_jobs) >= MAXJOBS THEN next_job_num ELSE next_job_num + 1

Execute(length, bg) ==
    /\ pc = "line"
    /\ launches < MaxLaunches
    /\ pc' = "spawn"
    /\ launches' = launches + 1
    /\ cmd' = [length |-> length, bg |-> bg]
    /\ UNCHANGED <<child, tableVars, sigchld_pending, tty, fgVars, eof_warned>>

\* The local array pids[]: the commands forked and not yet reaped.
Spawned == {k \in Commands : child[launches][k] # "none"}
Unreaped == {k \in Spawned : child[launches][k] # "reaped"}

\* fork() of the next command, and of its helper.
Spawn(helper) ==
    /\ pc = "spawn"
    /\ Cardinality(Spawned) < cmd.length
    /\ helper => WithHelper /\ child[launches][0] = "none"
    /\ child' = [child EXCEPT ![launches] = [k \in Members |->
           IF k = Cardinality(Spawned) + 1 \/ (k = 0 /\ helper) THEN "running" ELSE @[k]]]
    /\ tty' = IF cmd.bg THEN tty ELSE launches
    /\ loading' = IF cmd.bg THEN loading ELSE loading \cup {Cardinality(Spawned) + 1}
    /\ UNCHANGED <<launches, tableVars, sigchld_pending, pc, cmd, resumeVars, eof_warned>>

\* A redirection, pipe() or fork() fails: SIGTERM to what was launched.
SpawnFails ==
    /\ pc = "spawn"
    /\ Cardinality(Spawned) < cmd.length
    /\ pc' = "abort"
    /\ UNCHANGED <<child, launches, tableVars, sigchld_pending, tty, cmd, fgVars, eof_warned>>

\* while(waitpid(-lead_pgid, NULL, 0)>0).
AbortReap(k) ==
    /\ pc = "abort"
    /\ child[launches][k] = "zombie"
    /\ Become(launches, k, "reaped")
    /\ UNCHANGED <<launches, tableVars, sigchld_pending, tty, pc, cmd, fgVars, eof_warned>>

\* Mutant of AbortEnd: the terminal stays with the group that failed.
AbortEndKeepsTty ==
    /\ pc = "abort"
    /\ ~GroupExists(launches)
    /\ pc' = "top"
    /\ cmd' = NoCmd
    /\ UNCHANGED <<child, launches, tableVars, tty, sigchld_pending, fgVars, eof_warned>>

\* execute() returns 1: the rest of the line is dropped.
AbortEnd ==
    /\ pc = "abort"
    /\ ~GroupExists(launches)
    /\ pc' = "top"
    /\ tty' = IF cmd.bg THEN tty ELSE Shell
    /\ cmd' = NoCmd
    /\ UNCHANGED <<child, launches, tableVars, sigchld_pending, fgVars, eof_warned>>

LaunchedBg ==
    /\ pc = "spawn" /\ cmd.bg
    /\ Cardinality(Spawned) = cmd.length
    /\ pc' = "line"
    /\ bg_jobs' = AddJob([i \in 1 .. cmd.length |-> i])
    /\ next_job_num' = NextJobNum
    /\ cmd' = NoCmd
    /\ UNCHANGED <<child, launches, sigchld_pending, tty, fgVars, eof_warned>>

LaunchedFg ==
    /\ pc = "spawn" /\ ~cmd.bg
    /\ Cardinality(Spawned) = cmd.length
    /\ pc' = "wait"
    /\ UNCHANGED <<child, launches, tableVars, sigchld_pending, tty, cmd, fgVars, eof_warned>>

\* waitpid(-g, &status, WUNTRACED) returns member k.
WaitReturns(g, k) ==
    /\ child[g][k] \in {"stopping", "zombie"}
    /\ Become(g, k, Reported(child[g][k]))

\* One return of waitpid(); the first stop ends the wait.
WaitFg(k) ==
    /\ pc = "wait"
    /\ WaitReturns(launches, k)
    /\ pc' = IF child[launches][k] = "stopping" THEN "stop" ELSE "wait"
    /\ UNCHANGED <<launches, tableVars, sigchld_pending, tty, cmd, fgVars, eof_warned>>

\* done_count has reached total_count.  If a command could not be executed the
\* rest of the line is dropped.
EndFg ==
    /\ pc = "wait"
    /\ ~GroupExists(launches)
    /\ pc' \in {"line", "top"}
    /\ tty' = Shell
    /\ cmd' = NoCmd
    /\ UNCHANGED <<child, launches, tableVars, sigchld_pending, fgVars, eof_warned>>

\* read() of the pipes returns when no command holds its end, stopped or not;
\* then the stopped pipeline becomes a job: bg_jobs[job_cnt-1] is marked stopped.
StopFg ==
    /\ pc = "stop"
    /\ loading = {}
    /\ pc' \in {"line", "top"}
    /\ tty' = Shell
    /\ bg_jobs' = LET added == AddJob(Ordered(Unreaped))
                  IN  [added EXCEPT ![Len(added)].state = "stopped"]
    /\ next_job_num' = NextJobNum
    /\ cmd' = NoCmd
    /\ UNCHANGED <<child, launches, sigchld_pending, fgVars, eof_warned>>

-----------------------------------------------------------------------------
(* resume *)

CanResume(i) == pc = "line" /\ i \in DOMAIN bg_jobs /\ ~bg_jobs[i].is_done

ResumeBg(i) ==
    /\ CanResume(i)
    /\ GroupExists(bg_jobs[i].pid)
    /\ Continue(bg_jobs[i].pid)
    /\ bg_jobs' = [bg_jobs EXCEPT ![i].state = "running"]
    /\ UNCHANGED <<launches, next_job_num, sigchld_pending, tty, pc, cmd, fgVars, eof_warned>>

\* fg_job(): tcsetpgrp() fails for a group that is no more ...
ResumeGone(i) ==
    /\ CanResume(i)
    /\ ~GroupExists(bg_jobs[i].pid)
    /\ bg_jobs' = [bg_jobs EXCEPT ![i].state = "running"]
    /\ UNCHANGED <<child, launches, next_job_num, sigchld_pending, tty, pc, cmd, fgVars, eof_warned>>

Live(e) == Cardinality({j \in DOMAIN e.pids : e.pids[j] # 0})

\* ... otherwise the job gets the terminal, SIGCONT, and maybe a timer.
ResumeFg(i, timeout) ==
    /\ CanResume(i)
    /\ timeout => timeouts
    /\ GroupExists(bg_jobs[i].pid)
    /\ Continue(bg_jobs[i].pid)
    /\ bg_jobs' = [bg_jobs EXCEPT ![i].state = "running"]
    /\ tty' = bg_jobs[i].pid
    /\ fg' = i
    /\ live' = Live(bg_jobs[i])
    /\ alarm' = IF timeout THEN "set" ELSE "off"
    /\ pc' = IF Live(bg_jobs[i]) > 0 THEN "fgwait" ELSE "fgend"
    /\ UNCHANGED <<launches, next_job_num, sigchld_pending, cmd, eof_warned, timeouts, loading>>

\* One return of waitpid(), which also reaps helpers.
FgWait(k) ==
    /\ pc = "fgwait"
    /\ WaitReturns(bg_jobs[fg].pid, k)
    /\ IF child[bg_jobs[fg].pid][k] = "stopping"
       THEN /\ bg_jobs' = [bg_jobs EXCEPT ![fg].state = "stopped"]
            /\ pc' = "fgstop"
            /\ UNCHANGED live
       ELSE /\ bg_jobs' = [bg_jobs EXCEPT ![fg].pids = Forget(@, k)]
            /\ live' = live - 1
            /\ pc' = IF live = 1 THEN "fgend" ELSE "fgwait"
    /\ UNCHANGED <<launches, next_job_num, sigchld_pending, tty, cmd, fg, alarm, eof_warned, timeouts, loading>>

\* fg_alarm_handler() sends SIGTERM and sets fg_timed_out.  A waitpid() that
\* blocks ends with EINTR, which ends the wait; elsewhere the wait goes on.
Alarm ==
    /\ alarm = "set"
    /\ alarm' = "fired"
    /\ \/ pc = "fgwait" /\ pc' = "fgend"
       \/ pc \in {"fgwait", "fgstop", "fgend"} /\ UNCHANGED pc
    /\ UNCHANGED <<child, launches, tableVars, sigchld_pending, tty, cmd, fg, live, eof_warned, timeouts, loading>>

\* Mutant of FgReturn: a job that stopped again is added once more.
FgReturnAddsStopped ==
    /\ pc \in {"fgstop", "fgend"}
    /\ pc' = "line"
    /\ tty' = Shell
    /\ bg_jobs' = IF pc = "fgstop" THEN Append(bg_jobs, bg_jobs[fg]) ELSE Keep(DOMAIN bg_jobs \ {fg})
    /\ fg' = 0
    /\ live' = 0
    /\ alarm' = "off"
    /\ UNCHANGED <<child, launches, next_job_num, sigchld_pending, cmd, eof_warned, timeouts, loading>>

\* Mutant of FgReturn: a job that stopped again is removed.
FgReturnForgetsStopped ==
    /\ pc \in {"fgstop", "fgend"}
    /\ pc' = "line"
    /\ tty' = Shell
    /\ bg_jobs' = IF alarm = "fired" THEN [bg_jobs EXCEPT ![fg].state = "running"]
                  ELSE Keep(DOMAIN bg_jobs \ {fg})
    /\ fg' = 0
    /\ live' = 0
    /\ alarm' = "off"
    /\ UNCHANGED <<child, launches, next_job_num, sigchld_pending, cmd, eof_warned, timeouts, loading>>

\* The timer is cancelled and the terminal reclaimed; a job that neither
\* timed out nor stopped is removed.
FgReturn ==
    /\ pc \in {"fgstop", "fgend"}
    /\ pc' = "line"
    /\ tty' = Shell
    /\ bg_jobs' = IF alarm = "fired" THEN [bg_jobs EXCEPT ![fg].state = "running"]
                  ELSE IF pc = "fgstop" THEN bg_jobs
                  ELSE Keep(DOMAIN bg_jobs \ {fg})
    /\ fg' = 0
    /\ live' = 0
    /\ alarm' = "off"
    /\ UNCHANGED <<child, launches, next_job_num, sigchld_pending, cmd, eof_warned, timeouts, loading>>

-----------------------------------------------------------------------------
MainLoop == ReportDone \/ EndLine

ExecuteStep ==
    \/ \E helper \in BOOLEAN : Spawn(helper)
    \/ SpawnFails \/ AbortEnd \/ LaunchedBg \/ LaunchedFg \/ EndFg \/ StopFg
    \/ \E k \in Members : AbortReap(k) \/ WaitFg(k)

Resume ==
    \/ Alarm \/ FgReturn
    \/ \E k \in Members : FgWait(k)

User ==
    \/ ReadLine \/ EndOfInput \/ InputInterrupted
    \/ \E n \in Commands, bg \in BOOLEAN : Execute(n, bg)
    \/ \E i \in 1 .. MAXJOBS :
          ResumeBg(i) \/ ResumeGone(i) \/ \E timeout \in BOOLEAN : ResumeFg(i, timeout)

Handler == \E g \in Groups, k \in Members : Sigchld(g, k)
Children ==
    \/ \E g \in Groups, k \in Members : ChildExits(g, k) \/ ChildStopsOrContinues(g, k)
    \/ \E k \in Commands : ChildExecs(k)

Next == MainLoop \/ ExecuteStep \/ Resume \/ User \/ Handler \/ Children

Spec == Init /\ [][Next]_vars

-----------------------------------------------------------------------------
(* Properties *)

Tracked(g, k) == \E i \in DOMAIN bg_jobs : ~bg_jobs[i].is_done /\ Tracks(bg_jobs[i], g, k)

\* Whenever the shell is between two commands, each command it launched and
\* has not reaped is in the table, where activities, ping, resume and the
\* hangup at exit look for it, whatever stopped, exited or was interrupted
\* while the shell waited (exec.c:316-383, cmds_resume.c:84-136).
LiveIsTracked == Unblocked =>
    \A g \in Groups, k \in Commands : Exists(child[g][k]) => Tracked(g, k)

\* A job is marked done only when all its commands have been reaped, and an
\* entry that is not done has a process whose end the handler can still see, so
\* it will not stay in the table for ever (main.c:43-73), as long as no timer
\* goes off while the last process of a job is reaped.
DoneIsExact ==
    /\ \A i \in DOMAIN bg_jobs : bg_jobs[i].is_done =>
          \A k \in Commands : ~Exists(child[bg_jobs[i].pid][k])
    /\ Unblocked /\ ~timeouts =>
          \A i \in DOMAIN bg_jobs : ~bg_jobs[i].is_done => ~AllDone(bg_jobs[i].pids)

\* A job has the terminal only while the shell waits for that very job, or
\* launches it, so that Ctrl-C and Ctrl-Z reach no other.
TerminalOwner == tty # Shell =>
    \/ pc \in {"spawn", "abort", "wait", "stop"} /\ ~cmd.bg /\ tty = launches
    \/ pc \in {"fgwait", "fgstop", "fgend"} /\ tty = bg_jobs[fg].pid

\* A job that is done waits for its report with sigchld_pending set: whenever
\* the handler runs, while the shell reports, launches, resumes or fails to
\* read, no report is dropped (main.c:39, 80-103).
DoneIsPending == (\E i \in DOMAIN bg_jobs : bg_jobs[i].is_done) => sigchld_pending
=============================================================================
