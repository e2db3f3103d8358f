----------------------------- MODULE JobControl -----------------------------
(***************************************************************************)
(* The shell process, its children and its table of background jobs: the   *)
(* job list of job.c, the prompt loop of main.c, and the three ways a       *)
(* command is run -- in the background (execute_background_job), in the     *)
(* foreground (execute_command) and as a pipeline (execute_pipeline) --     *)
(* with the children, which run, stop and end on their own.                 *)
(*                                                                          *)
(* A child is collected by whichever wait call meets it first, and each     *)
(* caller waits for a different set of children: print_job_status for a     *)
(* process group without blocking, execute_command for one process, and     *)
(* execute_pipeline for one process and then for every child there is.      *)
(***************************************************************************)
EXTENDS Integers, Sequences, SequencesExt, FiniteSets

CONSTANTS
  Pid,          \* the process ids the kernel hands out, used again once free
  ShellGroup,   \* the process group of the shell and its foreground children
  WaitStatus,   \* the wait statuses a child can end with
  ExitCode,     \* what the exit command can store: its argument, 0, or -997 for a bad one
  MaxCommands,  \* bound: commands entered in a session
  MaxStages     \* bound: commands of one pipeline

SIGINT == 2

ASSUME PidAssumption == ShellGroup \notin Pid
ASSUME StatusAssumption == WaitStatus \subseteq Nat /\ SIGINT \in WaitStatus
ASSUME ExitAssumption == ExitCode \subseteq Int
ASSUME BoundAssumption == MaxCommands \in Nat /\ MaxStages \in Nat \ {0, 1}

VARIABLES
  job_list,      \* the chain from first_job to last_job, in order
  next_job_id,
  proc,          \* the shell's children as the kernel holds them
  pc,            \* where the shell is
  job,           \* print_job_status: position in job_list
  pid,           \* the child a foreground wait is for
  stage,         \* execute_pipeline: commands still to fork
  status,        \* execute_pipeline: the wait status collected last
  result,        \* *result, which is last_status
  keep_running,
  line,          \* commands entered so far: it stands for the command line
  stolen         \* history: a pipeline has collected a background job

shell == <<pc, job, pid, stage, status, result, keep_running, line>>
vars == <<job_list, next_job_id, proc, shell, stolen>>

\* The wait status as the kernel encodes it.
WIFEXITED(s) == s % 128 = 0
WEXITSTATUS(s) == (s \div 256) % 256
WTERMSIG(s) == s % 128

\* Mutant: the child does not leave the shell's process group.
StartedWithoutSetpgid(group, l) ==
  [st |-> "running", pgid |-> ShellGroup, line |-> l, status |-> 0]

Free == [st |-> "free", pgid |-> ShellGroup, line |-> 0, status |-> 0]
Started(group, l) == [st |-> "running", pgid |-> group, line |-> l, status |-> 0]

FreePids == {p \in Pid : proc[p].st = "free"}
Children == Pid \ FreePids
Zombies == {p \in Pid : proc[p].st = "zombie"}

\* Mutant: the wait call leaves the child in a waitable state.
ReapWithWNOWAIT(p) == UNCHANGED proc

Reap(p) == proc' = [proc EXCEPT ![p] = Free]

-----------------------------------------------------------------------------
(* The job list.                                                           *)

\* add_job: the new entry is the last one, with the next id.
add_job(pgid, l) ==
  /\ job_list' = Append(job_list, [job_id |-> next_job_id, pgid |-> pgid, line |-> l])
  /\ next_job_id' = next_job_id + 1

\* Mutant: the first job is unlinked, whichever is asked for.
remove_jobUnlinksHead(i) ==
  /\ job_list' = Tail(job_list)
  /\ next_job_id' = IF Len(job_list) = 1 THEN 1 ELSE next_job_id

\* remove_job: ids start at 1 again when the list has become empty.
remove_job(i) ==
  /\ job_list' = RemoveAt(job_list, i)
  /\ next_job_id' = IF Len(job_list) = 1 THEN 1 ELSE next_job_id

-----------------------------------------------------------------------------
Init ==
  /\ job_list = <<>>
  /\ next_job_id = 1
  /\ proc = [p \in Pid |-> Free]
  /\ pc = "status"
  /\ job = 1
  /\ pid \in Pid
  /\ stage = 0
  /\ status = 0
  /\ result = 0
  /\ keep_running = TRUE
  /\ line = 0
  /\ stolen = FALSE

\* print_job_status, one job: waitpid(-pgid, WNOHANG | WUNTRACED) collects an
\* ended child of that process group, and the job is reported and removed. A
\* child that stopped, still runs or is no longer there leaves the entry as it is.
PrintJobStatus ==
  /\ pc = "status"
  /\ job <= Len(job_list)
  /\ LET ended == {p \in Zombies : proc[p].pgid = job_list[job].pgid}
     IN  \/ /\ ended = {}
            /\ job' = job + 1
            /\ UNCHANGED <<job_list, next_job_id, proc>>
         \/ \E p \in ended : Reap(p) /\ remove_job(job) /\ UNCHANGED job
  /\ UNCHANGED <<pc, pid, stage, status, result, keep_running, line, stolen>>

Prompt ==
  /\ pc = "status"
  /\ job > Len(job_list)
  /\ pc' = "prompt"
  /\ UNCHANGED <<job_list, next_job_id, proc, job, pid, stage, status, result,
                 keep_running, line, stolen>>

\* Mutant: print_jobs goes on where it last was.
AgainWithoutRewind ==
  /\ pc' = IF keep_running THEN "status" ELSE "exited"
  /\ UNCHANGED job

\* The end of an iteration of the main loop, where keep_running is read.
Again ==
  /\ pc' = IF keep_running THEN "status" ELSE "exited"
  /\ job' = 1

\* Nothing was entered. readline reads the descriptor itself, so that feof(stdin) does
\* not become true: the end of the input is one more empty line.
EmptyLine ==
  /\ pc = "prompt"
  /\ Again
  /\ UNCHANGED <<job_list, next_job_id, proc, pid, stage, status, result, keep_running,
                 line, stolen>>

\* The next command, of a new input line or after a ";" of the same one.
Command ==
  /\ pc \in {"prompt", "next"}
  /\ line < MaxCommands
  /\ line' = line + 1

\* A command that cannot be parsed or has no word: the rest of the line is dropped.
Refused ==
  /\ Command
  /\ result' \in {0, 1}
  /\ pc' = "done"
  /\ UNCHANGED <<job_list, next_job_id, proc, job, pid, stage, status, keep_running, stolen>>

Builtin ==
  /\ Command
  /\ result' \in {0, 1}
  /\ pc' = "next"
  /\ UNCHANGED <<job_list, next_job_id, proc, job, pid, stage, status, keep_running, stolen>>

\* builtin_exit only asks the loop to end: the rest of the line still runs. It stores
\* the status asked for in last_status, which is *result.
Exit ==
  /\ Command
  /\ result' \in ExitCode
  /\ keep_running' = FALSE
  /\ pc' = "exit"
  /\ UNCHANGED <<job_list, next_job_id, proc, job, pid, stage, status, stolen>>

\* execute_command takes what the builtin returned for its result, as for any other.
ExitReturns ==
  /\ pc = "exit"
  /\ result' = 0
  /\ pc' = "next"
  /\ UNCHANGED <<job_list, next_job_id, proc, job, pid, stage, status, keep_running, line,
                 stolen>>

\* execute_background_job: the child leads a process group of its own.
Background ==
  /\ Command
  /\ result' = 0
  /\ \/ \E p \in FreePids :
          /\ proc' = [proc EXCEPT ![p] = Started(p, line')]
          /\ add_job(p, line')
          /\ pc' = "next"
     \/ /\ pc' = "done"                                       \* fork failed
        /\ UNCHANGED <<job_list, next_job_id, proc>>
  /\ UNCHANGED <<job, pid, stage, status, keep_running, stolen>>

\* execute_command: execute_builtin has answered -1 -- there is no such builtin, or the
\* builtin failed that way -- and the command is forked.
Foreground ==
  /\ Command
  /\ result' = -1
  /\ \/ \E p \in FreePids :
          /\ proc' = [proc EXCEPT ![p] = Started(ShellGroup, line')]
          /\ pid' = p
          /\ pc' = "wait"
     \/ pc' = "done" /\ UNCHANGED <<proc, pid>>               \* fork failed
  /\ UNCHANGED <<job_list, next_job_id, job, stage, status, keep_running, stolen>>

\* waitpid(pid): only the child itself will do.
Wait ==
  /\ pc = "wait"
  /\ pid \in Zombies
  /\ Reap(pid)
  /\ result' = LET s == proc[pid].status
               IN  IF WIFEXITED(s) THEN WEXITSTATUS(s) ELSE 128 + WTERMSIG(s)
  /\ pc' = "next"
  /\ UNCHANGED <<job_list, next_job_id, job, pid, stage, status, keep_running, line, stolen>>

\* execute_pipeline: *result keeps the 0 of the parse until the pipeline is over.
Pipeline ==
  /\ Command
  /\ result' = 0
  /\ stage' \in 2..MaxStages
  /\ status' = 0
  /\ pc' = "fork"
  /\ UNCHANGED <<job_list, next_job_id, proc, job, pid, keep_running, stolen>>

\* Mutant: last_pid keeps its value.
PipelineForkForgetsPid ==
  /\ pc = "fork"
  /\ \E p \in FreePids :
       /\ proc' = [proc EXCEPT ![p] = Started(ShellGroup, line)]
       /\ stage' = stage - 1
       /\ pc' = IF stage = 1 THEN "waitlast" ELSE "fork"
  /\ UNCHANGED <<job_list, next_job_id, job, pid, status, result, keep_running, line,
                 stolen>>

\* pipe or fork fails at any stage: the stages already started are left behind.
PipelineFork ==
  /\ pc = "fork"
  /\ \/ \E p \in FreePids :
          /\ proc' = [proc EXCEPT ![p] = Started(ShellGroup, line)]
          /\ pid' = p
          /\ stage' = stage - 1
          /\ pc' = IF stage = 1 THEN "waitlast" ELSE "fork"
     \/ /\ pc' = "done"
        /\ stage' = 0
        /\ UNCHANGED <<proc, pid>>
  /\ UNCHANGED <<job_list, next_job_id, job, status, result, keep_running, line, stolen>>

PipelineWaitLast ==
  /\ pc = "waitlast"
  /\ pid \in Zombies
  /\ Reap(pid)
  /\ status' = proc[pid].status
  /\ pc' = "waitall"
  /\ UNCHANGED <<job_list, next_job_id, job, pid, stage, result, keep_running, line, stolen>>

\* while (wait(&status) > 0): whichever child has ended, a job of the table too.
PipelineWaitAny ==
  /\ pc = "waitall"
  /\ \E p \in Zombies :
       /\ Reap(p)
       /\ status' = proc[p].status
       /\ stolen' = (stolen \/ proc[p].pgid = p)
  /\ UNCHANGED <<job_list, next_job_id, pc, job, pid, stage, result, keep_running, line>>

\* wait() fails with ECHILD: only when there is no child left at all.
PipelineDone ==
  /\ pc = "waitall"
  /\ Children = {}
  /\ result' = IF WIFEXITED(status) THEN WEXITSTATUS(status) ELSE -1
  /\ pc' = "next"
  /\ UNCHANGED <<job_list, next_job_id, proc, job, pid, stage, status, keep_running, line, stolen>>

EndOfLine ==
  /\ pc = "next"
  /\ pc' = "done"
  /\ UNCHANGED <<job_list, next_job_id, proc, job, pid, stage, status, result,
                 keep_running, line, stolen>>

Loop ==
  /\ pc = "done"
  /\ Again
  /\ UNCHANGED <<job_list, next_job_id, proc, pid, stage, status, result, keep_running,
                 line, stolen>>

Input == \/ EmptyLine \/ Refused \/ Builtin \/ Exit \/ Background \/ Foreground
         \/ Pipeline

ShellStep ==
  \/ PrintJobStatus \/ Prompt \/ ExitReturns \/ Wait \/ PipelineFork \/ PipelineWaitLast
  \/ PipelineWaitAny \/ PipelineDone \/ EndOfLine \/ Loop

-----------------------------------------------------------------------------
(* The children and the terminal.                                          *)

\* Child p in another state: it keeps its process group and its command line.
Now(p, state, s) ==
  [st |-> state, pgid |-> proc[p].pgid, line |-> proc[p].line, status |-> s]

ChildEnds(p) ==
  /\ proc[p].st \in {"running", "stopped"}
  /\ \E s \in WaitStatus : proc' = [proc EXCEPT ![p] = Now(p, "zombie", s)]
  /\ UNCHANGED <<job_list, next_job_id, shell, stolen>>

\* Any child can be stopped: a background job that reads the terminal is.
ChildStops(p) ==
  /\ proc[p].st = "running"
  /\ proc' = [proc EXCEPT ![p] = Now(p, "stopped", 0)]
  /\ UNCHANGED <<job_list, next_job_id, shell, stolen>>

ChildContinues(p) ==
  /\ proc[p].st = "stopped"
  /\ proc' = [proc EXCEPT ![p] = Now(p, "running", 0)]
  /\ UNCHANGED <<job_list, next_job_id, shell, stolen>>

\* Ctrl-C: the terminal signals the shell's process group. The shell's handler
\* clears keep_running, the children of that group die unless they catch it.
Interrupt ==
  /\ pc # "exited"
  /\ keep_running' = FALSE
  /\ \E hit \in SUBSET {p \in Pid : proc[p].st = "running" /\ proc[p].pgid = ShellGroup} :
       proc' = [p \in Pid |-> IF p \in hit THEN Now(p, "zombie", SIGINT) ELSE proc[p]]
  /\ UNCHANGED <<job_list, next_job_id, pc, job, pid, stage, status, result, line,
                 stolen>>

Environment ==
  \/ Interrupt
  \/ \E p \in Pid : ChildEnds(p) \/ ChildStops(p) \/ ChildContinues(p)

Next == ShellStep \/ Input \/ Environment

\* The shell's own steps are those of a running program, so they are fair; what
\* the user types and when a child ends is not.
Spec == Init /\ [][Next]_vars /\ WF_vars(ShellStep)

-----------------------------------------------------------------------------
Job == [job_id : Nat \ {0}, pgid : Pid, line : Nat]
Proc == [st : {"free", "running", "stopped", "zombie"},
         pgid : Pid \cup {ShellGroup}, line : Nat, status : Nat]

\* The variables have their types.
TypeOK ==
  /\ job_list \in Seq(Job)
  /\ next_job_id \in Nat \ {0}
  /\ proc \in [Pid -> Proc]
  /\ pc \in {"status", "prompt", "next", "exit", "wait", "fork", "waitlast", "waitall",
             "done", "exited"}
  /\ job \in Nat \ {0}
  /\ pid \in Pid
  /\ stage \in 0..MaxStages
  /\ pc = "fork" => stage > 0
  /\ status \in Nat
  /\ result \in Int
  /\ keep_running \in BOOLEAN
  /\ line \in 0..MaxCommands
  /\ stolen \in BOOLEAN

\* Job ids name jobs: over any sequence of additions and removals the ids of the
\* table are ascending, and the next id is above them all, 1 for an empty table.
JobIdsAscend ==
  /\ \A i, j \in 1..Len(job_list) :
       i < j => job_list[i].job_id < job_list[j].job_id
  /\ \A i \in 1..Len(job_list) : job_list[i].job_id < next_job_id
  /\ job_list = <<>> => next_job_id = 1

\* The child a foreground wait is for is still there, in the shell's process group
\* and started by this very command, so waitpid(pid) in execute_command and in
\* execute_pipeline can neither fail nor return another command's status.
WaitedChildIsOurs ==
  pc \in {"wait", "waitlast"} =>
    /\ proc[pid].st # "free"
    /\ proc[pid].pgid = ShellGroup
    /\ proc[pid].line = line

\* A job is the leader of its group and is still to be collected, and no two jobs
\* share a process: the table follows the children. It stays true until a pipeline
\* collects a child that print_job_status was to collect.
EntriesFollowChildren ==
  ~ stolen =>
    /\ \A i \in 1..Len(job_list) :
         LET p == job_list[i].pgid
         IN  proc[p].st # "free" /\ proc[p].pgid = p /\ proc[p].line = job_list[i].line
    /\ \A i, j \in 1..Len(job_list) :
         job_list[i].pgid = job_list[j].pgid => i = j

\* A background child is always in the job table, also after its pid was used
\* again: nothing the shell does loses track of a background process that exists.
BackgroundChildIsListed ==
  \A p \in Children :
    proc[p].pgid = p => \E i \in 1..Len(job_list) : job_list[i].pgid = p

\* Auxiliary: a child is in the shell's process group or leads its own.
OwnGroups == \A p \in Pid : proc[p].pgid \in {p, ShellGroup}

\* The inductive invariant that JobControlProofs establishes.
IInv ==
  /\ TypeOK
  /\ JobIdsAscend
  /\ OwnGroups
  /\ WaitedChildIsOurs
  /\ EntriesFollowChildren
  /\ BackgroundChildIsListed

\* A Done line names the job that ended: when a job leaves the table, the child
\* collected is the one started for that entry's command line (no pipeline having
\* collected a job before).
DoneNamesItsJob ==
  [][\A i \in 1..Len(job_list) :
        ~ stolen /\ job_list' = RemoveAt(job_list, i) =>
          \E p \in Zombies : proc'[p].st = "free" /\ proc[p].line = job_list[i].line]_vars

\* Ctrl-C leaves the children of the job table alone, whatever the order in which
\* jobs and foreground commands were started and pids used again.
InterruptSparesJobs ==
  [][keep_running /\ ~ keep_running' =>
       \A i \in 1..Len(job_list) :
         LET p == job_list[i].pgid
         IN  proc[p].line = job_list[i].line => proc'[p] = proc[p]]_vars

\* The shell comes back to the user, or ends, whenever children do not run or stay
\* stopped for ever: no wait call blocks for a child that is already collected.
ShellReturns ==
  (\A p \in Pid : []<>(proc[p].st \notin {"running", "stopped"}))
    => []<>(pc \in {"prompt", "next", "exited"})

\* A job that ended is reported and leaves the table, if the user keeps coming back
\* to the prompt and no pipeline took its status.
EndedJobIsReported ==
  []<>(pc = "status") =>
    \A p \in Pid : (proc[p].st = "zombie" /\ proc[p].pgid = p) ~> (proc[p].st = "free")
=============================================================================
