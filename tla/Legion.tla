------------------------------- MODULE Legion -------------------------------
(***************************************************************************)
(* The Legion daemon manager (hw4/src/cli.c): the table of daemons, the    *)
(* commands that change it, the SIGCHLD and SIGALRM handlers that          *)
(* interrupt them, and the log files that logrotate renames.               *)
(*                                                                         *)
(* One process runs the commands and the handlers; the daemons are its     *)
(* children.  A step of the manager is the code between two places where a *)
(* handler can run with a different effect.  The handlers are installed    *)
(* with signal(), whose BSD semantics restarts read() and waitpid(), so    *)
(* that only sigsuspend() ends when a handler returns.  SIGCHLD is one     *)
(* pending bit: deaths that are not delivered in time coalesce.            *)
(*                                                                         *)
(* Commands that only print (help, status, status-all), usage errors and   *)
(* commands refused with sf_error change nothing and are stuttering steps. *)
(* The flags the handlers set only choose which message stop prints.       *)
(***************************************************************************)
EXTENDS Integers, Sequences

CONSTANTS Names,            \* daemon names
          MaxSlots,         \* bound: entries of the table, never reused
          MaxPids,          \* bound: children that are ever forked
          LOG_VERSIONS,     \* legion.h
          Rotates           \* is logrotate among the commands?

ASSUME LegionAssumption ==
    /\ MaxSlots \in Nat \ {0}
    /\ MaxPids \in Nat \ {0}
    /\ LOG_VERSIONS \in Nat \ {0, 1}
    /\ Rotates \in BOOLEAN

VARIABLES
    list,                   \* list[0 .. daemon_count-1]
    most_recent_index,
    pc, i, d_stopped,       \* run_cli: where it is, the slot, logrotate's flag
    child,                  \* cpid
    hix, ret,               \* handle_sigchld: its i, and where it returns to
    pending, blocked,       \* SIGCHLD: is it pending, is it in the mask
    old_mask,               \* was it in the mask that sigsuspend restores
    alarm,                  \* is the alarm set
    proc, reaped,           \* the children; the ones waited for
    logs                    \* the versions of each daemon's log, by writer

tabVars  == <<list, most_recent_index>>
cliVars  == <<pc, i, d_stopped, child>>
hdlVars  == <<hix, ret>>
sigVars  == <<pending, blocked, old_mask, alarm>>
procVars == <<proc, reaped>>
vars == <<tabVars, cliVars, hdlVars, sigVars, procVars, logs>>

Pids == 1 .. MaxPids
Versions == 0 .. LOG_VERSIONS - 1
Statuses == {"inactive", "starting", "active", "stopping", "exited", "crashed"}
Points == {"prompt", "term", "armed", "suspend", "woken", "rotate", "start",
           "forked", "read", "gotByte", "chld", "exited"}
Alive == {"forked", "running", "ready"}
Dead == {"exited", "killed"}
NoProc == [state |-> "none", name |-> "", sigkill |-> FALSE]

TypeOK ==
    /\ list \in Seq([name : Names, pid : {0} \cup Pids, using : BOOLEAN,
                     status : Statuses])
    /\ Len(list) <= MaxSlots
    /\ most_recent_index \in 0 .. Len(list)
    /\ pc \in Points
    /\ i \in 0 .. Len(list)
    /\ d_stopped \in BOOLEAN
    /\ child \in {0} \cup Pids
    /\ hix \in 0 .. Len(list) + 1
    /\ ret \in Points
    /\ pending \in BOOLEAN
    /\ blocked \in BOOLEAN
    /\ old_mask \in BOOLEAN
    /\ alarm \in BOOLEAN
    /\ \A p \in Pids : proc[p].state \in Alive \cup Dead \cup {"none"}
    /\ reaped \subseteq {p \in Pids : proc[p].state \in Dead}
    /\ logs \in [Names -> [Versions -> {0} \cup Pids]]

Init ==
    /\ list = <<>>
    /\ most_recent_index = 0
    /\ pc = "prompt"
    /\ i = 0
    /\ d_stopped = FALSE
    /\ child = 0
    /\ hix = 0
    /\ ret = "prompt"
    /\ pending = FALSE
    /\ blocked = FALSE
    /\ old_mask = FALSE
    /\ alarm = FALSE
    /\ proc = [p \in Pids |-> NoProc]
    /\ reaped = {}
    /\ logs = [n \in Names |-> [v \in Versions |-> 0]]

-----------------------------------------------------------------------------
(* The slots in use under a name.  The commands take the first.            *)
Slots(n) == {k \in DOMAIN list : list[k].using /\ list[k].name = n}
Found(n, k) == k \in Slots(n) /\ \A m \in Slots(n) : k <= m

(* SIGCHLD is masked by the process's mask, by its own handler, or by the  *)
(* mask sigsuspend has put in place.  When it is pending and not masked    *)
(* the kernel delivers it before the manager executes anything else.       *)
Masked == CASE pc = "suspend" -> old_mask
            [] pc = "chld"    -> TRUE
            [] OTHER          -> blocked

Deliverable == pending /\ ~Masked
At(point) == pc = point /\ ~Deliverable

SetStatus(k, s) == list' = [list EXCEPT ![k].status = s]

(* Back to the prompt: the locals are dead, and so is most_recent_index,   *)
(* which nothing but the alarm reads.                                      *)
Prompt ==
    /\ pc' = "prompt"
    /\ i' = 0
    /\ d_stopped' = FALSE
    /\ child' = 0
    /\ most_recent_index' = 0

(* Mutant: the table is not searched for the name.                         *)
RegisterAgain(n) ==
    /\ At("prompt")
    /\ Len(list) < MaxSlots
    /\ list' = Append(list, [name |-> n, pid |-> 0, using |-> TRUE,
                             status |-> "inactive"])
    /\ UNCHANGED <<most_recent_index, cliVars, hdlVars, sigVars, procVars, logs>>

Register(n) ==
    /\ At("prompt")
    /\ Slots(n) = {}
    /\ Len(list) < MaxSlots
    /\ list' = Append(list, [name |-> n, pid |-> 0, using |-> TRUE,
                             status |-> "inactive"])
    /\ UNCHANGED <<most_recent_index, cliVars, hdlVars, sigVars, procVars, logs>>

(* Mutant: any daemon can be unregistered.                                 *)
UnregisterAny(n) ==
    /\ At("prompt")
    /\ \E k \in DOMAIN list : Found(n, k) /\ list' = [list EXCEPT ![k].using = FALSE]
    /\ UNCHANGED <<most_recent_index, cliVars, hdlVars, sigVars, procVars, logs>>

Unregister(n) ==
    /\ At("prompt")
    /\ \E k \in DOMAIN list :
         /\ Found(n, k)
         /\ list[k].status = "inactive"
         /\ list' = [list EXCEPT ![k].using = FALSE]
    /\ UNCHANGED <<most_recent_index, cliVars, hdlVars, sigVars, procVars, logs>>

(* stop on a daemon that has ended.                                        *)
Reset(n) ==
    /\ At("prompt")
    /\ \E k \in DOMAIN list :
         /\ Found(n, k)
         /\ list[k].status \in {"exited", "crashed"}
         /\ SetStatus(k, "inactive")
    /\ UNCHANGED <<most_recent_index, cliVars, hdlVars, sigVars, procVars, logs>>

-----------------------------------------------------------------------------
(* stop on an active daemon, and logrotate's way of stopping one.          *)
BeginStop(n, rotating) ==
    /\ At("prompt")
    /\ \E k \in DOMAIN list :
         /\ Found(n, k)
         /\ list[k].status = "active"
         /\ SetStatus(k, "stopping")
         /\ most_recent_index' = k
         /\ i' = k
    /\ d_stopped' = rotating
    /\ pc' = "term"
    /\ UNCHANGED <<child, hdlVars, sigVars, procVars, logs>>

Stop(n) == BeginStop(n, FALSE)

(* SIGCHLD is blocked, SIGTERM sent (what the daemon makes of it is up to  *)
(* the daemon) and the alarm set.                                          *)
SendTerm ==
    /\ At("term")
    /\ old_mask' = blocked
    /\ blocked' = TRUE
    /\ alarm' = TRUE
    /\ pc' = "armed"
    /\ UNCHANGED <<tabVars, i, d_stopped, child, hdlVars, pending, procVars, logs>>

Suspend ==
    /\ At("armed")
    /\ pc' = "suspend"
    /\ UNCHANGED <<tabVars, i, d_stopped, child, hdlVars, sigVars, procVars, logs>>

(* After sigsuspend: the alarm is cancelled, SIGCHLD stays blocked.        *)
Woken ==
    /\ At("woken")
    /\ alarm' = FALSE
    /\ old_mask' = FALSE
    /\ IF d_stopped
       THEN pc' = "rotate" /\ UNCHANGED <<i, d_stopped, child, most_recent_index>>
       ELSE Prompt
    /\ UNCHANGED <<list, hdlVars, pending, blocked, procVars, logs>>

-----------------------------------------------------------------------------
(* start; SIGCHLD is unblocked after the fork.                             *)
Start(n) ==
    /\ At("prompt")
    /\ \E k \in DOMAIN list :
         /\ Found(n, k)
         /\ list[k].status = "inactive"
         /\ SetStatus(k, "starting")
         /\ i' = k
    /\ d_stopped' = FALSE
    /\ pc' = "start"
    /\ UNCHANGED <<most_recent_index, child, hdlVars, sigVars, procVars, logs>>

(* pipe() or fork() fails.                                                 *)
StartFails ==
    /\ At("start")
    /\ SetStatus(i, "inactive")
    /\ blocked' \in {blocked, FALSE}
    /\ Prompt
    /\ UNCHANGED <<hdlVars, pending, old_mask, alarm, procVars, logs>>

Fork ==
    /\ At("start")
    /\ \E p \in Pids :
         /\ \A q \in Pids : proc[q].state = "none" <=> p <= q
         /\ proc' = [proc EXCEPT ![p] = [state |-> "forked", name |-> list[i].name,
                                         sigkill |-> FALSE]]
         /\ child' = p
    /\ blocked' = FALSE
    /\ pc' = "forked"
    /\ UNCHANGED <<tabVars, i, d_stopped, hdlVars, pending, old_mask, alarm,
                   reaped, logs>>

Parent ==
    /\ At("forked")
    /\ list' = [list EXCEPT ![i].pid = child]
    /\ most_recent_index' = i
    /\ alarm' = TRUE
    /\ pc' = "read"
    /\ UNCHANGED <<i, d_stopped, child, hdlVars, pending, blocked, old_mask,
                   procVars, logs>>

(* read() returns the byte the daemon wrote, or 0 when the daemon is dead. *)
ReadReturns ==
    /\ At("read")
    /\ proc[child].state \in Dead \cup {"ready"}
    /\ pc' = "gotByte"
    /\ UNCHANGED <<tabVars, i, d_stopped, child, hdlVars, sigVars, procVars, logs>>

(* The status becomes active in either case.                               *)
Activate ==
    /\ At("gotByte")
    /\ alarm' = FALSE
    /\ SetStatus(i, "active")
    /\ Prompt
    /\ UNCHANGED <<hdlVars, pending, blocked, old_mask, procVars, logs>>

-----------------------------------------------------------------------------
(* Mutant: the newest version is renamed to the first free number.         *)
RenameNewest(f) ==
    LET free == {v \in Versions \ {0} : f[v] = 0}
        k == CHOOSE v \in free : \A w \in free : v <= w
    IN  IF free = {} THEN [f EXCEPT ![LOG_VERSIONS - 1] = 0]
                     ELSE [f EXCEPT ![k] = f[0], ![0] = 0]

(* logrotate's loop over the versions of one daemon's log: the version     *)
(* below the first free number is renamed to it, and nothing else; when    *)
(* all numbers are taken the oldest is unlinked.                           *)
Rotated(f) ==
    LET free == {v \in Versions \ {0} : f[v] = 0}
        k == CHOOSE v \in free : \A w \in free : v <= w
    IN  IF free = {} THEN [f EXCEPT ![LOG_VERSIONS - 1] = 0]
                     ELSE [f EXCEPT ![k] = f[k - 1], ![k - 1] = 0]

(* logrotate: the daemon must exist and have a log; an active daemon is    *)
(* stopped before the rotation and started after it.                       *)
LogrotateActive(n) ==
    /\ Rotates
    /\ logs[n][0] # 0
    /\ BeginStop(n, TRUE)

Logrotate(n) ==
    /\ Rotates
    /\ At("prompt")
    /\ logs[n][0] # 0
    /\ \E k \in DOMAIN list : Found(n, k) /\ list[k].status # "active"
    /\ logs' = [logs EXCEPT ![n] = Rotated(@)]
    /\ UNCHANGED <<tabVars, cliVars, hdlVars, sigVars, procVars>>

RotateAndRestart ==
    /\ At("rotate")
    /\ logs' = [logs EXCEPT ![list[i].name] = Rotated(@)]
    /\ SetStatus(i, "starting")
    /\ pc' = "start"
    /\ UNCHANGED <<most_recent_index, i, d_stopped, child, hdlVars, sigVars,
                   procVars>>

(* quit, end of input, or SIGINT at any time.  The manager is gone with    *)
(* its table; the daemons live on and are not followed any further.        *)
Quit ==
    /\ pc # "exited"
    /\ pc' = "exited"
    /\ list' = <<>>
    /\ most_recent_index' = 0 /\ i' = 0 /\ child' = 0 /\ hix' = 0
    /\ ret' = "prompt"
    /\ d_stopped' = FALSE /\ pending' = FALSE /\ blocked' = FALSE
    /\ old_mask' = FALSE /\ alarm' = FALSE
    /\ proc' = [p \in Pids |-> NoProc]
    /\ reaped' = {}
    /\ UNCHANGED logs

-----------------------------------------------------------------------------
SigChld ==
    /\ pc # "exited"
    /\ Deliverable
    /\ pending' = FALSE
    /\ hix' = 1
    /\ ret' = IF pc = "suspend" THEN "woken" ELSE pc
    /\ pc' = "chld"
    /\ UNCHANGED <<tabVars, i, d_stopped, child, blocked, old_mask, alarm,
                   procVars, logs>>

(* handle_sigchld looks at every slot.  For an active one it waits until   *)
(* the process ends.  A waitpid that failed (the process was waited for    *)
(* before) would leave what an earlier one stored in its variable status.  *)
Fates(p) == IF p \in reaped THEN Dead ELSE Dead \cap {proc[p].state}

(* Mutant: the daemon's status is left as it is.                           *)
ReapSilently ==
    /\ pc = "chld"
    /\ hix \in DOMAIN list
    /\ list[hix].using /\ list[hix].status = "active"
    /\ Fates(list[hix].pid) # {}
    /\ reaped' = reaped \cup {list[hix].pid}
    /\ hix' = hix + 1
    /\ UNCHANGED <<tabVars, cliVars, ret, sigVars, proc, logs>>

(* Mutant: waitpid does not wait for the process to end.                   *)
ReapAtOnce ==
    /\ pc = "chld"
    /\ hix \in DOMAIN list
    /\ list[hix].using /\ list[hix].status = "active"
    /\ SetStatus(hix, IF proc[list[hix].pid].state = "killed" THEN "crashed"
                                                              ELSE "exited")
    /\ reaped' = reaped \cup {list[hix].pid}
    /\ hix' = hix + 1
    /\ UNCHANGED <<most_recent_index, cliVars, ret, sigVars, proc, logs>>

(* Mutant: the two outcomes are exchanged.                                 *)
ReapConfused ==
    /\ pc = "chld"
    /\ hix \in DOMAIN list
    /\ list[hix].using /\ list[hix].status = "active"
    /\ \E fate \in Fates(list[hix].pid) :
         SetStatus(hix, IF fate = "killed" THEN "exited" ELSE "crashed")
    /\ reaped' = reaped \cup {list[hix].pid}
    /\ hix' = hix + 1
    /\ UNCHANGED <<most_recent_index, cliVars, ret, sigVars, proc, logs>>

Reap ==
    /\ pc = "chld"
    /\ hix \in DOMAIN list
    /\ list[hix].using /\ list[hix].status = "active"
    /\ \E fate \in Fates(list[hix].pid) :
         SetStatus(hix, IF fate = "exited" THEN "exited" ELSE "crashed")
    /\ reaped' = reaped \cup {list[hix].pid}
    /\ hix' = hix + 1
    /\ UNCHANGED <<most_recent_index, cliVars, ret, sigVars, proc, logs>>

PassOver ==
    /\ pc = "chld"
    /\ hix \in DOMAIN list
    /\ ~(list[hix].using /\ list[hix].status = "active")
    /\ hix' = hix + 1
    /\ UNCHANGED <<tabVars, cliVars, ret, sigVars, procVars, logs>>

HandlerReturns ==
    /\ pc = "chld"
    /\ hix > Len(list)
    /\ pc' = ret
    /\ hix' = 0
    /\ ret' = "prompt"
    /\ UNCHANGED <<tabVars, i, d_stopped, child, sigVars, procVars, logs>>

(* Mutant: the daemon is not killed.                                       *)
SigAlrmSpares ==
    /\ pc # "exited"
    /\ alarm
    /\ alarm' = FALSE
    /\ SetStatus(most_recent_index, "stopping")
    /\ pc' = IF pc = "suspend" THEN "woken" ELSE pc
    /\ UNCHANGED <<most_recent_index, i, d_stopped, child,
                   hdlVars, pending, blocked, old_mask, procVars, logs>>

(* The alarm expires: handle_sigalrm.                                      *)
SigAlrm ==
    LET p == list[most_recent_index].pid
    IN  /\ pc # "exited"
        /\ alarm
        /\ alarm' = FALSE
        /\ proc' = [proc EXCEPT ![p].sigkill = proc[p].state \in Alive]
        /\ SetStatus(most_recent_index, "stopping")
        /\ pc' = IF pc = "suspend" THEN "woken" ELSE pc
        /\ UNCHANGED <<most_recent_index, i, d_stopped,
                       child, hdlVars, pending, blocked, old_mask, reaped, logs>>

-----------------------------------------------------------------------------
(* The children.  Before execvpe the child is cli.c: it truncates version  *)
(* 0 of its log.  (When execvpe fails the child returns to the prompt with *)
(* the pipe open, and is to its parent a daemon that does not             *)
(* synchronize.)  A daemon writes its byte or does not, and ends when and  *)
(* how it likes; one that has been sent SIGKILL is killed.                 *)
Child(p) ==
    /\ pc # "exited"
    /\ proc[p].state = "forked"
    /\ proc' = [proc EXCEPT ![p].state = "running"]
    /\ logs' = [logs EXCEPT ![proc[p].name][0] = p]
    /\ UNCHANGED <<tabVars, cliVars, hdlVars, sigVars, reaped>>

Sync(p) ==
    /\ pc # "exited"
    /\ proc[p].state = "running"
    /\ proc' = [proc EXCEPT ![p].state = "ready"]
    /\ UNCHANGED <<tabVars, cliVars, hdlVars, sigVars, reaped, logs>>

Ends(p, fate) ==
    /\ pc # "exited"
    /\ proc[p].state \in Alive
    /\ proc' = [proc EXCEPT ![p].state = fate, ![p].sigkill = FALSE]
    /\ pending' = TRUE
    /\ UNCHANGED <<tabVars, cliVars, hdlVars, blocked, old_mask, alarm, reaped,
                   logs>>

Killed(p) == proc[p].sigkill /\ Ends(p, "killed")

Daemon(p) ==
    \/ Child(p) \/ Sync(p) \/ Ends(p, "killed")
    \/ proc[p].state # "forked" /\ Ends(p, "exited")

Command(n) ==
    \/ Register(n) \/ Unregister(n) \/ Reset(n) \/ Stop(n) \/ Start(n)
    \/ Logrotate(n) \/ LogrotateActive(n)

Proceed ==
    \/ SendTerm \/ Suspend \/ Woken \/ StartFails \/ Fork \/ Parent
    \/ ReadReturns \/ Activate \/ RotateAndRestart
    \/ SigChld \/ Reap \/ PassOver \/ HandlerReturns

Next ==
    \/ \E n \in Names : Command(n)
    \/ Proceed
    \/ SigAlrm
    \/ Quit
    \/ \E p \in Pids : Daemon(p)

Spec == Init /\ [][Next]_vars

(* The manager runs when it can, the alarm expires, SIGKILL kills.  The    *)
(* daemons owe nothing.                                                    *)
FairSpec ==
    /\ Spec
    /\ WF_vars(Proceed)
    /\ WF_vars(SigAlrm)
    /\ \A p \in Pids : WF_vars(Killed(p))

-----------------------------------------------------------------------------
(* A name designates one daemon, although entries are kept after           *)
(* unregister and a name can be registered again.                          *)
NamesUnique ==
    \A j, k \in DOMAIN list :
        list[j].using /\ list[k].using /\ list[j].name = list[k].name => j = k

(* An active daemon's process has not been waited for, and no other entry  *)
(* has it: handle_sigchld's waitpid cannot fail and report a stale status, *)
(* and kill() never hits a process that is gone.                           *)
ActiveUnreaped ==
    \A j \in DOMAIN list :
        list[j].status \in {"active", "stopping"} =>
            /\ list[j].pid \in Pids \ reaped
            /\ \A k \in DOMAIN list : list[k].pid = list[j].pid => j = k

(* "exited" and "crashed" say how the daemon's latest process ended.       *)
StatusTellsFate ==
    \A j \in DOMAIN list :
        /\ list[j].status = "exited" => proc[list[j].pid].state = "exited"
        /\ list[j].status = "crashed" => proc[list[j].pid].state = "killed"

(* Every child that has not been waited for is the process of one entry in *)
(* use that is not inactive: start never makes a second instance of a      *)
(* daemon, unregister never lets one go, and no zombie is lost sight of.   *)
(* Stated for a manager without logrotate, which alone replaces a process  *)
(* before it has been waited for.                                          *)
EveryChildAccounted ==
    \A p \in Pids : proc[p].state # "none" /\ p \notin reaped =>
        \E j \in DOMAIN list :
            /\ list[j].using
            /\ list[j].status \in {"starting", "active", "stopping"}
            /\ p = IF j = i /\ "forked" \in {pc, ret} THEN child ELSE list[j].pid

(* The versions of a log stay in the order in which they were written,     *)
(* whatever daemon instances overlap and whatever numbers are free.        *)
LogsOrdered ==
    \A n \in Names : \A v, w \in Versions :
        v < w /\ logs[n][v] # 0 /\ logs[n][w] # 0 => logs[n][v] > logs[n][w]

(* start comes back to the prompt when no other daemon is active, whether  *)
(* or not the daemon synchronizes: the alarm ends the read.                *)
NoOtherActive == \A j \in DOMAIN list : list[j].status # "active"
StartReturns ==
    [](pc \in {"start", "forked", "read", "gotByte"} /\ NoOtherActive
         => <>(pc \in {"prompt", "exited"}))

-----------------------------------------------------------------------------
(* What the header promises and the code does not keep.                    *)

(* CHILD_TIMEOUT: "Amount of time (in seconds) to wait for child process,  *)
(* either for the synchronization message on startup or for termination to *)
(* occur on shutdown": with the alarm set the wait comes to an end.        *)
WaitsAreBounded ==
    (pc \in {"suspend", "read"} /\ alarm) ~> pc \notin {"suspend", "read", "chld"}
=============================================================================
