----------------------------- MODULE TimerTask -----------------------------
(***************************************************************************)
(* Timer tasks of the task-scheduler: one JSON file per timer, written by  *)
(* add_timer_task, removed by delete_user_task or, once it has fired, by   *)
(* the thread of timer_scan_loop.                                          *)
(*   task-scheduler-service/app/timer_task.py                              *)
(*                                                                         *)
(* A step is one operation on the directory or on a global variable; no    *)
(* lock protects either.  Operations of the directory take no time, while  *)
(* the threads that add or delete may be suspended between two of them for *)
(* any time.  Only the files survive a restart.                            *)
(***************************************************************************)
EXTENDS Integers

CONSTANTS
    Timers,      \* task ids, one file each
    NoTimer,     \* the scan has no file in hand
    Triggers,    \* trigger times users ask for
    Fast, Slow,  \* TIMER_SCAN_INTERVAL_FAST and _SLOW
    Recent,      \* 30: how long an addition keeps the scan fast
    Near,        \* 180: has_nearby_task
    MaxTime,     \* bound: the clock stops here
    MaxFaults    \* bound: restarts, failing writes, executions and removals

ASSUME TimerAssumption ==
    /\ {Fast, Slow, Recent, Near, MaxTime, MaxFaults} \subseteq Nat
    /\ 0 < Fast /\ Fast <= Slow
    /\ Triggers \subseteq 1..MaxTime
    /\ NoTimer \notin Timers

VARIABLES
    now,
    file,       \* "none", "partial" (opened, not yet written) or "whole"
    due,        \* its trigger_time
    since,      \* when the file was complete
    add,        \* place of add_timer_task
    del,        \* place of delete_user_task, or what it answered
    needFast,   \* NEED_FAST_SCAN
    lastAdd,    \* LAST_TASK_ADD_TIME
    interval,   \* scan_interval
    scan,       \* place of timer_scan_loop
    todo,       \* files of its listing, or of has_nearby_task's, still to come
    cur,        \* the file in its hands
    wake,       \* when its sleep ends
    runs,       \* calls of execute_timer_task for a timer
    kept,       \* those after which a failure kept the file
    blind,      \* the last has_nearby_task met a file it could not open or read
    faults

users == <<due, since, add, del, lastAdd>>
counts == <<runs, kept, faults>>
loop == <<interval, scan, todo, cur, wake, blind>>
vars == <<now, file, users, needFast, loop, counts>>

Never == -(Recent + 1)     \* LAST_TASK_ADD_TIME = 0: longer ago than Recent
Present == {k \in Timers : file[k] # "none"}
Unreadable == {k \in Timers : file[k] = "partial"}

Init ==
    /\ now = 0
    /\ file = [k \in Timers |-> "none"]
    /\ due \in [Timers -> Triggers]
    /\ since = [k \in Timers |-> 0]
    /\ add = [k \in Timers |-> "idle"]
    /\ del = [k \in Timers |-> "idle"]
    /\ needFast = FALSE
    /\ lastAdd = Never
    /\ interval = Fast
    /\ scan = "sleep" /\ wake = 0
    /\ todo = {}
    /\ cur = NoTimer
    /\ runs = [k \in Timers |-> 0]
    /\ kept = [k \in Timers |-> 0]
    /\ blind = FALSE
    /\ faults = 0

Fault == faults < MaxFaults /\ faults' = faults + 1

-----------------------------------------------------------------------------
(* add_timer_task.                                                         *)

Opens(k) ==
    /\ add[k] = "idle"
    /\ file' = [file EXCEPT ![k] = "partial"]
    /\ add' = [add EXCEPT ![k] = "dump"]
    /\ UNCHANGED <<now, due, since, del, lastAdd, needFast, loop, counts>>

Writes(k) ==
    /\ add[k] = "dump"
    /\ file' = [file EXCEPT ![k] = "whole"]
    /\ since' = [since EXCEPT ![k] = now]
    /\ add' = [add EXCEPT ![k] = "flag"]
    /\ UNCHANGED <<now, due, del, lastAdd, needFast, loop, counts>>

\* The file stays behind as it is.
WriteFails(k) ==
    /\ add[k] = "dump"
    /\ Fault
    /\ add' = [add EXCEPT ![k] = "failed"]
    /\ UNCHANGED <<now, file, due, since, del, lastAdd, needFast, loop, runs, kept>>

AsksFastScan(k) ==
    /\ add[k] = "flag"
    /\ needFast' = TRUE
    /\ add' = [add EXCEPT ![k] = "stamp"]
    /\ UNCHANGED <<now, file, due, since, del, lastAdd, loop, counts>>

Stamps(k) ==
    /\ add[k] = "stamp"
    /\ lastAdd' = now
    /\ add' = [add EXCEPT ![k] = "done"]
    /\ UNCHANGED <<now, file, due, since, del, needFast, loop, counts>>

-----------------------------------------------------------------------------
(* delete_user_task: a search that the first file that cannot be read, or  *)
(* that goes away meanwhile, ends with an error, and the removal.          *)

Disturbed(k) == Unreadable # {} \/ scan = "remove" \/ \E j \in Timers \ {k} : del[j] = "remove"

Searches(k) ==
    /\ del[k] = "idle"
    /\ add[k] \notin {"idle", "dump"}
    /\ \/ /\ file[k] = "whole"
          /\ del' = [del EXCEPT ![k] = "remove"]
       \/ /\ file[k] # "whole" \/ Disturbed(k)
          /\ del' = [del EXCEPT ![k] = "refused"]
    /\ UNCHANGED <<now, file, due, since, add, lastAdd, needFast, loop, counts>>

Deletes(k) ==
    /\ del[k] = "remove"
    /\ file' = [file EXCEPT ![k] = "none"]
    /\ del' = [del EXCEPT ![k] = IF file[k] = "none" THEN "refused" ELSE "deleted"]
    /\ UNCHANGED <<now, due, since, add, lastAdd, needFast, loop, counts>>

-----------------------------------------------------------------------------
(* timer_scan_loop.                                                        *)

StartScan ==
    /\ scan = "sleep" /\ now >= wake
    /\ IF needFast
       THEN /\ interval' = Fast /\ blind' = FALSE
            /\ scan' = IF now - lastAdd > Recent THEN "reset" ELSE "list"
            /\ UNCHANGED todo
       ELSE /\ todo' = Present    \* the listing of has_nearby_task
            /\ scan' = "near"
            /\ UNCHANGED <<interval, blind>>
    /\ UNCHANGED <<now, file, users, needFast, cur, wake, counts>>

\* Mutant: only timers that are due count as near.
IsDue(k) == due[k] <= now

IsNear(k) == due[k] <= now + Near

\* What has_nearby_task leads to.
Chooses(length, gaveUp) ==
    /\ interval' = length /\ blind' = gaveUp
    /\ todo' = {}
    /\ scan' = "list"

\* has_nearby_task opens one file after the other.  The first near one decides, and so
\* does the first that cannot be read or that has been deleted since the listing: the
\* exception makes it False, whatever the files after it are.
CheckNearby ==
    /\ scan = "near"
    /\ \/ \E k \in todo : file[k] = "whole" /\ IsNear(k) /\ Chooses(Fast, FALSE)
       \/ /\ \E k \in todo : file[k] = "whole" /\ ~ IsNear(k) /\ todo' = todo \ {k}
          /\ UNCHANGED <<interval, scan, blind>>
       \/ \E k \in todo : file[k] # "whole" /\ Chooses(Slow, TRUE)
       \/ todo = {} /\ Chooses(Slow, FALSE)
    /\ UNCHANGED <<now, file, users, needFast, cur, wake, counts>>

\* NEED_FAST_SCAN = False, decided on what the two variables were before.
ResetFlag ==
    /\ scan = "reset"
    /\ needFast' = FALSE
    /\ scan' = "list"
    /\ UNCHANGED <<now, file, users, interval, todo, cur, wake, blind, counts>>

ListFiles ==
    /\ scan = "list"
    /\ todo' = Present
    /\ scan' = "load"
    /\ UNCHANGED <<now, file, users, needFast, interval, cur, wake, blind, counts>>

\* Mutant: the listing is trusted, the file is not read.
ListedAndDue(k) == due[k] <= now

\* Mutant: a timer of the next moment is executed as well.
DueSoon(k) == file[k] = "whole" /\ due[k] <= now + 1

\* json.load(f), and now >= trigger_time
ReadableAndDue(k) == file[k] = "whole" /\ due[k] <= now

LoadFile ==
    /\ scan = "load"
    /\ \E k \in todo :
        /\ todo' = todo \ {k}
        /\ IF ReadableAndDue(k)
           THEN cur' = k /\ scan' = "execute"
           ELSE UNCHANGED <<cur, scan>>
    /\ UNCHANGED <<now, file, users, needFast, interval, wake, blind, counts>>

Runs == runs' = [runs EXCEPT ![cur] = @ + 1]

\* submit_task, whose answer is not looked at, or the publication of a message.
Execute ==
    /\ scan = "execute"
    /\ Runs
    /\ scan' = "remove"
    /\ UNCHANGED <<now, file, users, needFast, interval, todo, cur, wake, blind, kept, faults>>

\* Execution or removal raises: the file stays.
FileStays ==
    /\ scan \in {"execute", "remove"}
    /\ Fault
    /\ kept' = [kept EXCEPT ![cur] = @ + 1]
    /\ IF scan = "execute" THEN Runs ELSE UNCHANGED runs
    /\ scan' = "load" /\ cur' = NoTimer
    /\ UNCHANGED <<now, file, users, needFast, interval, todo, wake, blind>>

\* submit_task waits for ever for a lock its own thread holds.
ExecuteHangs ==
    /\ scan = "execute"
    /\ Fault
    /\ Runs
    /\ scan' = "hung"
    /\ UNCHANGED <<now, file, users, needFast, interval, todo, cur, wake, blind, kept>>

\* Mutant: the file of a timer that fired is kept.
KeepFile(k) == file

WithoutFile(k) == [file EXCEPT ![k] = "none"]

\* os.remove(path); a file its user has removed meanwhile is no harm.
RemoveFile ==
    /\ scan = "remove"
    /\ file' = WithoutFile(cur)
    /\ scan' = "load" /\ cur' = NoTimer
    /\ UNCHANGED <<now, users, needFast, interval, todo, wake, blind, counts>>

EndScan ==
    /\ scan = "load" /\ todo = {}
    /\ scan' = "sleep" /\ wake' = now + interval
    /\ UNCHANGED <<now, file, users, needFast, interval, todo, cur, blind, counts>>

-----------------------------------------------------------------------------
\* The process is restarted: threads and global variables begin anew.
Restart ==
    /\ Fault
    /\ scan' = "sleep" /\ wake' = now
    /\ kept' = IF scan \in {"remove", "hung"} THEN [kept EXCEPT ![cur] = @ + 1] ELSE kept
    /\ cur' = NoTimer
    /\ todo' = {}
    /\ interval' = Fast
    /\ needFast' = FALSE /\ lastAdd' = Never
    /\ add' = [k \in Timers |-> CASE add[k] = "dump" -> "failed"
                                  [] add[k] \in {"flag", "stamp"} -> "done"
                                  [] OTHER -> add[k]]
    /\ del' = [k \in Timers |-> IF del[k] = "remove" THEN "refused" ELSE del[k]]
    /\ UNCHANGED <<now, file, due, since, blind, runs>>

Tick ==
    /\ now < MaxTime
    /\ scan = "hung" \/ (scan = "sleep" /\ now < wake)
    /\ now' = now + 1
    /\ UNCHANGED <<file, users, needFast, loop, counts>>

User(k) == \/ Opens(k) \/ Writes(k) \/ WriteFails(k) \/ AsksFastScan(k) \/ Stamps(k)
           \/ Searches(k) \/ Deletes(k)

Scan == \/ StartScan \/ CheckNearby \/ ResetFlag \/ ListFiles \/ LoadFile \/ Execute \/ FileStays
        \/ ExecuteHangs \/ RemoveFile \/ EndScan

Next == (\E k \in Timers : User(k)) \/ Scan \/ Restart \/ Tick

Spec == Init /\ [][Next]_vars

-----------------------------------------------------------------------------
TypeOK ==
    /\ now \in 0..MaxTime
    /\ file \in [Timers -> {"none", "partial", "whole"}]
    /\ due \in [Timers -> Triggers]
    /\ since \in [Timers -> 0..MaxTime]
    /\ add \in [Timers -> {"idle", "dump", "flag", "stamp", "done", "failed"}]
    /\ del \in [Timers -> {"idle", "remove", "deleted", "refused"}]
    /\ needFast \in BOOLEAN
    /\ lastAdd \in {Never} \cup 0..MaxTime
    /\ interval \in {Fast, Slow}
    /\ scan \in {"near", "reset", "list", "load", "execute", "remove", "sleep", "hung"}
    /\ todo \subseteq Timers
    /\ cur \in Timers \cup {NoTimer}
    /\ scan \in {"execute", "remove", "hung"} => cur \in Timers
    /\ wake \in 0..(MaxTime + Slow)
    /\ runs \in [Timers -> 0..(1 + MaxFaults)]
    /\ kept \in [Timers -> 0..MaxFaults]
    /\ blind \in BOOLEAN
    /\ faults \in 0..MaxFaults

\* A timer is executed once, and once more for every failure that came between its
\* execution and the removal of its file (a restart, a removal that failed, an exception
\* after the task was accepted), never for the interleaving of scans and users.
FiresOnce == \A k \in Timers : runs[k] <= 1 + kept[k]

\* A timer whose deletion was answered with success is not executed afterwards, unless
\* the scan had it in its hands already.
DeletedStaysQuiet ==
    [][\A k \in Timers : cur' = k /\ cur # k => del[k] # "deleted"]_vars

\* No timer is forgotten: a file that was complete disappears because its user deleted
\* it or after it was executed at or after its trigger time, restarts included.
NoneForgotten ==
    \A k \in Timers :
        /\ (add[k] \in {"flag", "stamp", "done"} /\ file[k] = "none") =>
               runs[k] > 0 \/ del[k] = "deleted"
        /\ runs[k] > 0 => due[k] <= now

\* How late a timer may be: while the thread sleeps, the next scan comes within a slow
\* interval of the trigger time or of the addition, and within a fast one of the trigger
\* time if the file was there a slow interval before it, unless has_nearby_task gave up
\* at a file that it could not read or that its user deleted meanwhile.
Prompt ==
    \A k \in Timers : (file[k] = "whole" /\ runs[k] = 0 /\ scan = "sleep" /\ now < wake) =>
        /\ wake < due[k] + Slow \/ wake <= since[k] + Slow
        /\ since[k] + Slow <= due[k] /\ ~ blind => wake < due[k] + Fast
=============================================================================
