---------------------------- MODULE SkillRuntime ----------------------------
(***************************************************************************)
(* Skills of tool-runtime-service, shared by all users: a folder, written  *)
(* by the clawhub command on an external machine, and an entry of the      *)
(* OpenViking knowledge base.                                              *)
(*   tool-runtime-service/app/skill_runtime.py                             *)
(*                                                                         *)
(* One skill and the gRPC workers that serve calls for it.  Folder and     *)
(* entry hold a version of the skill, 0 for none; a command that has not   *)
(* ended, or has failed, may leave a folder without its SKILL.md.  A       *)
(* worker that gives up an ssh command, or loses the connection, leaves    *)
(* the command at the other end running; a request to the knowledge base   *)
(* whose worker has given up may still be carried out.                     *)
(***************************************************************************)
EXTENDS Integers, FiniteSets

CONSTANTS
    Workers, NoWorker,
    Scripted,      \* versions with a script that run_skill can execute
    MaxVersion,    \* bound: versions the registry gets to
    MaxCalls,      \* bound: calls of all workers
    MaxFaults      \* bound: failures and timeouts

ASSUME SkillAssumption ==
    /\ NoWorker \notin Workers
    /\ {MaxVersion, MaxCalls, MaxFaults} \subseteq Nat
    /\ MaxVersion > 0
    /\ Scripted \subseteq 1..MaxVersion

Calls == {"install", "add", "delete", "run", "overview"}
Commands == {"install", "uninstall"}
Torn == -1                  \* a folder that has lost its SKILL.md
Versions == 0..MaxVersion

VARIABLES
    latest,     \* version in the registry (external)
    folder,     \* version in SKILL_ROOT_DIR
    entry,      \* version under viking://agent/skills/
    at,         \* place of a worker
    op,         \* call it serves
    loaded,     \* version add_skill has read from the folder
    astray,     \* commands that go on without their worker
    late,       \* requests under way without theirs: imports of v, removals (0)
    made,       \* history: version that the command of an installation left, or 0
    kept,       \* the rm of the deletion failed
    answer,     \* of the last call of a worker
    alone,      \* the worker whose change has had no other beside it
    sound,      \* history: none of what may part folder and entry has happened
    calls, faults

held == <<folder, entry, astray, late>>
counts == <<calls, faults>>
skillVars == <<latest, held, at, op, loaded, made, kept, answer, alone, sound, counts>>

SkillInit ==
    /\ latest = 1
    /\ folder = 0 /\ entry = 0
    /\ at = [w \in Workers |-> "idle"]
    /\ op = [w \in Workers |-> "overview"]
    /\ loaded = [w \in Workers |-> 0]
    /\ astray = [c \in Commands |-> 0]
    /\ late = [v \in Versions |-> 0]
    /\ made = [w \in Workers |-> 0]
    /\ kept = [w \in Workers |-> FALSE]
    /\ answer = [w \in Workers |-> "none"]
    /\ alone = NoWorker
    /\ sound = TRUE
    /\ calls = 0 /\ faults = 0

Changes == {"install", "add", "delete"}
Changing == {w \in Workers : at[w] # "idle" /\ op[w] \in Changes}
Undisturbed ==
    /\ Changing = {}
    /\ \A c \in Commands : astray[c] = 0
    /\ \A v \in Versions : late[v] = 0
Fault == faults < MaxFaults /\ faults' = faults + 1
Goes(w, place) == at' = [at EXCEPT ![w] = place] /\ UNCHANGED answer
Answers(w, text) == at' = [at EXCEPT ![w] = "idle"] /\ answer' = [answer EXCEPT ![w] = text]

\* A change that met no other and whose steps came through leaves folder and entry
\* in agreement.
Completes(w) ==
    /\ Answers(w, "done")
    /\ sound' = \/ sound
                \/ alone = w /\ ~ kept[w] /\ (op[w] = "install" => made[w] # 0)

-----------------------------------------------------------------------------
\* Mutant: a deletion leaves the entry to clawhub.
FolderOnly(o) ==
    CASE o = "install" -> "clawhub" [] o = "add" -> "find"
      [] o = "delete" -> "clawhub" [] o = "run" -> "script" [] o = "overview" -> "read"

FirstStep(o) ==
    CASE o = "install" -> "clawhub" [] o = "add" -> "find"
      [] o = "delete" -> "rm" [] o = "run" -> "script" [] o = "overview" -> "read"

\* dispatch.
Dispatch(w, o) ==
    /\ at[w] = "idle" /\ calls < MaxCalls
    /\ calls' = calls + 1
    /\ op' = [op EXCEPT ![w] = o]
    /\ Goes(w, FirstStep(o))
    /\ IF o \in Changes
       THEN /\ alone' = IF Undisturbed THEN w ELSE NoWorker
            /\ sound' = (sound /\ Undisturbed)
            /\ kept' = [kept EXCEPT ![w] = FALSE]
            /\ made' = [made EXCEPT ![w] = 0]
       ELSE UNCHANGED <<alone, sound, kept, made>>
    /\ UNCHANGED <<latest, held, loaded, faults>>

(* _run_clawhub, for clawhub_install and skill_delete.                     *)
Command(w) == IF op[w] = "install" THEN "install" ELSE "uninstall"
AfterCommand(w) == IF op[w] = "install" THEN "find" ELSE "look"

\* Mutant: a version that is not out yet.
NotYetOut(c) == IF c = "install" THEN latest + 1 ELSE 0

Result(c) == IF c = "install" THEN latest ELSE 0

\* A command at work: it removes the folder of an earlier version, or takes it apart.
Halfway(c) == IF c = "uninstall" /\ folder = 0 THEN {0} ELSE {0, Torn}
Outcomes(c) == {folder, Result(c)} \cup Halfway(c)

Runs(c) == astray[c] > 0 \/ \E w \in Workers : at[w] = "clawhub" /\ Command(w) = c

CommandWrites(c) ==
    /\ Runs(c)
    /\ folder' \in Halfway(c)
    /\ UNCHANGED <<latest, entry, astray, late, at, op, loaded, made, kept, answer,
                   alone, sound, counts>>

Clawhub(w) ==
    /\ at[w] = "clawhub"
    /\ folder' = Result(Command(w))
    /\ made' = [made EXCEPT ![w] = Result(Command(w))]
    /\ Goes(w, AfterCommand(w))
    /\ UNCHANGED <<latest, entry, astray, late, op, loaded, kept, alone, sound, counts>>

\* The exit status becomes text of the answer and nothing else, be it that of the
\* command or of an ssh client that has lost the connection.
ClawhubFails(w) ==
    /\ at[w] = "clawhub" /\ Fault
    /\ \/ folder' \in Outcomes(Command(w)) /\ UNCHANGED astray
       \/ astray' = [astray EXCEPT ![Command(w)] = @ + 1] /\ UNCHANGED folder
    /\ sound' = (sound /\ op[w] # "install")
    /\ Goes(w, AfterCommand(w))
    /\ UNCHANGED <<latest, entry, late, op, loaded, made, kept, alone, calls>>

\* TimeoutExpired leaves the whole call.
ClawhubTimesOut(w) ==
    /\ at[w] = "clawhub" /\ Fault
    /\ astray' = [astray EXCEPT ![Command(w)] = @ + 1]
    /\ sound' = (sound /\ op[w] # "install")
    /\ Answers(w, "error")
    /\ UNCHANGED <<latest, folder, entry, late, op, loaded, made, kept, alone, calls>>

StrayEnds(c) ==
    /\ astray[c] > 0
    /\ astray' = [astray EXCEPT ![c] = @ - 1]
    /\ folder' \in Outcomes(c)
    /\ UNCHANGED <<latest, entry, late, at, op, loaded, made, kept, answer, alone, sound,
                   counts>>

(* add_skill_to_viking.                                                    *)
\* Mutant: a failed import is taken for a success.
Unnoticed(w) == "done"

Refusal(w) == IF op[w] = "install" THEN "warning" ELSE "refused"

Find(w) ==
    /\ at[w] = "find"
    /\ IF folder > 0 THEN Goes(w, "load") ELSE Answers(w, Refusal(w))
    /\ UNCHANGED <<latest, held, op, loaded, made, kept, alone, sound, counts>>

Load(w) ==
    /\ at[w] = "load"
    /\ IF folder > 0
       THEN loaded' = [loaded EXCEPT ![w] = folder] /\ Goes(w, "store")
       ELSE Answers(w, Refusal(w)) /\ UNCHANGED loaded
    /\ UNCHANGED <<latest, held, op, made, kept, alone, sound, counts>>

Store(w) ==
    /\ at[w] = "store"
    /\ entry' = loaded[w]
    /\ Completes(w)
    /\ UNCHANGED <<latest, folder, astray, late, op, loaded, made, kept, alone, counts>>

\* The request or its response is lost, or comes too late for the worker.
Late(v) ==
    \/ entry' \in {entry, v} /\ UNCHANGED late
    \/ late' = [late EXCEPT ![v] = @ + 1] /\ UNCHANGED entry

LateLands(v) ==
    /\ late[v] > 0
    /\ late' = [late EXCEPT ![v] = @ - 1]
    /\ entry' \in {entry, v}
    /\ UNCHANGED <<latest, folder, astray, at, op, loaded, made, kept, answer, alone,
                   sound, counts>>

StoreFails(w) ==
    /\ at[w] = "store" /\ Fault
    /\ Late(loaded[w])
    /\ Answers(w, Refusal(w))
    /\ UNCHANGED <<latest, folder, astray, op, loaded, made, kept, alone, sound, calls>>

(* skill_delete.                                                           *)
RemoveEntry(w) ==
    /\ at[w] = "rm"
    /\ entry' = 0
    /\ Goes(w, "clawhub")
    /\ UNCHANGED <<latest, folder, astray, late, op, loaded, made, kept, alone, sound,
                   counts>>

\* Any exception is swallowed.
RemoveEntryFails(w) ==
    /\ at[w] = "rm" /\ Fault
    /\ Late(0)
    /\ kept' = [kept EXCEPT ![w] = TRUE]
    /\ sound' = FALSE
    /\ Goes(w, "clawhub")
    /\ UNCHANGED <<latest, folder, astray, op, loaded, made, alone, calls>>

LookForFolder(w) ==
    /\ at[w] = "look"
    /\ IF folder = 0 THEN Completes(w) ELSE Goes(w, "rmtree") /\ UNCHANGED sound
    /\ UNCHANGED <<latest, held, op, loaded, made, kept, alone, counts>>

\* FileNotFoundError if it has gone meanwhile.
RemoveFolder(w) ==
    /\ at[w] = "rmtree"
    /\ folder' = 0
    /\ IF folder = 0 THEN Answers(w, "error") /\ UNCHANGED sound ELSE Completes(w)
    /\ UNCHANGED <<latest, entry, astray, late, op, loaded, made, kept, alone, counts>>

RemoveFolderFails(w) ==
    /\ at[w] = "rmtree" /\ Fault
    /\ folder' \in Outcomes("uninstall")
    /\ Answers(w, "error")
    /\ UNCHANGED <<latest, entry, astray, late, op, loaded, made, kept, alone, sound, calls>>

(* run_skill, skill_overview and the other reads.                          *)
FindScript(w) ==
    /\ at[w] = "script"
    /\ \/ folder \in Scripted \cup {Torn} /\ Goes(w, "execute")
       \/ folder \notin Scripted /\ Goes(w, "read")
    /\ UNCHANGED <<latest, held, op, loaded, made, kept, alone, sound, counts>>

\* Without its directory the script cannot be started.
Execute(w) ==
    /\ at[w] = "execute"
    /\ Answers(w, IF folder = 0 THEN "error" ELSE "done")
    /\ UNCHANGED <<latest, held, op, loaded, made, kept, alone, sound, counts>>

ReadEntry(w) ==
    /\ at[w] = "read"
    /\ Answers(w, IF entry = 0 THEN "unknown" ELSE "text")
    /\ UNCHANGED <<latest, held, op, loaded, made, kept, alone, sound, counts>>

ReadEntryFails(w) ==
    /\ at[w] = "read" /\ Fault
    /\ Answers(w, "unknown")
    /\ UNCHANGED <<latest, held, op, loaded, made, kept, alone, sound, calls>>

\* A new version is published in the registry.
Publish ==
    /\ latest < MaxVersion
    /\ latest' = latest + 1
    /\ UNCHANGED <<held, at, op, loaded, made, kept, answer, alone, sound, counts>>

SkillStep(w) ==
    \/ Clawhub(w) \/ ClawhubFails(w) \/ ClawhubTimesOut(w)
    \/ Find(w) \/ Load(w) \/ Store(w) \/ StoreFails(w)
    \/ RemoveEntry(w) \/ RemoveEntryFails(w)
    \/ LookForFolder(w) \/ RemoveFolder(w) \/ RemoveFolderFails(w)
    \/ FindScript(w) \/ Execute(w) \/ ReadEntry(w) \/ ReadEntryFails(w)

SkillNext ==
    \/ \E w \in Workers : (\E o \in Calls : Dispatch(w, o)) \/ SkillStep(w)
    \/ \E c \in Commands : CommandWrites(c) \/ StrayEnds(c)
    \/ \E v \in Versions : LateLands(v)
    \/ Publish

SkillSpec == SkillInit /\ [][SkillNext]_skillVars

-----------------------------------------------------------------------------
SkillTypeOK ==
    /\ latest \in 1..MaxVersion
    /\ folder \in 0..latest \cup {Torn} /\ entry \in 0..latest
    /\ at \in [Workers -> {"idle", "clawhub", "find", "load", "store", "rm", "look",
                            "rmtree", "script", "execute", "read"}]
    /\ op \in [Workers -> Calls]
    /\ loaded \in [Workers -> 0..latest]
    /\ made \in [Workers -> 0..latest]
    /\ astray \in [Commands -> 0..faults]
    /\ late \in [Versions -> 0..faults]
    /\ \A v \in Versions : late[v] > 0 => v <= latest
    /\ kept \in [Workers -> BOOLEAN]
    /\ answer \in [Workers -> {"none", "done", "warning", "refused", "error", "unknown", "text"}]
    /\ alone \in Workers \cup {NoWorker}
    /\ sound \in BOOLEAN
    /\ calls \in 0..MaxCalls /\ faults \in 0..MaxFaults

\* At every moment a skill that the knowledge base knows has a folder it can be read
\* and executed from, except while an installation of it is at work, and except after
\* one of these until a change comes through alone: changes of the skill have met, a
\* command or a request that its worker has given up being one; the removal of an
\* entry failed and was swallowed; the command of an installation failed or was given
\* up.
Installing == \E w \in Workers : at[w] = "clawhub" /\ op[w] = "install"
IndexedMeansInstalled == (sound /\ entry # 0 /\ ~ Installing) => folder > 0

\* What a call answers is true if it had the skill to itself: an import reported as done
\* leaves the version of the folder in the knowledge base; an installation so reported
\* leaves the version that its command fetched in both, unless the command failed,
\* which the answer says further down; a deletion reported as complete leaves no folder,
\* and no entry unless the swallowed failure is what kept it.
HonestAnswers ==
    [][\A w \in Workers :
           (at[w] # "idle" /\ at'[w] = "idle" /\ alone = w /\ answer'[w] = "done") =>
               /\ op[w] = "add" => entry' = folder' /\ folder' > 0
               /\ (op[w] = "install" /\ made[w] # 0) => entry' = made[w] /\ folder' = made[w]
               /\ op[w] = "delete" => folder' = 0 /\ (kept[w] \/ entry' = 0)]_skillVars
=============================================================================
