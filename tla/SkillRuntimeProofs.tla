------------------------- MODULE SkillRuntimeProofs -------------------------
(***************************************************************************)
(* A skill that is known can be executed, and the answers about it are     *)
(* true, for any number of workers, calls and failures.  The argument: as  *)
(* long as the state is sound, a change in progress has the skill to       *)
(* itself, and then what it has found still holds at its next step: the    *)
(* only commands and requests that may be under way beside it are those it *)
(* has given up itself, and Alone and Strays say what is left for them.    *)
(***************************************************************************)
EXTENDS SkillRuntime, TLAPS

\* The places of each call.
PlacesFit ==
    \A w \in Workers :
        /\ at[w] = "clawhub" => op[w] \in {"install", "delete"} /\ made[w] = 0
        /\ at[w] \in {"find", "load", "store"} => op[w] \in {"install", "add"}
        /\ at[w] \in {"rm", "look", "rmtree"} => op[w] = "delete" /\ made[w] = 0
        /\ at[w] \in {"script", "execute", "read"} => op[w] \in {"run", "overview"}

Kept ==
    \A w \in Changing :
        /\ op[w] # "delete" => ~ kept[w]
        /\ sound => /\ alone = w /\ ~ kept[w]
                    /\ at[w] \in {"find", "load", "store"} /\ op[w] = "install" => made[w] # 0

\* A change that is alone has met no other, and what has gone astray is its own.
Alone ==
    \A w \in Changing : alone = w =>
        /\ \A u \in Changing : u = w
        /\ astray["install"] > 0 =>
               at[w] \in {"find", "load", "store"} /\ op[w] = "install" /\ made[w] = 0
        /\ astray["uninstall"] > 0 => at[w] \in {"look", "rmtree"}
        /\ \A v \in Versions : late[v] > 0 =>
               v = 0 /\ at[w] \in {"clawhub", "look", "rmtree"} /\ op[w] = "delete" /\ kept[w]

Finds ==
    \A w \in Changing : alone = w =>
        /\ at[w] = "load" /\ op[w] = "add" => folder > 0
        /\ at[w] = "store" /\ op[w] = "add" => folder > 0 /\ loaded[w] = folder
        /\ at[w] \in {"find", "load", "store"} /\ op[w] = "install" /\ made[w] # 0 =>
               folder = made[w]
        /\ at[w] = "store" /\ op[w] = "install" /\ made[w] # 0 => loaded[w] = folder
        /\ at[w] \in {"clawhub", "look", "rmtree"} /\ op[w] = "delete" =>
               kept[w] \/ entry = 0

\* What may still happen of itself leaves a sound state sound.
Strays == sound =>
    /\ astray["install"] = 0
    /\ astray["uninstall"] > 0 => entry = 0 /\ \A v \in Versions : late[v] = 0
    /\ \A v \in Versions : late[v] > 0 => folder > 0 /\ Changing = {}

SkillInv ==
    /\ SkillTypeOK /\ PlacesFit /\ Kept /\ Alone /\ Finds /\ Strays
    /\ IndexedMeansInstalled

USE SkillAssumption

-----------------------------------------------------------------------------
LEMMA InitType == SkillInit => SkillTypeOK
BY DEF SkillInit, SkillTypeOK, Calls, Commands, Versions

LEMMA HalfwayType == ASSUME SkillTypeOK, NEW c \in Commands
                     PROVE  /\ Result(c) \in 0..latest
                            /\ Halfway(c) \subseteq {0, Torn}
                            /\ Outcomes(c) \subseteq 0..latest \cup {Torn}
BY DEF SkillTypeOK, Result, Halfway, Outcomes

LEMMA LateType ==
    ASSUME SkillTypeOK, NEW v \in 0..latest, Late(v), faults' = faults + 1
    PROVE  /\ late' \in [Versions -> 0..faults']
           /\ \A u \in Versions : late'[u] > 0 => u <= latest
           /\ entry' \in 0..latest
<1> USE DEF SkillTypeOK
<1>1. v \in Versions BY DEF Versions
<1>2. CASE entry' \in {entry, v} /\ UNCHANGED late BY <1>2
<1>3. CASE late' = [late EXCEPT ![v] = @ + 1] /\ UNCHANGED entry
  <2>1. late'[v] = late[v] + 1 /\ \A u \in Versions : u # v => late'[u] = late[u]
    BY <1>1, <1>3
  <2> QED BY <1>1, <1>3, <2>1
<1> QED BY <1>2, <1>3 DEF Late

LEMMA StepType ==
    ASSUME SkillTypeOK, PlacesFit, [SkillNext]_skillVars PROVE SkillTypeOK'
<1> USE DEF SkillTypeOK, held, counts, Goes, Answers, Completes, Fault
<1>1. ASSUME NEW w \in Workers, NEW o \in Calls, Dispatch(w, o) PROVE SkillTypeOK'
  <2>1. FirstStep(o) \in {"clawhub", "find", "rm", "script", "read"} BY DEF FirstStep, Calls
  <2>2. alone' \in Workers \cup {NoWorker} BY <1>1 DEF Dispatch
  <2>3. sound' \in BOOLEAN BY <1>1, Zenon DEF Dispatch
  <2>4. kept' \in [Workers -> BOOLEAN] BY <1>1, Zenon DEF Dispatch
  <2>5. UNCHANGED <<latest, folder, entry, astray, late, loaded, faults, answer>>
    BY <1>1 DEF Dispatch
  <2>6. /\ calls' \in 0..MaxCalls
        /\ op' \in [Workers -> Calls]
        /\ at' = [at EXCEPT ![w] = FirstStep(o)]
        /\ made' \in [Workers -> 0..latest]
    BY <1>1 DEF Dispatch
  <2> QED BY <2>1, <2>2, <2>3, <2>4, <2>5, <2>6
<1>2. ASSUME NEW w \in Workers, Clawhub(w) \/ ClawhubFails(w) \/ ClawhubTimesOut(w)
      PROVE  SkillTypeOK'
  <2>1. Command(w) \in Commands /\ AfterCommand(w) \in {"find", "look"}
    BY DEF Command, AfterCommand, Commands
  <2>2. sound' \in BOOLEAN BY <1>2, Zenon DEF Clawhub, ClawhubFails, ClawhubTimesOut
  <2>3. folder' \in 0..latest \cup {Torn} /\ Result(Command(w)) \in 0..latest
    BY <1>2, <2>1, HalfwayType DEF Clawhub, ClawhubFails, ClawhubTimesOut
  <2>4. /\ UNCHANGED <<latest, entry, late, op, loaded, kept, alone, calls>>
        /\ made' = made \/ made' = [made EXCEPT ![w] = Result(Command(w))]
        /\ \/ at' = [at EXCEPT ![w] = AfterCommand(w)] /\ answer' = answer
           \/ at' = [at EXCEPT ![w] = "idle"] /\ answer' = [answer EXCEPT ![w] = "error"]
    BY <1>2 DEF Clawhub, ClawhubFails, ClawhubTimesOut
  <2>5. faults' \in {faults, faults + 1} /\ faults' \in 0..MaxFaults
    BY <1>2 DEF Clawhub, ClawhubFails, ClawhubTimesOut
  <2>6. \/ astray' = astray
        \/ astray' = [astray EXCEPT ![Command(w)] = @ + 1] /\ faults' = faults + 1
    BY <1>2 DEF Clawhub, ClawhubFails, ClawhubTimesOut
  <2>7. astray' \in [Commands -> 0..faults'] BY <2>1, <2>5, <2>6
  <2>8. /\ late' \in [Versions -> 0..faults']
        /\ \A v \in Versions : late'[v] > 0 => v <= latest
    BY <2>4, <2>5
  <2> QED BY <2>1, <2>2, <2>3, <2>4, <2>5, <2>7, <2>8
<1>4. ASSUME NEW w \in Workers, Find(w) \/ Load(w) \/ Store(w) \/ StoreFails(w)
      PROVE  SkillTypeOK'
  <2>1. sound' \in BOOLEAN BY <1>4, Zenon DEF Find, Load, Store, StoreFails
  <2>2. CASE Find(w) \/ Load(w)
    <3>1. loaded' \in [Workers -> 0..latest] BY <2>2 DEF Find, Load, Torn
    <3>2. /\ at' \in [Workers -> {"idle", "clawhub", "find", "load", "store", "rm", "look",
                                  "rmtree", "script", "execute", "read"}]
          /\ answer' \in [Workers -> {"none", "done", "warning", "refused", "error",
                                      "unknown", "text"}]
      BY <2>2 DEF Find, Load, Refusal
    <3>3. UNCHANGED <<latest, folder, entry, astray, late, op, made, kept, alone, sound,
                      calls, faults>>
      BY <2>2 DEF Find, Load
    <3> QED BY <3>1, <3>2, <3>3
  <2>3. CASE StoreFails(w)
    <3>1. /\ entry' \in 0..latest /\ late' \in [Versions -> 0..faults']
          /\ \A v \in Versions : late'[v] > 0 => v <= latest
      BY <2>3, LateType DEF StoreFails
    <3> QED BY <2>1, <2>3, <3>1 DEF StoreFails, Refusal
  <2>4. CASE Store(w)
    <3>1. /\ entry' = loaded[w] /\ at' = [at EXCEPT ![w] = "idle"]
          /\ answer' = [answer EXCEPT ![w] = "done"]
          /\ UNCHANGED <<latest, folder, astray, late, op, loaded, made, kept, alone,
                         calls, faults>>
      BY <2>4 DEF Store
    <3> QED BY <2>1, <3>1
  <2> QED BY <1>4, <2>2, <2>3, <2>4
<1>5. ASSUME NEW w \in Workers, RemoveEntry(w) \/ RemoveEntryFails(w) \/ LookForFolder(w)
                                \/ RemoveFolder(w) \/ RemoveFolderFails(w)
      PROVE  SkillTypeOK'
  <2>1. sound' \in BOOLEAN
    BY <1>5, Zenon DEF RemoveEntry, RemoveEntryFails, LookForFolder, RemoveFolder, RemoveFolderFails
  <2>2. CASE RemoveEntry(w) BY <2>1, <2>2 DEF RemoveEntry
  <2>3. CASE RemoveEntryFails(w)
    <3>1. kept' \in [Workers -> BOOLEAN] BY <2>3, Zenon DEF RemoveEntryFails
    <3>2. UNCHANGED <<latest, folder, astray, loaded, made, op, alone, answer, calls>>
      BY <2>3 DEF RemoveEntryFails
    <3>3. /\ entry' \in 0..latest /\ late' \in [Versions -> 0..faults']
          /\ \A v \in Versions : late'[v] > 0 => v <= latest
      BY <2>3, LateType DEF RemoveEntryFails
    <3>4. at' = [at EXCEPT ![w] = "clawhub"] /\ faults' = faults + 1 /\ faults' \in 0..MaxFaults
      BY <2>3 DEF RemoveEntryFails
    <3> QED BY <2>1, <3>1, <3>2, <3>3, <3>4
  <2>4. CASE LookForFolder(w) BY <2>1, <2>4 DEF LookForFolder
  <2>5. CASE RemoveFolder(w)
    <3>1. /\ folder' = 0 /\ at' = [at EXCEPT ![w] = "idle"]
          /\ \E text \in {"error", "done"} : answer' = [answer EXCEPT ![w] = text]
          /\ UNCHANGED <<latest, entry, astray, late, op, loaded, made, kept, alone,
                         calls, faults>>
      BY <2>5 DEF RemoveFolder
    <3> QED BY <2>1, <3>1
  <2>6. CASE RemoveFolderFails(w)
    <3>1. folder' \in 0..latest \cup {Torn}
      BY <2>6, HalfwayType DEF RemoveFolderFails, Commands
    <3> QED BY <2>1, <2>6, <3>1 DEF RemoveFolderFails
  <2> QED BY <1>5, <2>2, <2>3, <2>4, <2>5, <2>6
<1>6. ASSUME NEW w \in Workers, FindScript(w) \/ Execute(w) \/ ReadEntry(w) \/ ReadEntryFails(w)
      PROVE  SkillTypeOK'
  BY <1>6 DEF FindScript, Execute, ReadEntry, ReadEntryFails
<1>7. ASSUME NEW c \in Commands, CommandWrites(c) \/ StrayEnds(c) PROVE SkillTypeOK'
  <2>1. folder' \in 0..latest \cup {Torn} BY <1>7, HalfwayType DEF CommandWrites, StrayEnds
  <2>2. astray' \in [Commands -> 0..faults] BY <1>7 DEF CommandWrites, StrayEnds
  <2> QED BY <1>7, <2>1, <2>2 DEF CommandWrites, StrayEnds
<1>8. ASSUME NEW v \in Versions, LateLands(v) PROVE SkillTypeOK'
  <2>1. late' \in [Versions -> 0..faults] BY <1>8 DEF LateLands
  <2>2. v \in 0..latest BY <1>8 DEF LateLands, Versions
  <2>3. \A u \in Versions : late'[u] > 0 => u <= latest BY <1>8 DEF LateLands
  <2> QED BY <1>8, <2>1, <2>2, <2>3 DEF LateLands
<1>9. CASE Publish
  <2>1. latest' \in 1..MaxVersion /\ 0..latest \subseteq 0..latest' BY <1>9 DEF Publish
  <2>2. UNCHANGED <<held, at, op, loaded, made, kept, answer, alone, sound, counts>>
    BY <1>9 DEF Publish
  <2>3. \A v \in Versions : late'[v] > 0 => v <= latest'
    BY <1>9, <2>2 DEF Publish, Versions
  <2>4. loaded' \in [Workers -> 0..latest'] BY <2>1, <2>2
  <2>5. made' \in [Workers -> 0..latest'] BY <2>1, <2>2
  <2>6. folder' \in 0..latest' \cup {Torn} /\ entry' \in 0..latest' BY <2>1, <2>2
  <2> QED BY <2>1, <2>2, <2>3, <2>4, <2>5, <2>6
<1>a. CASE UNCHANGED skillVars BY <1>a DEF skillVars
<1> QED BY <1>1, <1>2, <1>4, <1>5, <1>6, <1>7, <1>8, <1>9, <1>a DEF SkillNext, SkillStep

-----------------------------------------------------------------------------
LEMMA InitInv == SkillInit => SkillInv
BY InitType DEF SkillInit, SkillInv, PlacesFit, Kept, Alone, Finds, Strays,
                IndexedMeansInstalled, Changing, Commands

\* In a sound state a change in progress has the skill to itself.
LEMMA SoundAlone ==
    ASSUME SkillInv, sound, NEW w \in Changing
    PROVE  /\ alone = w /\ ~ kept[w] /\ Changing = {w}
           /\ Installing <=> at[w] = "clawhub" /\ op[w] = "install"
           /\ astray["install"] = 0 /\ \A v \in Versions : late[v] = 0
           /\ Installing \/ entry = 0 \/ folder > 0
           /\ at[w] \in {"clawhub", "look", "rmtree"} /\ op[w] = "delete" => entry = 0
<1> USE DEF SkillInv
<1>1. alone = w /\ ~ kept[w] /\ Changing = {w} BY DEF Kept, Alone
<1>2. Installing <=> at[w] = "clawhub" /\ op[w] = "install"
  BY <1>1 DEF Installing, Changing, Changes
<1>3. astray["install"] = 0 /\ \A v \in Versions : late[v] = 0
  BY <1>1 DEF Strays, SkillTypeOK
<1>4. Installing \/ entry = 0 \/ folder > 0 BY DEF IndexedMeansInstalled
<1>5. at[w] \in {"clawhub", "look", "rmtree"} /\ op[w] = "delete" => entry = 0
  BY <1>1 DEF Finds
<1> QED BY <1>1, <1>2, <1>3, <1>4, <1>5

\* The end of a change leaves nothing in progress that could count as alone.
LEMMA Ends ==
    ASSUME SkillInv, NEW w \in Changing, UNCHANGED <<op, kept, made, alone>>,
           at' = [at EXCEPT ![w] = "idle"], sound' => sound \/ alone = w
    PROVE  /\ PlacesFit' /\ Kept' /\ Alone' /\ Finds'
           /\ sound' => alone = w /\ Changing' = {} /\ ~ Installing'
<1> USE DEF SkillInv, SkillTypeOK, Changing, Changes
<1>1. PlacesFit' BY DEF PlacesFit
<1>2. Changing' = Changing \ {w} OBVIOUS
<1>3. \A u \in Changing' : alone' # u BY <1>2 DEF Alone
<1>4. sound' => alone = w BY DEF Kept
<1>5. sound' => Changing' = {} BY <1>2, <1>4 DEF Alone
<1>6. Installing' => Changing' # {} BY DEF Installing
<1>7. Kept' BY <1>2, <1>5 DEF Kept
<1> HIDE DEF Changing
<1>8. Alone' /\ Finds' BY <1>3 DEF Alone, Finds
<1> QED BY <1>1, <1>4, <1>5, <1>6, <1>7, <1>8

LEMMA DispatchInv ==
    ASSUME SkillInv, NEW w \in Workers, NEW o \in Calls, Dispatch(w, o) PROVE SkillInv'
<1>1. SkillTypeOK' BY StepType DEF SkillInv, SkillNext
<1> USE DEF SkillInv, SkillTypeOK, PlacesFit, Dispatch, Goes, held, Calls, Changing, Changes
<1>2. PlacesFit' BY DEF FirstStep
<1>3. CASE o \in Changes
  <2>1. Changing' = Changing \cup {w} BY <1>3 DEF FirstStep
  <2>2. CASE Undisturbed
    <3>1. Changing' = {w} /\ alone' = w BY <1>3, <2>1, <2>2 DEF Undisturbed
    <3>2. at'[w] \in {"clawhub", "find", "rm"} /\ (at'[w] = "find" => op'[w] = "add")
          /\ (at'[w] = "clawhub" => op'[w] = "install") /\ kept'[w] = FALSE
      BY <1>3 DEF FirstStep
    <3>3. /\ \A c \in Commands : astray'[c] = 0
          /\ \A v \in Versions : late'[v] = 0
      BY <2>2 DEF Undisturbed
    <3>4. Kept' BY <3>1, <3>2 DEF Kept
    <3>5. Alone' BY <3>1, <3>3 DEF Alone, Commands
    <3>6. Finds' BY <3>1, <3>2 DEF Finds
    <3>7. Strays' BY <3>3 DEF Strays, Commands
    <3>8. ~ Installing /\ sound' = sound BY <1>3, <2>2 DEF Undisturbed, Installing
    <3>9. IndexedMeansInstalled' BY <3>8 DEF IndexedMeansInstalled
    <3> QED BY <1>1, <1>2, <3>4, <3>5, <3>6, <3>7, <3>9
  <2>3. CASE ~ Undisturbed
    <3>1. alone' = NoWorker /\ sound' = FALSE BY <1>3, <2>3
    <3>2. Kept' BY <1>3, <2>1, <3>1 DEF Kept
    <3>3. Alone' /\ Finds' BY <2>1, <3>1 DEF Alone, Finds
    <3> QED BY <1>1, <1>2, <3>1, <3>2, <3>3 DEF Strays, IndexedMeansInstalled
  <2> QED BY <2>2, <2>3
<1>4. CASE o \notin Changes
  <2>1. Changing' = Changing /\ w \notin Changing BY <1>4
  <2>2. \A u \in Changing : at'[u] = at[u] /\ op'[u] = op[u] BY <2>1
  <2>3. UNCHANGED <<folder, entry, astray, late, loaded, made, kept, alone, sound>> BY <1>4
  <2>4. Installing' = Installing BY <1>4 DEF Installing, FirstStep
  <2> HIDE DEF Changing, Dispatch
  <2>5. Kept' BY <2>1, <2>2, <2>3 DEF Kept
  <2>6. Alone' BY <2>1, <2>2, <2>3 DEF Alone
  <2>7. Finds' BY <2>1, <2>2, <2>3 DEF Finds
  <2>8. Strays' /\ IndexedMeansInstalled'
    BY <2>1, <2>3, <2>4 DEF Strays, IndexedMeansInstalled
  <2> QED BY <1>1, <1>2, <2>5, <2>6, <2>7, <2>8
<1> QED BY <1>3, <1>4

\* The step of a change that goes on: what is said of a change that is alone is said
\* of this one or of none.
LEMMA Moves ==
    ASSUME SkillInv, NEW w \in Changing, NEW place, place # "idle",
           at' = [at EXCEPT ![w] = place], UNCHANGED <<op, alone>>, sound' => sound,
           \A u \in Workers : u # w => kept'[u] = kept[u],
           op[w] # "delete" => kept'[w] = kept[w],
           sound' => ~ kept'[w] /\ (op[w] = "install" /\ place # "clawhub" => made'[w] # 0)
    PROVE  /\ Changing' = Changing
           /\ \A u \in Changing' : alone' = u => u = w /\ Changing' = {w}
           /\ Kept'
<1> USE DEF SkillInv
<1>1. Changing' = Changing BY DEF SkillTypeOK, Changing
<1>2. \A u \in Changing' : alone' = u => u = w /\ Changing' = {w} BY <1>1 DEF Alone
<1>3. sound' => Changing = {w} /\ alone = w BY SoundAlone
<1>4. w \in Workers /\ at'[w] = place BY DEF Changing, SkillTypeOK
<1>5. ASSUME NEW u \in Changing'
      PROVE  /\ op'[u] # "delete" => ~ kept'[u]
             /\ sound' => /\ alone' = u /\ ~ kept'[u]
                          /\ at'[u] \in {"find", "load", "store"} /\ op'[u] = "install" =>
                                made'[u] # 0
  <2>1. u \in Changing /\ u \in Workers BY <1>1, <1>5 DEF Changing
  <2>2. op[u] # "delete" => ~ kept[u] BY <2>1 DEF Kept
  <2>3. sound' => u = w BY <1>3, <2>1
  <2> QED BY <1>3, <1>4, <2>1, <2>2, <2>3
<1> QED BY <1>1, <1>2, <1>5 DEF Kept

LEMMA ClawhubInv ==
    ASSUME SkillInv, NEW w \in Workers,
           Clawhub(w) \/ ClawhubFails(w) \/ ClawhubTimesOut(w)
    PROVE  SkillInv'
<1>1. SkillTypeOK' BY StepType DEF SkillInv, SkillNext, SkillStep
<1> USE DEF SkillInv, SkillTypeOK, Goes, Answers, held, counts, Fault
<1>2. w \in Changing /\ at[w] = "clawhub" /\ op[w] \in {"install", "delete"} /\ made[w] = 0
  BY DEF Clawhub, ClawhubFails, ClawhubTimesOut, PlacesFit, Changing, Changes
<1>a. alone = w => /\ astray["install"] = 0 /\ astray["uninstall"] = 0
                   /\ \A v \in Versions : late[v] > 0 => v = 0 /\ op[w] = "delete" /\ kept[w]
  BY <1>2 DEF Alone, Commands
<1>b. alone = w /\ op[w] = "delete" => kept[w] \/ entry = 0 BY <1>2 DEF Finds
<1>3. CASE Clawhub(w)
  <2>1. /\ at' = [at EXCEPT ![w] = AfterCommand(w)]
        /\ made' = [made EXCEPT ![w] = folder'] /\ folder' = Result(Command(w))
        /\ UNCHANGED <<latest, entry, astray, late, op, loaded, kept, alone, sound>>
    BY <1>3 DEF Clawhub
  <2>2. /\ op[w] = "install" => AfterCommand(w) = "find" /\ folder' = latest
        /\ op[w] = "delete" => AfterCommand(w) = "look" /\ folder' = 0
    BY <2>1 DEF AfterCommand, Command, Result
  <2>3. at'[w] = AfterCommand(w) /\ made'[w] = folder' /\ AfterCommand(w) \in {"find", "look"}
    BY <2>1, <2>2, <1>2
  <2>4. PlacesFit' BY <1>2, <2>1, <2>2 DEF PlacesFit
  <2>5. sound' => sound /\ ~ kept'[w] /\ (op[w] = "install" => made'[w] # 0)
    BY <1>2, <2>1, <2>2, <2>3 DEF Kept
  <2>b. \A u \in Workers : kept'[u] = kept[u] BY <2>1
  <2>6. /\ \A u \in Changing' : alone' = u => u = w /\ Changing' = {w}
        /\ Kept' /\ Changing' = Changing
    BY <1>2, <2>1, <2>3, <2>5, <2>b, Moves
  <2>7. Alone' BY <1>2, <1>a, <2>1, <2>2, <2>3, <2>6 DEF Alone
  <2>8. Finds' BY <1>2, <1>b, <2>1, <2>2, <2>3, <2>6 DEF Finds
  <2>9. Strays' BY <1>2, <2>1, SoundAlone DEF Strays
  <2>a. IndexedMeansInstalled' BY <1>2, <2>1, <2>2, SoundAlone DEF IndexedMeansInstalled
  <2> QED BY <1>1, <2>4, <2>6, <2>7, <2>8, <2>9, <2>a
<1>4. CASE ClawhubFails(w)
  <2>1. /\ at' = [at EXCEPT ![w] = AfterCommand(w)]
        /\ UNCHANGED <<latest, entry, late, op, loaded, made, kept, alone>>
        /\ sound' = (sound /\ op[w] # "install")
        /\ astray' \in {astray, [astray EXCEPT ![Command(w)] = @ + 1]}
    BY <1>4 DEF ClawhubFails
  <2>2. /\ op[w] = "install" => AfterCommand(w) = "find" /\ Command(w) = "install"
        /\ op[w] = "delete" => AfterCommand(w) = "look" /\ Command(w) = "uninstall"
    BY <2>1 DEF AfterCommand, Command
  <2>3. at'[w] = AfterCommand(w) /\ AfterCommand(w) \in {"find", "look"}
    BY <2>1, <2>2, <1>2
  <2>4. PlacesFit' BY <1>2, <2>1, <2>2 DEF PlacesFit
  <2>5. sound => ~ kept[w] BY <1>2 DEF Kept
  <2>6. /\ \A u \in Changing' : alone' = u => u = w /\ Changing' = {w}
        /\ Kept' /\ Changing' = Changing
    BY <1>2, <2>1, <2>2, <2>3, <2>5, Moves
  <2>b. /\ op[w] = "install" => astray'["uninstall"] = astray["uninstall"]
        /\ op[w] = "delete" => astray'["install"] = astray["install"]
    BY <1>2, <2>1, <2>2 DEF Commands
  <2>7. Alone' BY <1>2, <1>a, <2>1, <2>2, <2>3, <2>6, <2>b DEF Alone
  <2>8. Finds' BY <1>2, <1>b, <2>1, <2>2, <2>3, <2>6 DEF Finds
  <2>c. ASSUME sound' PROVE /\ entry' = 0 /\ astray'["install"] = 0
                            /\ \A v \in Versions : late'[v] = 0
    BY <1>2, <2>1, <2>b, <2>c, SoundAlone
  <2>9. Strays' BY <2>c DEF Strays
  <2>a. IndexedMeansInstalled' BY <2>c DEF IndexedMeansInstalled
  <2> QED BY <1>1, <2>4, <2>6, <2>7, <2>8, <2>9, <2>a
<1>5. CASE ClawhubTimesOut(w)
  <2>1. /\ at' = [at EXCEPT ![w] = "idle"]
        /\ UNCHANGED <<entry, late, op, made, kept, alone>>
        /\ sound' = (sound /\ op[w] # "install")
        /\ astray' = [astray EXCEPT ![Command(w)] = @ + 1]
    BY <1>5 DEF ClawhubTimesOut
  <2>2. /\ PlacesFit' /\ Kept' /\ Alone' /\ Finds'
        /\ sound' => alone = w /\ Changing' = {} /\ ~ Installing'
    BY <1>2, <2>1, Ends
  <2>3. ASSUME sound' PROVE /\ entry' = 0 /\ astray["install"] = 0
                            /\ \A v \in Versions : late'[v] = 0
    BY <1>2, <2>1, <2>3, SoundAlone
  <2>4. sound' => astray'["install"] = astray["install"] BY <1>2, <2>1 DEF Command, Commands
  <2>5. Strays' BY <2>3, <2>4 DEF Strays
  <2>6. IndexedMeansInstalled' BY <2>3 DEF IndexedMeansInstalled
  <2> QED BY <1>1, <2>2, <2>5, <2>6
<1> QED BY <1>3, <1>4, <1>5

LEMMA AddInv ==
    ASSUME SkillInv, NEW w \in Workers, Find(w) \/ Load(w) \/ Store(w) \/ StoreFails(w)
    PROVE  SkillInv'
<1>1. SkillTypeOK' BY StepType DEF SkillInv, SkillNext, SkillStep
<1> USE DEF SkillInv, SkillTypeOK, Goes, Answers, held, counts, Fault
<1>2. w \in Changing /\ op[w] \in {"install", "add"} /\ at[w] \in {"find", "load", "store"}
  BY DEF Find, Load, Store, StoreFails, PlacesFit, Changing, Changes
<1>3. CASE (Find(w) \/ Load(w)) /\ folder > 0
  <2>1. \E place \in {"load", "store"} :
            /\ at' = [at EXCEPT ![w] = place]
            /\ place = "load" => at[w] = "find" /\ loaded' = loaded
            /\ place = "store" => at[w] = "load" /\ loaded' = [loaded EXCEPT ![w] = folder]
    BY <1>3 DEF Find, Load
  <2>2. UNCHANGED <<folder, entry, astray, late, op, made, kept, alone, sound>>
    BY <1>3 DEF Find, Load
  <2>3. /\ at'[w] \in {"load", "store"}
        /\ at'[w] = "store" => at[w] = "load" /\ loaded'[w] = folder
    BY <2>1
  <2>4. PlacesFit' BY <1>2, <2>1, <2>2 DEF PlacesFit
  <2>5. sound => ~ kept[w] /\ (op[w] = "install" => made[w] # 0) BY <1>2 DEF Kept
  <2>6. /\ \A u \in Changing' : alone' = u => u = w /\ Changing' = {w}
        /\ Kept' /\ Changing' = Changing
    BY <1>2, <2>1, <2>2, <2>5, Moves
  <2>7. Alone' BY <1>2, <2>2, <2>3, <2>6 DEF Alone
  <2>8. Finds' BY <1>2, <1>3, <2>2, <2>3, <2>6 DEF Finds
  <2>9. Strays' BY <2>2, <2>6 DEF Strays
  <2>a. IndexedMeansInstalled' BY <1>3, <2>2 DEF IndexedMeansInstalled
  <2> QED BY <1>1, <2>4, <2>6, <2>7, <2>8, <2>9, <2>a
<1>4. CASE (Find(w) \/ Load(w)) /\ ~ folder > 0
  <2>1. at' = [at EXCEPT ![w] = "idle"] BY <1>4 DEF Find, Load
  <2>2. UNCHANGED <<folder, entry, astray, late, op, made, kept, alone, sound>>
    BY <1>4 DEF Find, Load
  <2>3. /\ PlacesFit' /\ Kept' /\ Alone' /\ Finds'
        /\ sound' => alone = w /\ Changing' = {} /\ ~ Installing'
    BY <1>2, <2>1, <2>2, Ends
  <2>4. Strays' BY <1>2, <2>2, <2>3, SoundAlone DEF Strays
  <2>5. IndexedMeansInstalled' BY <1>2, <2>2, SoundAlone DEF IndexedMeansInstalled
  <2> QED BY <1>1, <2>3, <2>4, <2>5
<1>5. CASE Store(w) \/ StoreFails(w)
  <2>1. /\ at[w] = "store" /\ at' = [at EXCEPT ![w] = "idle"]
        /\ UNCHANGED <<folder, astray, op, loaded, made, kept, alone>>
    BY <1>5 DEF Store, StoreFails, Completes
  <2>2. sound' => sound \/ (alone = w /\ (op[w] = "install" => made[w] # 0))
    BY <1>5 DEF Store, StoreFails, Completes
  <2>3. /\ PlacesFit' /\ Kept' /\ Alone' /\ Finds'
        /\ sound' => alone = w /\ Changing' = {} /\ ~ Installing'
    BY <1>2, <2>1, <2>2, Ends
  <2>4. ASSUME sound' PROVE alone = w /\ (op[w] = "install" => made[w] # 0)
    BY <1>2, <2>1, <2>2, <2>3, <2>4 DEF Kept
  <2>5. ASSUME sound' PROVE /\ astray["install"] = 0 /\ astray["uninstall"] = 0
                            /\ \A v \in Versions : late[v] = 0
    BY <1>2, <2>1, <2>4, <2>5 DEF Alone, Commands
  <2>6. sound' => folder > 0 BY <1>2, <2>1, <2>4 DEF Finds, Torn
  <2>7. Strays' BY <2>1, <2>3, <2>5, <2>6 DEF Strays
  <2>8. IndexedMeansInstalled' BY <2>1, <2>6 DEF IndexedMeansInstalled
  <2> QED BY <1>1, <2>3, <2>7, <2>8
<1> QED BY <1>3, <1>4, <1>5 DEF Find, Load

LEMMA DeleteInv ==
    ASSUME SkillInv, NEW w \in Workers,
           RemoveEntry(w) \/ RemoveEntryFails(w) \/ LookForFolder(w)
           \/ RemoveFolder(w) \/ RemoveFolderFails(w)
    PROVE  SkillInv'
<1>1. SkillTypeOK' BY StepType DEF SkillInv, SkillNext, SkillStep
<1> USE DEF SkillInv, SkillTypeOK, Goes, Answers, held, counts, Fault
<1>2. w \in Changing /\ op[w] = "delete" /\ at[w] \in {"rm", "look", "rmtree"}
  BY DEF RemoveEntry, RemoveEntryFails, LookForFolder, RemoveFolder, RemoveFolderFails,
         PlacesFit, Changing, Changes
<1>3. CASE RemoveEntry(w) \/ RemoveEntryFails(w)
  <2>1. /\ at[w] = "rm" /\ at' = [at EXCEPT ![w] = "clawhub"]
        /\ UNCHANGED <<folder, astray, op, loaded, made, alone>>
        /\ \A u \in Workers : u # w => kept'[u] = kept[u]
    BY <1>3 DEF RemoveEntry, RemoveEntryFails
  <2>2. /\ RemoveEntry(w) => entry' = 0 /\ late' = late /\ kept' = kept /\ sound' = sound
        /\ RemoveEntryFails(w) => ~ sound' /\ kept'[w] /\ Late(0)
    BY <1>3 DEF RemoveEntry, RemoveEntryFails
  <2>3. \A v \in Versions : v # 0 => late'[v] = late[v]
    BY <1>3, <2>2 DEF Late
  <2>4. PlacesFit' BY <1>2, <2>1 DEF PlacesFit
  <2>5. sound => ~ kept[w] BY <1>2 DEF Kept
  <2>b. (sound' => sound /\ ~ kept'[w]) /\ op[w] = "delete" BY <1>2, <1>3, <2>2, <2>5
  <2>6. /\ \A u \in Changing' : alone' = u => u = w /\ Changing' = {w}
        /\ Kept' /\ Changing' = Changing
    BY <1>2, <2>1, <2>b, Moves
  <2>7. Alone' BY <1>2, <1>3, <2>1, <2>2, <2>3, <2>6 DEF Alone
  <2>8. Finds' BY <1>2, <1>3, <2>1, <2>2, <2>6 DEF Finds
  <2>9. Strays' BY <1>2, <1>3, <2>1, <2>2, SoundAlone DEF Strays
  <2>a. IndexedMeansInstalled' BY <1>3, <2>2 DEF IndexedMeansInstalled
  <2> QED BY <1>1, <2>4, <2>6, <2>7, <2>8, <2>9, <2>a
<1>4. CASE LookForFolder(w) /\ folder # 0
  <2>1. /\ at[w] = "look" /\ at' = [at EXCEPT ![w] = "rmtree"]
        /\ UNCHANGED <<folder, entry, astray, late, op, loaded, made, kept, alone, sound>>
    BY <1>4 DEF LookForFolder
  <2>4. PlacesFit' BY <1>2, <2>1 DEF PlacesFit
  <2>5. sound => ~ kept[w] BY <1>2 DEF Kept
  <2>6. /\ \A u \in Changing' : alone' = u => u = w /\ Changing' = {w}
        /\ Kept' /\ Changing' = Changing
    BY <1>2, <2>1, <2>5, Moves
  <2>7. Alone' BY <1>2, <2>1, <2>6 DEF Alone
  <2>8. Finds' BY <1>2, <2>1, <2>6 DEF Finds
  <2>9. Strays' BY <2>1, <2>6 DEF Strays
  <2>a. IndexedMeansInstalled' BY <1>2, <2>1, SoundAlone DEF IndexedMeansInstalled
  <2> QED BY <1>1, <2>4, <2>6, <2>7, <2>8, <2>9, <2>a
<1>5. CASE (LookForFolder(w) /\ folder = 0) \/ RemoveFolder(w) \/ RemoveFolderFails(w)
  <2> USE DEF LookForFolder, RemoveFolder, RemoveFolderFails, Completes
  <2>1. /\ at[w] \in {"look", "rmtree"} /\ at' = [at EXCEPT ![w] = "idle"]
        /\ UNCHANGED <<entry, astray, late, op, loaded, made, kept, alone>>
    BY <1>5
  <2>2. sound' => sound \/ (alone = w /\ ~ kept[w]) BY <1>5
  <2>3. /\ PlacesFit' /\ Kept' /\ Alone' /\ Finds'
        /\ sound' => alone = w /\ Changing' = {} /\ ~ Installing'
    BY <1>2, <2>1, <2>2, Ends
  <2>4. ASSUME sound' PROVE alone = w /\ ~ kept[w]
    BY <1>2, <2>1, <2>2, <2>3, <2>4 DEF Kept
  <2>5. ASSUME sound' PROVE /\ astray["install"] = 0 /\ entry = 0
                            /\ \A v \in Versions : late[v] = 0
    BY <1>2, <2>1, <2>4, <2>5 DEF Alone, Finds, Commands
  <2>6. Strays' BY <2>1, <2>5 DEF Strays
  <2>7. IndexedMeansInstalled' BY <2>1, <2>5 DEF IndexedMeansInstalled
  <2> QED BY <1>1, <2>3, <2>6, <2>7
<1> QED BY <1>3, <1>4, <1>5

\* No command is at work on the folder while a change that is alone relies on it.
LEMMA Quiet ==
    ASSUME SkillInv, NEW c \in Commands, Runs(c)
    PROVE  /\ \A w \in Changing : alone = w /\ at[w] \in {"find", "load", "store"} =>
                  op[w] = "install" /\ made[w] = 0
           /\ sound => \A v \in Versions : late[v] = 0
           /\ sound => Installing \/ entry = 0
<1> USE DEF SkillInv
<1>1. CASE astray[c] > 0
  <2>1. c = "install" \/ c = "uninstall" BY DEF Commands
  <2>2. \A w \in Changing : alone = w /\ at[w] \in {"find", "load", "store"} =>
            op[w] = "install" /\ made[w] = 0
    BY <1>1, <2>1 DEF Alone
  <2>3. sound => c = "uninstall" BY <1>1, <2>1 DEF Strays
  <2> QED BY <1>1, <2>2, <2>3 DEF Strays
<1>2. CASE \E u \in Workers : at[u] = "clawhub"
  <2>1. PICK u \in Workers : at[u] = "clawhub" BY <1>2
  <2>2. u \in Changing /\ op[u] \in {"install", "delete"}
    BY <2>1 DEF PlacesFit, Changing, Changes
  <2>3. \A w \in Changing : alone = w => at[w] = "clawhub" BY <2>1, <2>2 DEF Alone
  <2>4. sound => \A v \in Versions : late[v] = 0 BY <2>2, SoundAlone
  <2>5. sound => Installing \/ entry = 0 BY <2>1, <2>2, SoundAlone
  <2> QED BY <2>3, <2>4, <2>5
<1> QED BY <1>1, <1>2 DEF Runs

LEMMA OtherInv ==
    ASSUME SkillInv,
           \/ \E w \in Workers : \/ FindScript(w) \/ Execute(w) \/ ReadEntry(w)
                               \/ ReadEntryFails(w)
           \/ \E c \in Commands : CommandWrites(c) \/ StrayEnds(c)
           \/ \E v \in Versions : LateLands(v)
           \/ Publish
           \/ UNCHANGED skillVars
    PROVE  SkillInv'
<1>1. SkillTypeOK' BY StepType DEF SkillInv, SkillNext, SkillStep
<1> USE DEF SkillInv, SkillTypeOK, Goes, Answers, held, counts, Fault
<1>2. ASSUME NEW w \in Workers, FindScript(w) \/ Execute(w) \/ ReadEntry(w) \/ ReadEntryFails(w)
      PROVE  SkillInv'
  <2>1. /\ at[w] \in {"script", "execute", "read"}
        /\ \E place \in {"execute", "read", "idle"} : at' = [at EXCEPT ![w] = place]
        /\ UNCHANGED <<folder, entry, astray, late, op, loaded, made, kept, alone, sound>>
    BY <1>2 DEF FindScript, Execute, ReadEntry, ReadEntryFails
  <2>2. op[w] \in {"run", "overview"} BY <2>1 DEF PlacesFit
  <2>3. /\ Changing' = Changing /\ w \notin Changing
        /\ \A u \in Changing : at'[u] = at[u]
        /\ Installing' = Installing
    BY <2>1, <2>2 DEF Changing, Changes, Installing
  <2>4. PlacesFit' BY <2>1, <2>2 DEF PlacesFit
  <2>5. Kept' /\ Strays' /\ IndexedMeansInstalled'
    BY <2>1, <2>3 DEF Kept, Strays, IndexedMeansInstalled
  <2>6. Alone' BY <2>1, <2>3 DEF Alone
  <2>7. Finds' BY <2>1, <2>3 DEF Finds
  <2> QED BY <1>1, <2>4, <2>5, <2>6, <2>7
<1>3. ASSUME NEW c \in Commands, CommandWrites(c) \/ StrayEnds(c) PROVE SkillInv'
  <2>1. Runs(c) BY <1>3 DEF CommandWrites, StrayEnds, Runs
  <2>2. /\ UNCHANGED <<entry, late, at, op, loaded, made, kept, alone, sound>>
        /\ \A d \in Commands : astray'[d] > 0 => astray[d] > 0
        /\ \A d \in Commands : astray'[d] \in Nat
    BY <1>3 DEF CommandWrites, StrayEnds
  <2>3. PlacesFit' /\ Changing' = Changing /\ Kept' /\ Installing' = Installing
    BY <2>2 DEF PlacesFit, Changing, Kept, Installing
  <2>4. Alone' BY <2>2, <2>3 DEF Alone, Commands
  <2>5. Finds' BY <2>1, <2>2, <2>3, Quiet DEF Finds
  <2>6. Strays' BY <2>1, <2>2, Quiet DEF Strays, Commands
  <2>7. IndexedMeansInstalled' BY <2>1, <2>2, <2>3, Quiet DEF IndexedMeansInstalled
  <2> QED BY <1>1, <2>3, <2>4, <2>5, <2>6, <2>7
<1>4. ASSUME NEW v \in Versions, LateLands(v) PROVE SkillInv'
  <2>1. /\ UNCHANGED <<folder, astray, at, op, loaded, made, kept, alone, sound>>
        /\ \A u \in Versions : late'[u] > 0 => late[u] > 0
        /\ \A u \in Versions : late'[u] \in Nat
        /\ late[v] > 0 /\ entry' \in {entry, v}
    BY <1>4 DEF LateLands
  <2>2. PlacesFit' /\ Changing' = Changing /\ Kept'
    BY <2>1 DEF PlacesFit, Changing, Kept
  <2>3. Alone' BY <2>1, <2>2 DEF Alone
  <2>4. \A w \in Changing : alone = w => v = 0 BY <2>1 DEF Alone
  <2>5. Finds' BY <2>1, <2>2, <2>4 DEF Finds
  <2>6. sound => folder > 0 /\ ~ astray["uninstall"] > 0 BY <2>1 DEF Strays
  <2>7. Strays' BY <2>1, <2>2, <2>6 DEF Strays
  <2>8. IndexedMeansInstalled' BY <2>1, <2>6 DEF IndexedMeansInstalled
  <2> QED BY <1>1, <2>2, <2>3, <2>5, <2>7, <2>8
<1>5. CASE Publish \/ UNCHANGED skillVars
  <2>1. UNCHANGED <<folder, entry, astray, late, at, op, loaded, made, kept, alone, sound>>
    BY <1>5 DEF Publish, skillVars
  <2>2. PlacesFit' /\ Changing' = Changing /\ Kept' /\ Installing' = Installing
    BY <2>1 DEF PlacesFit, Changing, Kept, Installing
  <2>3. Alone' BY <2>1, <2>2 DEF Alone
  <2>4. Finds' BY <2>1, <2>2 DEF Finds
  <2>5. Strays' /\ IndexedMeansInstalled' BY <2>1, <2>2 DEF Strays, IndexedMeansInstalled
  <2> QED BY <1>1, <2>2, <2>3, <2>4, <2>5
<1> QED BY <1>2, <1>3, <1>4, <1>5

LEMMA StepInv == SkillInv /\ [SkillNext]_skillVars => SkillInv'
BY DispatchInv, ClawhubInv, AddInv, DeleteInv, OtherInv DEF SkillNext, SkillStep

LEMMA Invariance == SkillSpec => []SkillInv
BY InitInv, StepInv, PTL DEF SkillSpec

-----------------------------------------------------------------------------
\* Versions, places and answers are as declared, for any number of workers.
THEOREM SkillTypeCorrect == SkillSpec => []SkillTypeOK
<1>1. SkillInv => SkillTypeOK BY DEF SkillInv
<1> QED BY <1>1, Invariance, PTL

\* A skill that the knowledge base knows has a folder it can be executed from, but for
\* the installations and failures that IndexedMeansInstalled names, whatever else fails.
THEOREM KnownSkillIsInstalled == SkillSpec => []IndexedMeansInstalled
<1>1. SkillInv => IndexedMeansInstalled BY DEF SkillInv
<1> QED BY <1>1, Invariance, PTL

\* What a call that had the skill to itself reports as done is done: the import, the
\* deletion, and the installation whose command did not fail.
THEOREM AnswersAreTrue == SkillSpec => HonestAnswers
<1> DEFINE Honest ==
      \A w \in Workers :
           (at[w] # "idle" /\ at'[w] = "idle" /\ alone = w /\ answer'[w] = "done") =>
               /\ op[w] = "add" => entry' = folder' /\ folder' > 0
               /\ (op[w] = "install" /\ made[w] # 0) => entry' = made[w] /\ folder' = made[w]
               /\ op[w] = "delete" => folder' = 0 /\ (kept[w] \/ entry' = 0)
<1>1. ASSUME SkillInv, SkillNext, NEW w \in Workers, at[w] # "idle", at'[w] = "idle",
             alone = w, answer'[w] = "done"
      PROVE  /\ op[w] = "add" => entry' = folder' /\ folder' > 0
             /\ (op[w] = "install" /\ made[w] # 0) => entry' = made[w] /\ folder' = made[w]
             /\ op[w] = "delete" => folder' = 0 /\ (kept[w] \/ entry' = 0)
  <2> USE DEF SkillInv, SkillTypeOK, PlacesFit, Goes, Answers, held, counts
  <2>1. \A u \in Workers : SkillStep(u) => u = w
    <3> SUFFICES ASSUME NEW u \in Workers, u # w, SkillStep(u) PROVE FALSE
      OBVIOUS
    <3>1. at'[w] = at[w]
      <4>1. CASE Clawhub(u) \/ ClawhubFails(u) \/ ClawhubTimesOut(u)
        BY <1>1, <4>1 DEF Clawhub, ClawhubFails, ClawhubTimesOut
      <4>2. CASE Find(u) \/ Load(u) \/ Store(u) \/ StoreFails(u)
        BY <1>1, <4>2 DEF Find, Load, Store, StoreFails, Completes
      <4>3. CASE RemoveEntry(u) \/ RemoveEntryFails(u) \/ LookForFolder(u)
                 \/ RemoveFolder(u) \/ RemoveFolderFails(u)
        BY <1>1, <4>3
        DEF RemoveEntry, RemoveEntryFails, LookForFolder, RemoveFolder, RemoveFolderFails, Completes
      <4>4. CASE FindScript(u) \/ Execute(u) \/ ReadEntry(u) \/ ReadEntryFails(u)
        BY <1>1, <4>4 DEF FindScript, Execute, ReadEntry, ReadEntryFails
      <4> QED BY <4>1, <4>2, <4>3, <4>4 DEF SkillStep
    <3> QED BY <3>1, <1>1
  <2>2. ASSUME NEW u \in Workers, NEW o \in Calls, Dispatch(u, o) PROVE FALSE
    <3>1. FirstStep(o) # "idle" BY DEF FirstStep, Calls
    <3> QED BY <1>1, <2>2, <3>1 DEF Dispatch
  <2>3. /\ ~ Publish /\ \A c \in Commands : ~ CommandWrites(c) /\ ~ StrayEnds(c)
        /\ \A v \in Versions : ~ LateLands(v)
    BY <1>1 DEF Publish, CommandWrites, StrayEnds, LateLands
  <2>4. SkillStep(w) BY <1>1, <2>1, <2>2, <2>3 DEF SkillNext
  <2>5. CASE Clawhub(w) \/ ClawhubFails(w) \/ ClawhubTimesOut(w)
    BY <1>1, <2>5 DEF Clawhub, ClawhubFails, ClawhubTimesOut, AfterCommand
  <2>6. CASE Find(w) \/ Load(w) \/ StoreFails(w)
    BY <1>1, <2>6 DEF Find, Load, StoreFails, Refusal
  <2>7. CASE Store(w)
    <3>1. w \in Changing BY <1>1, <2>7 DEF Store, Changing, Changes
    <3>2. /\ op[w] = "add" => folder > 0 /\ loaded[w] = folder
          /\ op[w] = "install" /\ made[w] # 0 => folder = made[w] /\ loaded[w] = folder
      BY <1>1, <2>7, <3>1 DEF Store, Finds
    <3>3. entry' = loaded[w] /\ folder' = folder BY <2>7 DEF Store
    <3>4. op[w] # "delete" BY <1>1, <2>7 DEF Store
    <3> QED BY <3>2, <3>3, <3>4
  <2>8. CASE RemoveEntry(w) \/ RemoveEntryFails(w)
    BY <1>1, <2>8 DEF RemoveEntry, RemoveEntryFails
  <2>9. CASE LookForFolder(w) \/ RemoveFolder(w) \/ RemoveFolderFails(w)
    <3> USE DEF LookForFolder, RemoveFolder, RemoveFolderFails, Completes
    <3>1. w \in Changing /\ op[w] = "delete" BY <1>1, <2>9 DEF Changing, Changes
    <3>2. kept[w] \/ entry = 0 BY <1>1, <2>9, <3>1 DEF Finds
    <3> QED BY <1>1, <2>9, <3>1, <3>2
  <2>a. CASE FindScript(w) \/ Execute(w) \/ ReadEntry(w) \/ ReadEntryFails(w)
    BY <1>1, <2>a DEF FindScript, Execute, ReadEntry, ReadEntryFails
  <2> QED BY <2>4, <2>5, <2>6, <2>7, <2>8, <2>9, <2>a DEF SkillStep
<1>2. SkillInv /\ [SkillNext]_skillVars => [Honest]_skillVars BY <1>1
<1> QED BY <1>2, Invariance, PTL DEF SkillSpec, HonestAnswers
=============================================================================
