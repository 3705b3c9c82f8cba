---------------------------- MODULE ContextStore ----------------------------
(***************************************************************************)
(* The memory of the conversations: what context_client.py asks of         *)
(* openviking-context-service and what viking_store.py makes of it on the  *)
(* OpenViking server, a session per agent and session of a user            *)
(* (full_session_id).  Every call of OpenViking is a step, the calls of    *)
(* several tasks interleave, any of them may fail, and a client does not   *)
(* wait longer than CONTEXT_TIMEOUT_SECONDS.                               *)
(*                                                                         *)
(* Of a task the first search and the append of its turn are followed; the *)
(* searches of further agents change nothing.  A message is the turn it    *)
(* belongs to and its place in the turn: the user's, the assistant's, a    *)
(* summary per tool.  Texts, tokens, memories and the archives a commit    *)
(* leads to are left out.                                                  *)
(***************************************************************************)
EXTENDS TaskKeys

CONSTANTS
    Parts,           \* how many messages the turn of a task has
    Window,          \* 2 * max_messages
    CommitLimit,     \* commit_limit of the agent, 0 for none
    Backend,         \* OPENVIKING_BACKEND
    FileFallback,    \* OPENVIKING_FILE_FALLBACK
    MaxFaults        \* bound: failing calls of OpenViking, restarts

ASSUME StoreAssumption ==
    /\ Parts \in [Tasks -> Nat \ {0}]
    /\ {Window, CommitLimit, MaxFaults} \subseteq Nat
    /\ FileFallback \in BOOLEAN

VARIABLES
    mode,       \* VikingStore.mode
    stored,     \* messages of a session, in OpenViking
    base,       \* how many of them commits have archived
    log,        \* full_session_id of the task's calls
    place,      \* place of VikingStore.append_turn
    next,       \* the message it comes to
    answer,     \* what it answered: a mock acknowledges without storing
    client,     \* ContextClient.append_turn: "late" if it stopped waiting
    read,       \* first and last message the search of the task returned
    faults

storeVars == <<mode, stored, base, log, place, next, answer, client, read, faults>>

Nothing == [from |-> 1, to |-> 0]

\* VikingStore.__init__: where the ping of OpenViking fails, another mode for good.
Modes ==
    CASE Backend = "mock" -> {"mock"}
      [] Backend = "server" -> {"server", IF FileFallback THEN "file" ELSE "mock"}
      [] OTHER -> {"file"}

StoreInit ==
    /\ mode \in Modes
    /\ stored = [id \in Keys |-> <<>>]
    /\ base = [id \in Keys |-> 0]
    /\ log = [t \in Tasks |-> NoKey]
    /\ place = [t \in Tasks |-> "idle"]
    /\ next = [t \in Tasks |-> 1]
    /\ answer = [t \in Tasks |-> "none"]
    /\ client = [t \in Tasks |-> "idle"]
    /\ read = [t \in Tasks |-> Nothing]
    /\ faults = 0

StoreFault == faults < MaxFaults /\ faults' = faults + 1

-----------------------------------------------------------------------------
(* search_context                                                          *)

\* Mutant: the oldest messages instead of the latest.
Oldest(id) ==
    [from |-> base[id] + 1,
     to |-> IF Len(stored[id]) - base[id] > Window THEN base[id] + Window ELSE Len(stored[id])]

\* get_session_context and _messages_from_context.
Latest(id) ==
    [from |-> IF Len(stored[id]) - base[id] > Window THEN Len(stored[id]) - Window + 1
              ELSE base[id] + 1,
     to |-> Len(stored[id])]

\* A failing or late search gives an empty context, and so do the other modes.
SearchContext(t, id) ==
    /\ place[t] = "idle" /\ log[t] = NoKey
    /\ log' = [log EXCEPT ![t] = id]
    /\ \/ mode = "server" /\ read' = [read EXCEPT ![t] = Latest(id)] /\ UNCHANGED faults
       \/ mode = "server" /\ StoreFault /\ UNCHANGED read
       \/ mode # "server" /\ UNCHANGED <<read, faults>>
    /\ UNCHANGED <<mode, stored, base, place, next, answer, client>>

-----------------------------------------------------------------------------
(* append_turn                                                             *)

AppendTurn(t) ==
    /\ client[t] = "idle"
    /\ log[t] # NoKey
    /\ client' = [client EXCEPT ![t] = "waiting"]
    /\ place' = [place EXCEPT ![t] = "called"]
    /\ UNCHANGED <<mode, stored, base, log, next, answer, read, faults>>

Answers(t, a) ==
    /\ place' = [place EXCEPT ![t] = "done"]
    /\ answer' = [answer EXCEPT ![t] = a]

\* The mode decides; with a server its session is created where there is none.
Enter(t) ==
    /\ place[t] = "called"
    /\ CASE mode = "mock" -> Answers(t, "pretended")
         [] mode = "file" -> Answers(t, "failed")
         [] mode = "server" -> place' = [place EXCEPT ![t] = "message"] /\ UNCHANGED answer
    /\ UNCHANGED <<mode, stored, base, log, next, client, read, faults>>

\* _new_client raises out of the RPC, ensure_session or add_message end in ok=False;
\* the message that failed may have been stored.
AppendFails(t) ==
    /\ \/ place[t] = "called" /\ mode = "server" /\ UNCHANGED stored
       \/ place[t] = "message"
          /\ stored' \in {stored, [stored EXCEPT ![log[t]] = Append(@, <<t, next[t]>>)]}
    /\ StoreFault
    /\ Answers(t, "failed")
    /\ UNCHANGED <<mode, base, log, next, client, read>>

\* Mutant: the turn is acknowledged when its first message is stored.
FirstStored(t) == next[t] >= 1

\* Mutant: one message too many is asked for.
OneMore(t) == next[t] > Parts[t]

LastStored(t) == next[t] = Parts[t]

AddMessage(t) ==
    /\ place[t] = "message"
    /\ stored' = [stored EXCEPT ![log[t]] = Append(@, <<t, next[t]>>)]
    /\ IF ~ LastStored(t)
       THEN next' = [next EXCEPT ![t] = @ + 1] /\ UNCHANGED <<place, answer>>
       ELSE /\ UNCHANGED next
            /\ IF CommitLimit > 0
               THEN place' = [place EXCEPT ![t] = "check"] /\ UNCHANGED answer
               ELSE Answers(t, "acked")
    /\ UNCHANGED <<mode, base, log, client, read, faults>>

\* The count is read, and compared, a call ahead of the commit.
CheckCount(t) ==
    /\ place[t] = "check"
    /\ IF Len(stored[log[t]]) - base[log[t]] > CommitLimit
       THEN place' = [place EXCEPT ![t] = "commit"] /\ UNCHANGED answer
       ELSE Answers(t, "acked")
    /\ UNCHANGED <<mode, stored, base, log, next, client, read, faults>>

Commit(t) ==
    /\ place[t] = "commit"
    /\ base' = [base EXCEPT ![log[t]] = Len(stored[log[t]])]
    /\ Answers(t, "acked")
    /\ UNCHANGED <<mode, stored, log, next, client, read, faults>>

\* The turn is stored: the exception is swallowed.  The commit that failed may have been
\* made.
CommitFails(t) ==
    /\ \/ place[t] \in {"check", "commit"} /\ UNCHANGED base
       \/ place[t] = "commit" /\ base' = [base EXCEPT ![log[t]] = Len(stored[log[t]])]
    /\ StoreFault
    /\ Answers(t, "acked")
    /\ UNCHANGED <<mode, stored, log, next, client, read>>

ClientAnswered(t) ==
    /\ client[t] = "waiting"
    /\ answer[t] # "none"
    /\ client' = [client EXCEPT ![t] = IF answer[t] = "failed" THEN "false" ELSE "true"]
    /\ UNCHANGED <<mode, stored, base, log, place, next, answer, read, faults>>

\* DEADLINE_EXCEEDED for the client, which the server is not told in its thread.
ClientTimesOut(t) ==
    /\ client[t] = "waiting"
    /\ answer[t] = "none"
    /\ client' = [client EXCEPT ![t] = "late"]
    /\ UNCHANGED <<mode, stored, base, log, place, next, answer, read, faults>>

\* The service is restarted: its calls end with an error, its mode is chosen anew.
StoreRestart ==
    /\ StoreFault
    /\ mode' \in Modes
    /\ LET Lost == {t \in Tasks : place[t] \notin {"idle", "done"}} IN
        /\ place' = [t \in Tasks |-> IF t \in Lost THEN "done" ELSE place[t]]
        /\ answer' = [t \in Tasks |-> IF t \in Lost THEN "failed" ELSE answer[t]]
    /\ UNCHANGED <<stored, base, log, next, client, read>>

StoreStep(t) ==
    \/ Enter(t) \/ AppendFails(t) \/ AddMessage(t) \/ CheckCount(t) \/ Commit(t)
    \/ CommitFails(t) \/ ClientAnswered(t) \/ ClientTimesOut(t)

StoreNext ==
    \/ \E t \in Tasks : (\E id \in Keys : SearchContext(t, id)) \/ AppendTurn(t) \/ StoreStep(t)
    \/ StoreRestart

StoreSpec == StoreInit /\ [][StoreNext]_storeVars

-----------------------------------------------------------------------------
StoreTypeOK ==
    /\ mode \in {"server", "file", "mock"}
    /\ stored \in [Keys -> Seq(Tasks \X Nat)]
    /\ base \in [Keys -> Nat]
    /\ log \in [Tasks -> Keys \cup {NoKey}]
    /\ place \in [Tasks -> {"idle", "called", "message", "check", "commit", "done"}]
    /\ \A t \in Tasks : place[t] # "idle" => log[t] \in Keys
    /\ next \in [Tasks -> Nat] /\ \A t \in Tasks : next[t] \in 1..Parts[t]
    /\ answer \in [Tasks -> {"none", "acked", "pretended", "failed"}]
    /\ client \in [Tasks -> {"idle", "waiting", "true", "false", "late"}]
    /\ read \in [Tasks -> [from : Nat, to : Nat]]
    /\ faults \in 0..MaxFaults

\* A turn whose append was acknowledged, by more than a mock, is in its session as a
\* whole, whatever other appends, commits, failures and restarts went on meanwhile;
\* and the messages of any turn are there once each, in their order, from the first on.
AckMeansStored ==
    \A t \in Tasks : log[t] \in Keys =>
        LET Held == {i \in DOMAIN stored[log[t]] : stored[log[t]][i][1] = t}
            Part(i) == stored[log[t]][i][2] IN
        /\ client[t] = "true" /\ answer[t] = "acked" =>
               \A p \in 1..Parts[t] : \E i \in Held : Part(i) = p
        /\ \A i \in Held : Part(i) > 1 => \E j \in Held : j < i /\ Part(j) = Part(i) - 1
        /\ \A i, j \in Held : i < j => Part(i) < Part(j)
=============================================================================
