---------------------------- MODULE AgentRuntime ----------------------------
(***************************************************************************)
(* How agent-orchestrator-service executes the tasks of one session, one   *)
(* after the other: AgentRuntime.process_task with send, call_agent and    *)
(* _run_tool (app/agent_runtime.py), the stack of callers of TaskRuntime   *)
(* (app/task_runtime.py) and the decision table of parse_syntax            *)
(* (app/syntax_parser.py).                                                 *)
(*                                                                         *)
(* The model decides what happens next: its reply is an input, described   *)
(* by the directives it contains.  A text is its origin and the number of  *)
(* the model call it comes from.  Prompts, the logs kept for them          *)
(* (tool_log, main_log, main_memory, temp_dialog_input) and images are     *)
(* left out: nothing branches on them.                                     *)
(***************************************************************************)
EXTENDS Integers, Sequences

CONSTANTS
    Names,       \* names a model may write for an agent
    Agents,      \* the names that agent_list.json configures
    Main,        \* "main"
    User,        \* the user: `user', or the user's own id
    Nobody,      \* the directive is absent
    Replies,     \* bound: the replies a model gives
    MaxSteps,    \* MAX_AGENT_STEPS
    MaxDepth,    \* nested sends before Python's recursion limit
    MaxCalls,    \* bound: model calls are numbered up to here
    MaxTasks     \* bound: tasks of the session

\* The directives a reply may contain: a shell line; a call of an agent or of the
\* user; a tool line, void if no tool can be read from it; a switch of the default
\* agent, pure if the reply is nothing else; a timer; a question, blank if no text
\* follows; or no text at all.
ReplyTypes ==
    {r \in [shell : BOOLEAN, call : Names \cup {User, Nobody}, tool : {"none", "named", "void"},
            switch : Names \cup {User, Nobody}, pure : BOOLEAN, timer : BOOLEAN,
            question : {"none", "asked", "blank"}, empty : BOOLEAN] :
        LET silent == ~ r.shell /\ r.call = Nobody /\ r.tool = "none" /\ ~ r.timer /\ r.question = "none" IN
        /\ r.pure => silent /\ r.switch # Nobody
        /\ r.empty => silent /\ r.switch = Nobody}

ASSUME AgentsAssumption ==
    /\ Main \in Agents
    /\ Agents \subseteq Names
    /\ User \notin Names
    /\ Nobody \notin Names \cup {User}
    /\ Replies \subseteq ReplyTypes

ASSUME LimitsAssumption ==
    /\ {MaxSteps, MaxTasks} \subseteq Nat \ {0}
    /\ {MaxDepth, MaxCalls} \subseteq Nat

VARIABLES
    default,    \* default_agent[session_id]
    tasks,      \* tasks of the session so far
    pc,         \* where process_task is
    agent,      \* the agent whose send() runs
    depth,      \* how many sends its call is nested in
    top,        \* the outermost send is the first call or one of the loop
    stack,      \* task.agent_context: who is to receive the output
    out,        \* task.temp_dialog_output
    status,     \* task.status
    sendText,   \* task.send_text: the answer the user got
    final,      \* final_reply
    steps,      \* steps
    calls,      \* model calls so far
    events,     \* what was emitted, but for assistant_intermediate
    stored      \* assistant_message of the turn in the context service

vars == <<default, tasks, pc, agent, depth, top, stack, out, status, sendText, final, steps,
          calls, events, stored>>

Kinds == {"none", "empty", "reply", "content", "request", "question", "timer", "result",
          "modelError", "exception", "lost"}
Texts == [kind : Kinds, call : 0..MaxCalls]

Text(kind) == [kind |-> kind, call |-> calls]
None == [kind |-> "none", call |-> 0]

\* What `or' takes for false.
Falsy(text) == text.kind \in {"none", "empty"}

Init ==
    /\ default = Main
    /\ tasks = 0
    /\ pc = "idle"
    /\ agent = Main
    /\ depth = 0
    /\ top = "first"
    /\ stack = <<>>
    /\ out = None
    /\ status = "completed"
    /\ sendText = None
    /\ final = None
    /\ steps = 0
    /\ calls = 0
    /\ events = <<>>
    /\ stored = None

-----------------------------------------------------------------------------
Emit(type) == events' = Append(events, type)

\* _emit_user_message(final=True).
Say(text) ==
    /\ Emit("answer")
    /\ sendText' = text
    /\ out' = text
    /\ status' = "completed"

\* TaskRuntime.__post_init__, and process_task as far as its first call.
StartTask ==
    /\ pc \in {"idle", "ended"}
    /\ tasks < MaxTasks
    /\ tasks' = tasks + 1
    /\ stack' = <<User>>
    /\ out' = None
    /\ status' = "running"
    /\ sendText' = None
    /\ final' = None
    /\ steps' = 0
    /\ calls' = 0
    /\ events' = <<"task_started">>
    /\ stored' = None
    /\ pc' = "first"
    /\ UNCHANGED <<default, agent, depth, top>>

\* The default agent that is read is written back as it is, as one task runs at a time
\* here (tasks that overlap are in Session).
FirstCall ==
    /\ pc = "first"
    /\ default \in Agents
    /\ agent' = default
    /\ depth' = 0
    /\ top' = "first"
    /\ pc' = "send"
    /\ UNCHANGED <<default, tasks, stack, out, status, sendText, final, steps, calls, events, stored>>

\* get_agent raises: there is no such agent, its configuration cannot be read or its
\* entry in the cache is lost.  process_task returns after an answer, without
\* task_completed.
FirstCallFails ==
    /\ pc = "first"
    /\ Say(Text("exception"))
    /\ pc' = "ended"
    /\ UNCHANGED <<default, tasks, agent, depth, top, stack, final, steps, calls, stored>>

-----------------------------------------------------------------------------
(* send: one call of the model and what follows from its reply.            *)

\* The model proxy fails or times out.
ModelFails ==
    /\ pc = "send"
    /\ Say(Text("modelError"))
    /\ pc' = "loop"
    /\ UNCHANGED <<default, tasks, agent, depth, top, stack, final, steps, calls, stored>>

\* send raises ahead of its handlers (an entry of its configuration is no number).
\* Nested, the caller's handler shows the caller's reply; from the first call
\* process_task returns; from its loop it shows the output it had popped.
SendRaises ==
    /\ pc = "send"
    /\ Say(IF depth > 0 THEN Text("reply") ELSE IF top = "first" THEN Text("exception") ELSE final)
    /\ pc' = IF depth > 0 THEN "loop" ELSE IF top = "first" THEN "ended" ELSE "finish"
    /\ UNCHANGED <<default, tasks, agent, depth, top, stack, final, steps, calls, stored>>

\* parse_syntax.  A shell line comes before everything else in the reply.
ToolLine(r) == r.shell \/ r.tool # "none"
RunsTool(r) == r.shell \/ r.tool = "named"

\* Mutant: an absent switch switches too.
SwitchesAlways(r) == ~ r.shell

Switches(r) == ~ r.shell /\ r.switch # Nobody

\* The agent called, or the user: by a call, or by nothing but a switch to another.
Callee(r) ==
    IF r.shell THEN Nobody
    ELSE IF r.call # Nobody THEN r.call
    ELSE IF r.pure /\ r.switch # agent THEN r.switch
    ELSE Nobody

Undecided(r) == ~ RunsTool(r) /\ Callee(r) = Nobody

Asks(r) == Undecided(r) /\ r.question = "asked" /\ ~ r.timer

\* A tool line pushes the agent itself, whether or not a tool can be read from it.
Pushed(r) == IF ToolLine(r) THEN Append(stack, agent) ELSE stack

\* What every reply does.
Reply(r) ==
    /\ pc = "send"
    /\ calls' = IF calls < MaxCalls THEN calls + 1 ELSE calls
    /\ default' = IF Switches(r) THEN r.switch ELSE default
    /\ UNCHANGED <<tasks, top, final, steps, stored>>

TextOf(kind) == [kind |-> kind, call |-> calls']

\* _run_tool: its output, its error message or nothing.
ReplyTool(r) ==
    /\ RunsTool(r)
    /\ Reply(r)
    /\ stack' = Pushed(r)
    /\ out' \in {TextOf("result"), TextOf("empty")}
    /\ pc' = "loop"
    /\ UNCHANGED <<agent, depth, status, sendText, events>>

\* The user is called: with the content of the call, or by a switch to `user' with
\* the user's own request.
ReplyUser(r) ==
    /\ ~ RunsTool(r)
    /\ Callee(r) = User
    /\ Reply(r)
    /\ stack' = Pushed(r)
    /\ Say(TextOf(IF r.call = User THEN "content" ELSE "request"))
    /\ pc' = "loop"
    /\ UNCHANGED <<agent, depth>>

\* call_agent.
ReplyCall(r) ==
    /\ ~ RunsTool(r)
    /\ Callee(r) \in Agents
    /\ depth < MaxDepth
    /\ Reply(r)
    /\ stack' = Append(Pushed(r), agent)
    /\ out' = IF r.call = Nobody THEN TextOf("empty") ELSE TextOf("reply")
    /\ agent' = Callee(r)
    /\ depth' = depth + 1
    /\ UNCHANGED <<pc, status, sendText, events>>

\* get_agent raises, or the recursion is too deep: the reply itself is shown.
ReplyCallFails(r) ==
    /\ ~ RunsTool(r)
    /\ Callee(r) \in Names
    /\ Reply(r)
    /\ stack' = Append(Pushed(r), agent)
    /\ Say(TextOf("reply"))
    /\ pc' = "loop"
    /\ UNCHANGED <<agent, depth>>

ReplyQuestion(r) ==
    /\ Asks(r)
    /\ Reply(r)
    /\ stack' = Pushed(r)
    /\ Say(TextOf("question"))
    /\ pc' = "loop"
    /\ UNCHANGED <<agent, depth>>

\* Mutant: a timer's confirmation is emitted and not handed on.
NoOutput(r) == IF r.timer THEN None ELSE TextOf("reply")

\* A timer's confirmation, the reply, or nothing after `ask:' or in an empty reply.
PlainOutput(r) ==
    TextOf(IF r.timer THEN "timer" ELSE IF r.empty \/ r.question = "blank" THEN "empty" ELSE "reply")

ReplyPlain(r) ==
    /\ Undecided(r)
    /\ ~ Asks(r)
    /\ Reply(r)
    /\ stack' = Pushed(r)
    /\ out' = PlainOutput(r)
    /\ pc' = "loop"
    /\ UNCHANGED <<agent, depth, status, sendText, events>>

-----------------------------------------------------------------------------
(* The loop of process_task: outputs go back down the stack.               *)

\* Mutant: the status is not looked at.
StackNonempty == stack # <<>>

Continues == stack # <<>> /\ status = "running"

\* Mutant: there is no limit.
NoLimit == FALSE

LimitReached == steps + 1 > MaxSteps

LoopEnds ==
    /\ pc = "loop"
    /\ ~ Continues
    /\ pc' = "finish"
    /\ UNCHANGED <<default, tasks, agent, depth, top, stack, out, status, sendText, final, steps,
                   calls, events, stored>>

LoopAborts ==
    /\ pc = "loop"
    /\ Continues
    /\ LimitReached
    /\ steps' = steps + 1
    /\ status' = "failed"
    /\ Emit("task_failed")
    /\ pc' = "ended"
    /\ UNCHANGED <<default, tasks, agent, depth, top, stack, out, sendText, final, calls, stored>>

Output == IF Falsy(out) THEN Text("lost") ELSE out

\* Mutant: the whole stack is dropped.
Cleared == <<>>

Popped == SubSeq(stack, 1, Len(stack) - 1)

Pop ==
    /\ pc = "loop"
    /\ Continues
    /\ ~ LimitReached
    /\ steps' = IF steps <= MaxSteps THEN steps + 1 ELSE steps
    /\ stack' = Popped
    /\ final' = Output

PopUser ==
    /\ stack # <<>> /\ stack[Len(stack)] = User
    /\ Pop
    /\ Say(Output)
    /\ pc' = "finish"
    /\ UNCHANGED <<default, tasks, agent, depth, top, calls, stored>>

\* The caller receives the output.  (`final_reply = str(output)' follows the send, but
\* nobody reads it before.)
PopAgent ==
    /\ stack # <<>> /\ stack[Len(stack)] # User
    /\ Pop
    /\ agent' = stack[Len(stack)]
    /\ depth' = 0
    /\ top' = "loop"
    /\ out' = None
    /\ pc' = "send"
    /\ UNCHANGED <<default, tasks, status, sendText, calls, events, stored>>

\* append_turn, which may fail unnoticed, and task_completed.
Finish ==
    /\ pc = "finish"
    /\ status' = IF status = "running" THEN "completed" ELSE status
    /\ final' = IF Falsy(final) THEN sendText ELSE final
    /\ stored' \in {None} \cup (IF Falsy(final') THEN {} ELSE {final'})
    /\ Emit("task_completed")
    /\ pc' = "ended"
    /\ UNCHANGED <<default, tasks, agent, depth, top, stack, out, sendText, steps, calls>>

-----------------------------------------------------------------------------
Send(r) ==
    \/ ReplyTool(r)
    \/ ReplyUser(r)
    \/ ReplyCall(r)
    \/ ReplyCallFails(r)
    \/ ReplyQuestion(r)
    \/ ReplyPlain(r)

Execute ==
    \/ FirstCall
    \/ FirstCallFails
    \/ ModelFails
    \/ SendRaises
    \/ \E r \in Replies : Send(r)
    \/ LoopEnds
    \/ LoopAborts
    \/ PopUser
    \/ PopAgent
    \/ Finish

Next == StartTask \/ Execute

Spec == Init /\ [][Next]_vars

\* A task that has begun goes on: every RPC it waits for has a timeout.
FairSpec == Spec /\ WF_vars(Execute)

-----------------------------------------------------------------------------
TypeOK ==
    /\ default \in Names \cup {User}
    /\ tasks \in 0..MaxTasks
    /\ pc \in {"idle", "first", "send", "loop", "finish", "ended"}
    /\ agent \in Agents
    /\ depth \in 0..MaxDepth
    /\ top \in {"first", "loop"}
    /\ stack \in Seq(Agents \cup {User})
    /\ {out, sendText, final, stored} \subseteq Texts
    /\ status \in {"running", "completed", "failed"}
    /\ steps \in 0..(MaxSteps + 1)
    /\ calls \in 0..MaxCalls
    /\ events \in Seq({"task_started", "answer", "task_completed", "task_failed"})

\* However deep agents call each other and wherever an exception is raised, the user
\* is answered exactly once or told that the task failed, and task_completed, which a
\* task cut short by a failing first call lacks, comes last.  The scheduler relies on
\* this (TERMINAL_EVENT_TYPES): a terminal event is the last of the stream.
AnsweredOnce ==
    /\ pc \in {"first", "send"} => events = <<"task_started">>
    /\ pc = "loop" => events = <<"task_started">> \o (IF status = "running" THEN <<>> ELSE <<"answer">>)
    /\ pc = "ended" => events \in {<<"task_started", "answer", "task_completed">>,
                                   <<"task_started", "answer">>, <<"task_started", "task_failed">>}

\* While a task runs, the user's frame is at the bottom of the stack and nowhere else:
\* the chain of callers always ends at the user, even after a void tool line.
StackRooted ==
    status = "running" =>
        /\ stack # <<>>
        /\ \A i \in DOMAIN stack : stack[i] = User <=> i = 1

\* An output on its way down the stack is the latest model call's or its tool's; `lost'
\* (220) is only ever said for an empty text.
OutputKept == pc = "loop" /\ status = "running" => out.kind # "none" /\ out.call = calls

\* After the answer no model is called and nobody is pushed or popped any more.
SilenceAfterAnswer ==
    [][status # "running" /\ status' # "running" => calls' = calls /\ stack' = stack]_vars

\* Every task ends, though models may call tools and each other for ever.
TaskEnds == pc \in {"first", "send", "loop", "finish"} ~> pc = "ended"

\* A question that ends a task is what the context service remembers of the turn, so
\* that the user's next turn carries it (443-446).
QuestionIsStored == stored.kind # "none" /\ sendText.kind = "question" => stored = sendText

\* A task for which the model could not be reached fails (README.md:188).
FailureExposed == pc = "ended" /\ sendText.kind = "modelError" => events[Len(events)] = "task_failed"
=============================================================================
