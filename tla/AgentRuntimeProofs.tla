------------------------- MODULE AgentRuntimeProofs -------------------------
(***************************************************************************)
(* Proofs about AgentRuntime, for every set of agents and replies and      *)
(* every limit.                                                            *)
(***************************************************************************)
EXTENDS AgentRuntime, SequenceTheorems, TLAPS

\* Where process_task is determines whether the task runs.
PlaceOfStatus ==
    /\ pc \in {"first", "send"} => status = "running"
    /\ pc = "loop" => status \in {"running", "completed"}
    /\ pc \in {"idle", "finish", "ended"} => status # "running"

\* Before the last event the user has been answered.
AnsweredBefore == pc = "finish" => events = <<"task_started", "answer">>

\* The loop stops before its counter passes the limit.
StepsBounded ==
    /\ steps \in 0..(MaxSteps + 1)
    /\ pc # "ended" => steps <= MaxSteps

IInv ==
    /\ TypeOK
    /\ PlaceOfStatus
    /\ StackRooted
    /\ AnsweredOnce
    /\ AnsweredBefore
    /\ OutputKept

-----------------------------------------------------------------------------
(* Facts about the operators.                                              *)

\* The short logs of events, written out.
LEMMA LogOfTwo ==
  ASSUME NEW a, NEW b
  PROVE  Append(<<a>>, b) = <<a, b>> /\ <<a>> \o <<b>> = <<a, b>>
<1> DEFINE s == Append(<<a>>, b)
           t == <<a, b>>
<1>1. s \in Seq({a, b}) /\ t \in Seq({a, b})
  OBVIOUS
<1>2. Len(s) = 2 /\ Len(t) = 2 /\ s[1] = t[1] /\ s[2] = t[2]
  OBVIOUS
<1>3. <<a>> \o <<b>> = s
  BY <<a>> \in Seq({a, b}), b \in {a, b}, AppendIsConcat
<1> HIDE DEF s, t
<1>4. \A i \in 1..Len(s) : s[i] = t[i]
  BY <1>2
<1>5. s = t
  BY <1>1, <1>2, <1>4, SeqEqual
<1> QED
  BY <1>3, <1>5 DEF s, t

LEMMA LogOfThree ==
  ASSUME NEW a, NEW b, NEW c
  PROVE  Append(<<a, b>>, c) = <<a, b, c>>
<1> DEFINE s == Append(<<a, b>>, c)
           t == <<a, b, c>>
<1>1. s \in Seq({a, b, c}) /\ t \in Seq({a, b, c})
  OBVIOUS
<1>2. Len(s) = 3 /\ Len(t) = 3 /\ s[1] = t[1] /\ s[2] = t[2] /\ s[3] = t[3]
  OBVIOUS
<1> HIDE DEF s, t
<1>3. \A i \in 1..Len(s) : s[i] = t[i]
  BY <1>2
<1>4. s = t
  BY <1>1, <1>2, <1>3, SeqEqual
<1> QED
  BY <1>4 DEF s, t

\* A text made in this state or by this step is a text.
LEMMA TextType ==
  ASSUME calls \in 0..MaxCalls, NEW kind \in Kinds
  PROVE  Text(kind) \in Texts
BY DEF Text, Texts

LEMMA TextOfType ==
  ASSUME calls' \in 0..MaxCalls, NEW kind \in Kinds
  PROVE  TextOf(kind) \in Texts
BY DEF TextOf, Texts

LEMMA NoneType == None \in Texts
BY LimitsAssumption DEF None, Texts, Kinds

\* Pushing an agent keeps the stack typed and rooted.
LEMMA PushAgent ==
  ASSUME NEW s \in Seq(Agents \cup {User}), NEW a \in Agents,
         s # <<>>, \A i \in DOMAIN s : s[i] = User <=> i = 1
  PROVE  /\ Append(s, a) \in Seq(Agents \cup {User})
         /\ Append(s, a) # <<>>
         /\ \A i \in DOMAIN Append(s, a) : Append(s, a)[i] = User <=> i = 1
<1>1. a # User
  BY AgentsAssumption
<1>2. Len(Append(s, a)) = Len(s) + 1 /\ Len(s) \in Nat \ {0}
  OBVIOUS
<1>3. \A i \in 1..Len(s) : Append(s, a)[i] = s[i]
  OBVIOUS
<1>4. Append(s, a)[Len(s) + 1] = a
  OBVIOUS
<1> QED
  BY <1>1, <1>2, <1>3, <1>4

\* So does popping one.
LEMMA PopFrame ==
  ASSUME NEW s \in Seq(Agents \cup {User}),
         s # <<>>, \A i \in DOMAIN s : s[i] = User <=> i = 1
  PROVE  /\ SubSeq(s, 1, Len(s) - 1) \in Seq(Agents \cup {User})
         /\ s[Len(s)] \in Agents \cup {User}
         /\ s[Len(s)] # User =>
                /\ SubSeq(s, 1, Len(s) - 1) # <<>>
                /\ \A i \in DOMAIN SubSeq(s, 1, Len(s) - 1) : SubSeq(s, 1, Len(s) - 1)[i] = User <=> i = 1
<1>1. Len(s) \in Nat \ {0} /\ DOMAIN s = 1..Len(s)
  OBVIOUS
<1>2. s[Len(s)] \in Agents \cup {User}
  BY <1>1
<1>3. SubSeq(s, 1, Len(s) - 1) \in Seq(Agents \cup {User})
  BY <1>1
<1>4. ASSUME s[Len(s)] # User
      PROVE  /\ SubSeq(s, 1, Len(s) - 1) # <<>>
             /\ \A i \in DOMAIN SubSeq(s, 1, Len(s) - 1) : SubSeq(s, 1, Len(s) - 1)[i] = User <=> i = 1
  <2>1. Len(s) >= 2
    BY <1>1, <1>4
  <2>2. Len(SubSeq(s, 1, Len(s) - 1)) = Len(s) - 1
    BY <1>1
  <2>3. \A i \in 1..(Len(s) - 1) : SubSeq(s, 1, Len(s) - 1)[i] = s[i]
    BY <1>1
  <2> QED
    BY <1>1, <1>3, <2>1, <2>2, <2>3
<1> QED
  BY <1>2, <1>3, <1>4

-----------------------------------------------------------------------------
(* The counter of the loop, which needs no other part of the invariant.    *)

LEMMA StepsInvariance == Spec => []StepsBounded
<1>1. Init => StepsBounded
  BY LimitsAssumption DEF Init, StepsBounded
<1>2. StepsBounded /\ [Next]_vars => StepsBounded'
  <2> SUFFICES ASSUME StepsBounded, [Next]_vars PROVE StepsBounded'
    OBVIOUS
  <2>1. CASE UNCHANGED vars
    BY <2>1 DEF StepsBounded, vars
  <2>2. CASE StartTask
    BY <2>2, LimitsAssumption DEF StepsBounded, StartTask
  <2>3. CASE FirstCall \/ FirstCallFails \/ ModelFails \/ SendRaises \/ LoopEnds \/ Finish
    BY <2>3 DEF StepsBounded, FirstCall, FirstCallFails, ModelFails, SendRaises, LoopEnds, Finish
  <2>4. ASSUME NEW r \in Replies, Send(r) PROVE StepsBounded'
    <3>1. pc = "send" /\ steps' = steps
      BY <2>4 DEF Send, ReplyTool, ReplyUser, ReplyCall, ReplyCallFails, ReplyQuestion, ReplyPlain, Reply
    <3> QED
      BY <3>1 DEF StepsBounded
  <2>5. CASE LoopAborts
    BY <2>5, LimitsAssumption DEF StepsBounded, LoopAborts
  <2>6. CASE PopUser \/ PopAgent
    <3>1. ~ LimitReached /\ steps' = (IF steps <= MaxSteps THEN steps + 1 ELSE steps)
      BY <2>6 DEF PopUser, PopAgent, Pop
    <3> QED
      BY <3>1, LimitsAssumption DEF StepsBounded, LimitReached
  <2> QED
    BY <2>1, <2>2, <2>3, <2>4, <2>5, <2>6 DEF Next, Execute
<1> QED
  BY <1>1, <1>2, PTL DEF Spec

-----------------------------------------------------------------------------
(* The invariant.                                                          *)

LEMMA InitIInv == Init => IInv
<1> SUFFICES ASSUME Init PROVE IInv
  OBVIOUS
<1>1. TypeOK
  BY NoneType, AgentsAssumption, LimitsAssumption DEF Init, TypeOK
<1>2. PlaceOfStatus /\ StackRooted /\ AnsweredOnce /\ AnsweredBefore /\ OutputKept
  BY DEF Init, PlaceOfStatus, StackRooted, AnsweredOnce, AnsweredBefore, OutputKept
<1> QED
  BY <1>1, <1>2 DEF IInv

LEMMA StartIInv ==
  ASSUME IInv, StartTask
  PROVE  IInv'
<1>1. TypeOK'
  BY NoneType, LimitsAssumption DEF IInv, TypeOK, StartTask
<1>2. (PlaceOfStatus /\ StackRooted /\ AnsweredOnce /\ AnsweredBefore /\ OutputKept)'
  BY DEF StartTask, PlaceOfStatus, StackRooted, AnsweredOnce, AnsweredBefore, OutputKept
<1> QED
  BY <1>1, <1>2 DEF IInv

LEMMA FirstIInv ==
  ASSUME IInv, FirstCall \/ FirstCallFails
  PROVE  IInv'
<1>1. CASE FirstCall
  <2>1. TypeOK'
    BY <1>1, AgentsAssumption, LimitsAssumption DEF IInv, TypeOK, FirstCall
  <2>2. (PlaceOfStatus /\ StackRooted /\ AnsweredOnce /\ AnsweredBefore /\ OutputKept)'
    BY <1>1 DEF IInv, FirstCall, PlaceOfStatus, StackRooted, AnsweredOnce, AnsweredBefore, OutputKept
  <2> QED
    BY <2>1, <2>2 DEF IInv
<1>2. CASE FirstCallFails
  <2>1. Text("exception") \in Texts
    BY TextType DEF IInv, TypeOK, Kinds
  <2>2. events' = <<"task_started", "answer">>
    BY <1>2, LogOfTwo DEF IInv, AnsweredOnce, FirstCallFails, Say, Emit
  <2>3. TypeOK'
    BY <1>2, <2>1, <2>2 DEF IInv, TypeOK, FirstCallFails, Say
  <2>4. (PlaceOfStatus /\ StackRooted /\ AnsweredOnce /\ AnsweredBefore /\ OutputKept)'
    BY <1>2, <2>2 DEF FirstCallFails, Say, PlaceOfStatus, StackRooted, AnsweredOnce, AnsweredBefore, OutputKept
  <2> QED
    BY <2>3, <2>4 DEF IInv
<1> QED
  BY <1>1, <1>2

\* Answering the user from a send, whatever happens to the rest of the state.
LEMMA SayFromSend ==
  ASSUME IInv, pc = "send", NEW text \in Texts, Say(text),
         default' \in Names \cup {User}, agent' = agent, depth' = depth, tasks' = tasks, top' = top,
         stack' \in Seq(Agents \cup {User}), calls' \in 0..MaxCalls,
         final' = final, steps' = steps, stored' = stored,
         pc' \in {"loop", "finish", "ended"}
  PROVE  IInv'
<1>1. events' = <<"task_started", "answer">>
  BY LogOfTwo DEF IInv, AnsweredOnce, Say, Emit
<1>2. <<"task_started", "answer">> = <<"task_started">> \o <<"answer">>
  BY LogOfTwo
<1>3. TypeOK'
  BY <1>1 DEF IInv, TypeOK, Say
<1>4. (PlaceOfStatus /\ StackRooted /\ AnsweredOnce /\ AnsweredBefore /\ OutputKept)'
  BY <1>1, <1>2 DEF Say, PlaceOfStatus, StackRooted, AnsweredOnce, AnsweredBefore, OutputKept
<1> QED
  BY <1>3, <1>4 DEF IInv

LEMMA FailureIInv ==
  ASSUME IInv, ModelFails \/ SendRaises
  PROVE  IInv'
<1>1. Text("modelError") \in Texts /\ Text("reply") \in Texts /\ Text("exception") \in Texts
  BY TextType DEF IInv, TypeOK, Kinds
<1>2. CASE ModelFails
  BY <1>1, <1>2, SayFromSend DEF ModelFails, IInv, TypeOK
<1>3. CASE SendRaises
  <2> DEFINE text == IF depth > 0 THEN Text("reply") ELSE IF top = "first" THEN Text("exception") ELSE final
  <2>1. text \in Texts
    BY <1>1 DEF IInv, TypeOK
  <2>2. Say(text) /\ pc = "send" /\ pc' \in {"loop", "finish", "ended"}
    BY <1>3 DEF SendRaises
  <2>3. UNCHANGED <<default, tasks, agent, depth, top, stack, final, steps, calls, stored>>
    BY <1>3 DEF SendRaises
  <2> HIDE DEF text
  <2> QED
    BY <2>1, <2>2, <2>3, SayFromSend DEF IInv, TypeOK
<1> QED
  BY <1>2, <1>3

\* What every reply preserves.
LEMMA ReplyFacts ==
  ASSUME IInv, NEW r \in Replies, Reply(r)
  PROVE  /\ pc = "send" /\ status = "running" /\ agent \in Agents
         /\ calls' \in 0..MaxCalls
         /\ default' \in Names \cup {User}
         /\ Pushed(r) \in Seq(Agents \cup {User})
         /\ Pushed(r) # <<>>
         /\ \A i \in DOMAIN Pushed(r) : Pushed(r)[i] = User <=> i = 1
         /\ UNCHANGED <<tasks, top, final, steps, stored>>
<1>1. pc = "send" /\ status = "running" /\ agent \in Agents
  BY DEF IInv, TypeOK, PlaceOfStatus, Reply
<1>2. calls' \in 0..MaxCalls
  BY LimitsAssumption DEF IInv, TypeOK, Reply
<1>3. default' \in Names \cup {User}
  BY AgentsAssumption DEF IInv, TypeOK, Reply, Switches, ReplyTypes
<1>4. stack \in Seq(Agents \cup {User}) /\ stack # <<>> /\ \A i \in DOMAIN stack : stack[i] = User <=> i = 1
  BY <1>1 DEF IInv, TypeOK, StackRooted
<1>5. /\ Pushed(r) \in Seq(Agents \cup {User})
      /\ Pushed(r) # <<>>
      /\ \A i \in DOMAIN Pushed(r) : Pushed(r)[i] = User <=> i = 1
  BY <1>1, <1>4, PushAgent DEF Pushed
<1> QED
  BY <1>1, <1>2, <1>3, <1>5 DEF Reply

\* A reply that hands an output on, down the stack or to a nested send.
LEMMA OutputFromSend ==
  ASSUME IInv, NEW r \in Replies, Reply(r), NEW text \in Texts, out' = text,
         text.kind # "none", text.call = calls',
         agent' \in Agents, depth' \in 0..MaxDepth,
         stack' \in Seq(Agents \cup {User}), stack' # <<>>,
         \A i \in DOMAIN stack' : stack'[i] = User <=> i = 1,
         UNCHANGED <<status, sendText, events>>, pc' \in {"send", "loop"}
  PROVE  IInv'
<1>1. events' = <<"task_started">> /\ status' = "running" /\ status = "running"
  BY ReplyFacts DEF IInv, AnsweredOnce
<1>2. TypeOK'
  BY ReplyFacts DEF IInv, TypeOK
<1>3. <<"task_started">> = <<"task_started">> \o <<>>
  OBVIOUS
<1>4. (PlaceOfStatus /\ StackRooted /\ AnsweredOnce /\ AnsweredBefore /\ OutputKept)'
  BY <1>1, <1>3 DEF PlaceOfStatus, StackRooted, AnsweredOnce, AnsweredBefore, OutputKept
<1> QED
  BY <1>2, <1>4 DEF IInv

LEMMA SendIInv ==
  ASSUME IInv, NEW r \in Replies, Send(r)
  PROVE  IInv'
<1>0. Reply(r)
  BY DEF Send, ReplyTool, ReplyUser, ReplyCall, ReplyCallFails, ReplyQuestion, ReplyPlain
<1>1. \A kind \in Kinds \ {"none"} :
          TextOf(kind) \in Texts /\ TextOf(kind).kind # "none" /\ TextOf(kind).call = calls'
  BY <1>0, ReplyFacts, TextOfType DEF TextOf
<1>2. agent \in Agents /\ depth \in 0..MaxDepth
  BY DEF IInv, TypeOK
<1>3. CASE ReplyTool(r)
  <2>1. out' \in Texts /\ out'.kind # "none" /\ out'.call = calls'
    BY <1>1, <1>3 DEF ReplyTool, Kinds
  <2>2. pc' = "loop" /\ stack' = Pushed(r) /\ UNCHANGED <<agent, depth, status, sendText, events>>
    BY <1>3 DEF ReplyTool
  <2> QED
    BY <1>0, <1>2, <2>1, <2>2, ReplyFacts, OutputFromSend
<1>4. CASE ReplyUser(r)
  <2>1. PICK text \in Texts : Say(text)
    BY <1>1, <1>4 DEF ReplyUser, Kinds
  <2>2. pc' = "loop" /\ stack' = Pushed(r) /\ UNCHANGED <<agent, depth>>
    BY <1>4 DEF ReplyUser
  <2> QED
    BY <1>0, <2>1, <2>2, ReplyFacts, SayFromSend
<1>5. CASE ReplyCall(r)
  <2>1. out' \in Texts /\ out'.kind # "none" /\ out'.call = calls'
    BY <1>1, <1>5 DEF ReplyCall, Kinds
  <2>2. /\ pc' = pc /\ pc = "send"
        /\ stack' = Append(Pushed(r), agent)
        /\ agent' \in Agents /\ depth' \in 0..MaxDepth
        /\ UNCHANGED <<status, sendText, events>>
    BY <1>0, <1>2, <1>5, ReplyFacts, LimitsAssumption DEF ReplyCall
  <2>3. /\ stack' \in Seq(Agents \cup {User})
        /\ stack' # <<>>
        /\ \A i \in DOMAIN stack' : stack'[i] = User <=> i = 1
    BY <1>0, <1>2, <2>2, ReplyFacts, PushAgent
  <2> QED
    BY <1>0, <2>1, <2>2, <2>3, OutputFromSend
<1>6. CASE ReplyCallFails(r)
  <2>1. PICK text \in Texts : Say(text)
    BY <1>1, <1>6 DEF ReplyCallFails, Kinds
  <2>2. pc' = "loop" /\ stack' = Append(Pushed(r), agent) /\ UNCHANGED <<agent, depth>>
    BY <1>6 DEF ReplyCallFails
  <2>3. stack' \in Seq(Agents \cup {User})
    BY <1>0, <1>2, <2>2, ReplyFacts, PushAgent
  <2> QED
    BY <1>0, <2>1, <2>2, <2>3, ReplyFacts, SayFromSend
<1>7. CASE ReplyQuestion(r)
  <2>1. PICK text \in Texts : Say(text)
    BY <1>1, <1>7 DEF ReplyQuestion, Kinds
  <2>2. pc' = "loop" /\ stack' = Pushed(r) /\ UNCHANGED <<agent, depth>>
    BY <1>7 DEF ReplyQuestion
  <2> QED
    BY <1>0, <2>1, <2>2, ReplyFacts, SayFromSend
<1>8. CASE ReplyPlain(r)
  <2>1. out' \in Texts /\ out'.kind # "none" /\ out'.call = calls'
    BY <1>1, <1>8 DEF ReplyPlain, PlainOutput, Kinds
  <2>2. pc' = "loop" /\ stack' = Pushed(r) /\ UNCHANGED <<agent, depth, status, sendText, events>>
    BY <1>8 DEF ReplyPlain
  <2> QED
    BY <1>0, <1>2, <2>1, <2>2, ReplyFacts, OutputFromSend
<1> QED
  BY <1>3, <1>4, <1>5, <1>6, <1>7, <1>8 DEF Send

LEMMA LoopIInv ==
  ASSUME IInv, StepsBounded, LoopEnds \/ LoopAborts \/ PopUser \/ PopAgent
  PROVE  IInv'
<1>1. CASE LoopEnds
  <2>1. status # "running"
    BY <1>1 DEF LoopEnds, Continues, IInv, StackRooted
  <2>2. <<"task_started">> \o <<"answer">> = <<"task_started", "answer">>
    BY LogOfTwo
  <2>3. events = <<"task_started", "answer">>
    BY <1>1, <2>1, <2>2 DEF LoopEnds, IInv, AnsweredOnce
  <2>4. TypeOK'
    BY <1>1 DEF LoopEnds, IInv, TypeOK
  <2>5. (PlaceOfStatus /\ StackRooted /\ AnsweredOnce /\ AnsweredBefore /\ OutputKept)'
    BY <1>1, <2>1, <2>3 DEF LoopEnds, PlaceOfStatus, StackRooted, AnsweredOnce, AnsweredBefore, OutputKept
  <2> QED
    BY <2>4, <2>5 DEF IInv
<1>2. ASSUME pc = "loop", Continues
      PROVE  /\ events = <<"task_started">>
             /\ stack \in Seq(Agents \cup {User})
             /\ stack # <<>>
             /\ \A i \in DOMAIN stack : stack[i] = User <=> i = 1
  <2>1. <<"task_started">> \o <<>> = <<"task_started">>
    OBVIOUS
  <2> QED
    BY <1>2, <2>1 DEF IInv, TypeOK, Continues, AnsweredOnce, StackRooted
<1>3. CASE LoopAborts
  <2>1. events' = <<"task_started", "task_failed">>
    BY <1>2, <1>3, LogOfTwo DEF LoopAborts, Emit
  <2>2. steps' \in 0..(MaxSteps + 1)
    BY <1>3, LimitsAssumption DEF LoopAborts, StepsBounded
  <2>3. TypeOK'
    BY <1>3, <2>1, <2>2 DEF LoopAborts, IInv, TypeOK
  <2>4. (PlaceOfStatus /\ StackRooted /\ AnsweredOnce /\ AnsweredBefore /\ OutputKept)'
    BY <1>3, <2>1 DEF LoopAborts, PlaceOfStatus, StackRooted, AnsweredOnce, AnsweredBefore, OutputKept
  <2> QED
    BY <2>3, <2>4 DEF IInv
<1>4. Output \in Texts
  BY TextType DEF Output, IInv, TypeOK, Kinds
<1>5. ASSUME Pop
      PROVE  /\ steps' \in 0..(MaxSteps + 1)
             /\ final' \in Texts
             /\ stack' \in Seq(Agents \cup {User})
             /\ stack[Len(stack)] # User =>
                    /\ stack[Len(stack)] \in Agents
                    /\ stack' # <<>>
                    /\ \A i \in DOMAIN stack' : stack'[i] = User <=> i = 1
  <2>1. steps' \in 0..(MaxSteps + 1)
    BY <1>5, LimitsAssumption DEF Pop, IInv, TypeOK
  <2> QED
    BY <1>2, <1>4, <1>5, <2>1, PopFrame DEF Pop, Popped
<1>6. CASE PopUser
  <2>1. events' = <<"task_started", "answer">>
    BY <1>2, <1>6, LogOfTwo DEF PopUser, Pop, Say, Emit
  <2>2. TypeOK'
    BY <1>4, <1>5, <1>6, <2>1 DEF PopUser, Say, IInv, TypeOK
  <2>3. (PlaceOfStatus /\ StackRooted /\ AnsweredOnce /\ AnsweredBefore /\ OutputKept)'
    BY <1>6, <2>1 DEF PopUser, Say, PlaceOfStatus, StackRooted, AnsweredOnce, AnsweredBefore, OutputKept
  <2> QED
    BY <2>2, <2>3 DEF IInv
<1>7. CASE PopAgent
  <2>1. status = "running" /\ events = <<"task_started">>
    BY <1>2, <1>7 DEF PopAgent, Pop, Continues
  <2>2. TypeOK'
    BY <1>5, <1>7, NoneType, LimitsAssumption DEF PopAgent, IInv, TypeOK
  <2>3. (PlaceOfStatus /\ StackRooted /\ AnsweredOnce /\ AnsweredBefore /\ OutputKept)'
    BY <1>5, <1>7, <2>1 DEF PopAgent, PlaceOfStatus, StackRooted, AnsweredOnce, AnsweredBefore, OutputKept
  <2> QED
    BY <2>2, <2>3 DEF IInv
<1> QED
  BY <1>1, <1>3, <1>6, <1>7

LEMMA FinishIInv ==
  ASSUME IInv, Finish
  PROVE  IInv'
<1>1. events' = <<"task_started", "answer", "task_completed">>
  BY LogOfThree DEF Finish, Emit, IInv, AnsweredBefore
<1>2. final' \in Texts
  BY DEF Finish, IInv, TypeOK
<1>3. stored' \in Texts
  BY <1>2, NoneType DEF Finish
<1>4. TypeOK'
  BY <1>1, <1>2, <1>3 DEF Finish, IInv, TypeOK
<1>5. (PlaceOfStatus /\ StackRooted /\ AnsweredOnce /\ AnsweredBefore /\ OutputKept)'
  BY <1>1 DEF Finish, IInv, PlaceOfStatus, StackRooted, AnsweredOnce, AnsweredBefore, OutputKept
<1> QED
  BY <1>4, <1>5 DEF IInv

LEMMA StepIInv == IInv /\ StepsBounded /\ [Next]_vars => IInv'
<1> SUFFICES ASSUME IInv, StepsBounded, [Next]_vars PROVE IInv'
  OBVIOUS
<1>1. CASE UNCHANGED vars
  BY <1>1 DEF vars, IInv, TypeOK, PlaceOfStatus, StackRooted, AnsweredOnce, AnsweredBefore, OutputKept
<1>2. CASE StartTask
  BY <1>2, StartIInv
<1>3. CASE Execute
  BY <1>3, FirstIInv, FailureIInv, SendIInv, LoopIInv, FinishIInv DEF Execute
<1> QED
  BY <1>1, <1>2, <1>3 DEF Next

LEMMA Invariance == Spec => []IInv
  BY InitIInv, StepIInv, StepsInvariance, PTL DEF Spec

-----------------------------------------------------------------------------
(* The theorems.                                                           *)

\* Every variable keeps its type; in particular no reply, however it combines its
\* directives, makes the service call or push an agent that is not configured.
THEOREM TypeCorrect == Spec => []TypeOK
<1>1. IInv => TypeOK
  BY DEF IInv
<1> QED
  BY <1>1, Invariance, PTL

\* Each task is answered exactly once or reported as failed, and its terminal event is
\* its last, on every path through process_task, send and call_agent (191-525).
THEOREM ExactlyOneAnswer == Spec => []AnsweredOnce
<1>1. IInv => AnsweredOnce
  BY DEF IInv
<1> QED
  BY <1>1, Invariance, PTL

\* The stack of callers always leads back to the user, for nested calls of any depth.
THEOREM StackLeadsToUser == Spec => []StackRooted
<1>1. IInv => StackRooted
  BY DEF IInv
<1> QED
  BY <1>1, Invariance, PTL

\* The output that goes down the stack is the one just produced.
THEOREM NoOutputLost == Spec => []OutputKept
<1>1. IInv => OutputKept
  BY DEF IInv
<1> QED
  BY <1>1, Invariance, PTL

\* Once the user is answered, nothing is called, pushed or popped for the task.
THEOREM NothingAfterAnswer == Spec => SilenceAfterAnswer
<1>1. IInv /\ [Next]_vars =>
          [status # "running" /\ status' # "running" => calls' = calls /\ stack' = stack]_vars
  <2> SUFFICES ASSUME IInv, [Next]_vars, status # "running", status' # "running"
               PROVE  calls' = calls /\ stack' = stack
    OBVIOUS
  <2>1. pc \notin {"first", "send"}
    BY DEF IInv, PlaceOfStatus
  <2>2. ~ Continues
    BY DEF Continues
  <2>3. ~ StartTask /\ ~ LoopAborts /\ ~ PopUser /\ ~ PopAgent
    BY <2>2 DEF StartTask, LoopAborts, PopUser, PopAgent, Pop
  <2>4. ~ FirstCall /\ ~ FirstCallFails /\ ~ ModelFails /\ ~ SendRaises
    BY <2>1 DEF FirstCall, FirstCallFails, ModelFails, SendRaises
  <2>5. \A r \in Replies : ~ Send(r)
    BY <2>1 DEF Send, ReplyTool, ReplyUser, ReplyCall, ReplyCallFails, ReplyQuestion, ReplyPlain, Reply
  <2>6. LoopEnds \/ Finish \/ UNCHANGED vars
    BY <2>3, <2>4, <2>5 DEF Next, Execute
  <2> QED
    BY <2>6 DEF LoopEnds, Finish, vars
<1> QED
  BY <1>1, Invariance, PTL DEF Spec, SilenceAfterAnswer
=============================================================================
