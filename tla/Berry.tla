-------------------------------- MODULE Berry --------------------------------
(***************************************************************************)
(* The Berry runtime (main/berry_runtime.c, main/berry_mod_mqtt.c) between *)
(* the portal, which submits commands and waits for them with a timeout,   *)
(* and the broker task, which posts topic events and drains the queue of   *)
(* local publishes (main/mqtt_broker.c).                                   *)
(*                                                                         *)
(* A command is a record on the stack of the portal's task, and the queue  *)
(* holds its address.  When the caller gives up, the address stays behind: *)
(* what the berry task finds there is the old command, the next one that   *)
(* the same function puts there, or anything (Panic).                      *)
(***************************************************************************)
EXTENDS Naturals, Sequences, FiniteSets, Functions, SequencesExt

CONSTANTS
  Topic, Filter,
  Match,          \* a subset of Filter \X Topic: the pairs mqtt_topic_matches accepts
  QueueSize,      \* s_cmd_q: 32
  PubQueueSize,   \* s_tester_pub_q: 8
  DrainMax,       \* publishes drained in one turn of the broker task: 8
  SubsMax,        \* bound on the listeners a script installs
  CallMax         \* bound on the portal's commands between two reboots

\* berry_eval and berry_restart each have one command on their stack.
Kind == {"eval", "restart"}

\* What the module of the instance must assume: a queue tells commands from events.
BerryAssumption ==
  /\ Topic \cap Kind = {}
  /\ QueueSize \in Nat /\ PubQueueSize \in Nat /\ DrainMax \in Nat
  /\ SubsMax \in Nat /\ CallMax \in Nat

VARIABLES
  vm,         \* s_vm: up or not, and its list _be_mqtt_subs
  count,      \* s_topic_subs_count
  cmd_q,      \* s_cmd_q: addresses of commands (a Kind) and events (a Topic)
  frames,     \* the commands at the two addresses
  caller,     \* the task portal_http
  task,       \* berry_task
  pub_q,      \* s_tester_pub_q
  broker,     \* broker_task: 0 outside tester_drain_publish_queue, else its turns left + 1
  given_up    \* history: commands whose caller gave up while they were queued or running

vars == <<vm, count, cmd_q, frames, caller, task, pub_q, broker, given_up>>
portal == <<frames, caller, given_up>>

Silent == [at |-> "idle", kind |-> "eval", seq |-> 0, answer |-> 0]
Idle == [at |-> "idle", kind |-> "none", seq |-> 0, i |-> 0, n |-> 0, topic |-> "none", cut |-> FALSE]
NoCommand == [seq |-> 0, done |-> FALSE, answer |-> 0]

Init ==
  /\ vm = [up |-> FALSE, subs |-> <<>>]
  /\ count = 0
  /\ cmd_q = <<>> /\ pub_q = <<>>
  /\ frames = [k \in Kind |-> NoCommand]
  /\ caller = Silent
  /\ task = [Idle EXCEPT !.at = "start", !.kind = "boot"]
  /\ broker = 0
  /\ given_up = 0

-----------------------------------------------------------------------------
(* A name that ends in _Bug is the definition below it with one defect.    *)

Post_Bug(q, size, x) == Append(q, x)
Post(q, size, x) == IF Len(q) < size THEN Append(q, x) ELSE q

\* berry_publish_topic_event: nothing is queued when nobody listens, and an
\* event for which there is no room is dropped.
PostEvent(t) == cmd_q' = IF count > 0 THEN Post(cmd_q, QueueSize, t) ELSE cmd_q

-----------------------------------------------------------------------------
(* The portal *)

\* The caller of a command is still there.
Alive(k) == caller.at # "idle" /\ caller.kind = k

Submit_Bug(k) ==  \* the semaphore of the last command serves again
  /\ caller.at = "idle" /\ caller.seq < CallMax
  /\ caller' = [at |-> "sending", kind |-> k, seq |-> caller.seq + 1, answer |-> 0]
  /\ frames' = [frames EXCEPT ![k].seq = caller.seq + 1]
  /\ UNCHANGED <<vm, count, cmd_q, task, pub_q, broker, given_up>>
Submit(k) ==
  /\ caller.at = "idle" /\ caller.seq < CallMax
  /\ caller' = [at |-> "sending", kind |-> k, seq |-> caller.seq + 1, answer |-> 0]
  /\ frames' = [frames EXCEPT ![k] = [seq |-> caller.seq + 1, done |-> FALSE, answer |-> 0]]
  /\ UNCHANGED <<vm, count, cmd_q, task, pub_q, broker, given_up>>

Enqueue ==
  /\ caller.at = "sending"
  /\ Len(cmd_q) < QueueSize
  /\ cmd_q' = Append(cmd_q, caller.kind)
  /\ caller' = [caller EXCEPT !.at = "waiting"]
  /\ UNCHANGED <<vm, count, frames, task, pub_q, broker, given_up>>

\* No room for 50 ms: the semaphore is deleted.
EnqueueFails ==
  /\ caller.at = "sending"
  /\ Len(cmd_q) = QueueSize
  /\ caller' = [caller EXCEPT !.at = "idle"]
  /\ UNCHANGED <<vm, count, cmd_q, frames, task, pub_q, broker, given_up>>

Answered ==
  /\ caller.at = "waiting" /\ frames[caller.kind].done
  /\ caller' = [caller EXCEPT !.at = "idle", !.answer = frames[caller.kind].answer]
  /\ UNCHANGED <<vm, count, cmd_q, frames, task, pub_q, broker, given_up>>

\* 2 or 3 seconds without an answer.
GiveUp_Bug == UNCHANGED vars  \* waits for ever
GiveUp ==
  /\ caller.at = "waiting" /\ ~frames[caller.kind].done
  /\ caller' = [caller EXCEPT !.at = "idle"]
  /\ given_up' = given_up + 1
  /\ UNCHANGED <<vm, count, cmd_q, frames, task, pub_q, broker>>

-----------------------------------------------------------------------------
(* The berry task *)

Listener(f) == [filter |-> f, calls |-> 0, late |-> task.at = "callback"]

\* vm_construct: an interpreter without listeners, or none.
Construct_Bug ==  \* the count of the old interpreter stands
  \/ vm' = [up |-> TRUE, subs |-> <<>>] /\ UNCHANGED count
  \/ vm' = [up |-> FALSE, subs |-> <<>>] /\ UNCHANGED count
Construct ==
  \/ vm' = [up |-> TRUE, subs |-> <<>>] /\ count' = 0
  \/ vm' = [up |-> FALSE, subs |-> <<>>] /\ UNCHANGED count

\* At boot, and for a restart; the enabled slots are run next.
Start ==
  /\ task.at = "start"
  /\ Construct
  /\ task' = [task EXCEPT !.at = "script"]
  /\ UNCHANGED <<cmd_q, portal, pub_q, broker>>

\* Reading an address whose caller has gone finds what is still there.
TakeCommand_Bug(k) ==  \* xQueuePeek
  /\ task.at = "idle" /\ cmd_q # <<>> /\ Head(cmd_q) = k
  /\ task' = [Idle EXCEPT !.at = IF k = "restart" THEN "start" ELSE "script",
                          !.kind = k, !.seq = frames[k].seq]
  /\ UNCHANGED <<vm, count, cmd_q, portal, pub_q, broker>>
TakeCommand(k) ==
  /\ task.at = "idle" /\ cmd_q # <<>> /\ Head(cmd_q) = k
  /\ cmd_q' = Tail(cmd_q)
  /\ task' = [Idle EXCEPT !.at = IF k = "restart" THEN "start" ELSE "script",
                          !.kind = k, !.seq = frames[k].seq]
  /\ UNCHANGED <<vm, count, portal, pub_q, broker>>

TakeEvent(t) ==
  /\ task.at = "idle" /\ cmd_q # <<>> /\ Head(cmd_q) = t
  /\ cmd_q' = Tail(cmd_q)
  /\ vm' = [vm EXCEPT !.subs = [s \in DOMAIN @ |-> [@[s] EXCEPT !.calls = 0, !.late = FALSE]]]
  /\ task' = IF vm.up THEN [Idle EXCEPT !.at = "dispatch", !.i = 1, !.n = Len(vm.subs), !.topic = t]
                      ELSE Idle
  /\ UNCHANGED <<count, portal, pub_q, broker>>

\* What a script may do, in a slot, in a snippet or in a callback.
Scripting == vm.up /\ task.at \in {"script", "callback"}

m_subscribe(f) ==
  /\ Scripting /\ Len(vm.subs) < SubsMax
  /\ vm' = [vm EXCEPT !.subs = Append(@, Listener(f))]
  /\ count' = Len(vm'.subs)
  /\ UNCHANGED <<cmd_q, portal, task, pub_q, broker>>

m_unsubscribe(f) ==
  LET kept == {k \in DOMAIN vm.subs : vm.subs[k].filter # f} IN
  /\ Scripting
  /\ \E old \in [1..Cardinality(kept) -> kept] :
       /\ \A j, k \in DOMAIN old : j < k => old[j] < old[k]
       /\ vm' = [vm EXCEPT !.subs = [k \in DOMAIN old |-> vm.subs[old[k]]]]
  /\ count' = Len(vm'.subs)
  /\ task' = [task EXCEPT !.cut = @ \/ vm' # vm]
  /\ UNCHANGED <<cmd_q, portal, pub_q, broker>>

m_publish(t) ==
  /\ Scripting
  /\ pub_q' = Post(pub_q, PubQueueSize, t)
  /\ UNCHANGED <<vm, count, cmd_q, portal, task, broker>>

\* The script has ended, with or without an error.  The semaphore given is the
\* one found at the address now.
ScriptEnds ==
  /\ task.at = "script"
  /\ task' = Idle
  /\ frames' = IF task.kind \in Kind
               THEN [frames EXCEPT ![task.kind].done = TRUE, ![task.kind].answer = task.seq]
               ELSE frames
  /\ UNCHANGED <<vm, count, cmd_q, caller, pub_q, broker, given_up>>

\* dispatch_topic: the length of the list is taken once.
Matches(k) == k <= Len(vm.subs) /\ <<vm.subs[k].filter, task.topic>> \in Match

DispatchSkip ==
  /\ task.at = "dispatch" /\ task.i <= task.n /\ ~Matches(task.i)
  /\ task' = [task EXCEPT !.i = @ + 1]
  /\ UNCHANGED <<vm, count, cmd_q, portal, pub_q, broker>>

DispatchCall ==
  /\ task.at = "dispatch" /\ task.i <= task.n /\ Matches(task.i)
  /\ task' = [task EXCEPT !.at = "callback"]
  /\ vm' = [vm EXCEPT !.subs[task.i].calls = @ + 1]
  /\ UNCHANGED <<count, cmd_q, portal, pub_q, broker>>

CallbackEnds ==
  /\ task.at = "callback"
  /\ task' = [task EXCEPT !.at = "dispatch", !.i = @ + 1]
  /\ UNCHANGED <<vm, count, cmd_q, portal, pub_q, broker>>

CallbackFails_Bug ==  \* the error is raised out
  /\ task.at = "callback"
  /\ task' = [task EXCEPT !.at = "dispatch", !.i = task.n + 1]
  /\ UNCHANGED <<vm, count, cmd_q, portal, pub_q, broker>>
CallbackFails == CallbackEnds

DispatchEnds ==
  /\ task.at = "dispatch" /\ task.i > task.n
  /\ task' = Idle
  /\ UNCHANGED <<vm, count, cmd_q, portal, pub_q, broker>>

\* The berry task is about to use a command whose caller has gone, and the
\* stack there has been written over: the device resets.
DeadCommand ==
  \/ task.at = "idle" /\ cmd_q # <<>> /\ Head(cmd_q) \in Kind /\ ~Alive(Head(cmd_q))
  \/ task.at = "script" /\ task.kind \in Kind /\ ~Alive(task.kind)

Panic ==
  /\ DeadCommand
  /\ vm' = [up |-> FALSE, subs |-> <<>>] /\ count' = 0
  /\ cmd_q' = <<>> /\ pub_q' = <<>>
  /\ frames' = [k \in Kind |-> NoCommand]
  /\ caller' = Silent
  /\ task' = [Idle EXCEPT !.at = "start", !.kind = "boot"]
  /\ broker' = 0 /\ given_up' = 0

-----------------------------------------------------------------------------
(* The broker task, and the other tasks that publish locally *)

\* A client's PUBLISH is routed; its topic goes to the berry task too.
ClientPublish(t) ==
  /\ broker = 0
  /\ PostEvent(t)
  /\ UNCHANGED <<vm, count, portal, task, pub_q, broker>>

LocalRequest(t) ==
  /\ pub_q' = Post(pub_q, PubQueueSize, t)
  /\ UNCHANGED <<vm, count, cmd_q, portal, task, broker>>

StartDrain ==
  /\ broker = 0
  /\ broker' = DrainMax + 1
  /\ UNCHANGED <<vm, count, cmd_q, portal, task, pub_q>>

DrainOne_Bug ==  \* until the queue is empty
  /\ broker > 1 /\ pub_q # <<>>
  /\ pub_q' = Tail(pub_q)
  /\ PostEvent(Head(pub_q))
  /\ UNCHANGED <<vm, count, portal, task, broker>>
DrainOne ==
  /\ broker > 1 /\ pub_q # <<>>
  /\ pub_q' = Tail(pub_q)
  /\ PostEvent(Head(pub_q))
  /\ broker' = broker - 1
  /\ UNCHANGED <<vm, count, portal, task>>

DrainEnds ==
  /\ broker = 1 \/ (broker > 1 /\ pub_q = <<>>)
  /\ broker' = 0
  /\ UNCHANGED <<vm, count, cmd_q, portal, task, pub_q>>

-----------------------------------------------------------------------------
Wait == Enqueue \/ EnqueueFails \/ Answered \/ GiveUp
Portal == (\E k \in Kind : Submit(k)) \/ Wait
Script == \/ \E f \in Filter : m_subscribe(f) \/ m_unsubscribe(f)
          \/ \E t \in Topic : m_publish(t)
BerryTask ==
  \/ Start \/ Script \/ ScriptEnds
  \/ (\E k \in Kind : TakeCommand(k)) \/ (\E t \in Topic : TakeEvent(t))
  \/ DispatchSkip \/ DispatchCall \/ CallbackEnds \/ CallbackFails \/ DispatchEnds
Drain == DrainOne \/ DrainEnds
BrokerTask == (\E t \in Topic : ClientPublish(t)) \/ StartDrain \/ Drain

Next == Portal \/ BerryTask \/ Panic \/ BrokerTask \/ \E t \in Topic : LocalRequest(t)

Spec == Init /\ [][Next]_vars

\* The waits of the portal have timeouts and nothing in a drain blocks.  Of
\* the scripts nothing is assumed: one may never end.
Fairness == WF_vars(Wait) /\ WF_vars(Drain)
FairSpec == Spec /\ Fairness

-----------------------------------------------------------------------------
(* Properties *)

Listeners == [filter: Filter, calls: 0..SubsMax, late: BOOLEAN]
TypeOK ==
  /\ vm.up \in BOOLEAN /\ vm.subs \in Seq(Listeners) /\ Len(vm.subs) <= SubsMax
  /\ count \in 0..SubsMax
  /\ cmd_q \in Seq(Kind \cup Topic) /\ Len(cmd_q) <= QueueSize
  /\ pub_q \in Seq(Topic) /\ Len(pub_q) <= PubQueueSize
  /\ frames \in [Kind -> [seq: 0..CallMax, done: BOOLEAN, answer: 0..CallMax]]
  /\ caller \in [at: {"idle", "sending", "waiting"}, kind: Kind, seq: 0..CallMax, answer: 0..CallMax]
  /\ task \in [at: {"start", "idle", "script", "dispatch", "callback"},
               kind: Kind \cup {"boot", "none"}, seq: 0..CallMax,
               i: 0..(SubsMax + 1), n: 0..SubsMax, topic: Topic \cup {"none"}, cut: BOOLEAN]
  /\ broker \in 0..(DrainMax + 1)
  /\ given_up \in 0..CallMax

\* The broker task skips the berry task exactly when no script listens: the
\* count it reads on its own is that of the list in the interpreter, over
\* subscribing, unsubscribing, callbacks and restarts.
CountIsOfTheList == vm.up => count = Len(vm.subs)

\* A listener hears an event once, whatever other listeners do in between, and
\* all that match have heard it when the dispatch ends, also after one failed;
\* only an unsubscribe inside a callback may let another listener be passed over.
HeardOnce ==
  /\ \A k \in DOMAIN vm.subs : vm.subs[k].calls <= 1
  /\ task.at = "dispatch" /\ task.i > task.n /\ ~task.cut =>
       \A k \in DOMAIN vm.subs : Matches(k) /\ ~vm.subs[k].late => vm.subs[k].calls = 1

\* The places where the address of a command is held: the queue, the task.
Held(k) == Cardinality({i \in DOMAIN cmd_q : cmd_q[i] = k})
           + (IF task.kind = k THEN 1 ELSE 0)
Owed(k) == IF caller.at = "waiting" /\ caller.kind = k /\ ~frames[k].done THEN 1 ELSE 0

\* A caller that gives up leaves one address behind, and no more come of it:
\* a later command answered in its place leaves its own address, not a second.
\* As long as nobody has given up, no address outlives its caller.
OneLeftPerTimeout == Held("eval") + Held("restart") <= given_up + Owed("eval") + Owed("restart")

\* A caller that gets an answer gets that of its own command, as long as no
\* caller before it has given up.
AnswersOwn == caller.at = "idle" /\ caller.answer # 0 /\ given_up = 0 => caller.answer = caller.seq

\* "On timeout we leak the semaphore rather than risk use-after-free if the
\* task finishes later": the berry task never uses the command of a caller
\* that has gone.
NoDeadCommand == ~DeadCommand

\* The portal gets back from every command, and the broker task from every
\* drain, though a script may run for ever and publish as fast as it can.
PortalReturns == (caller.at # "idle") ~> (caller.at = "idle")
DrainEndsSoon == (broker # 0) ~> (broker = 0)
=============================================================================
