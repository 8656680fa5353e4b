----------------------------- MODULE MCServices -----------------------------
(***************************************************************************)
(* The services beside the broker: the scheduled publishes, the text that  *)
(* keeps them in NVS, and the Berry runtime.  They meet only in the queue  *)
(* of local publishes, which Berry has, and share no other state: a run    *)
(* takes one of them and lets it run alone.                                *)
(***************************************************************************)
EXTENDS Timers, SequencesExt

CONSTANTS
  BlobSlots, Days, BlobWindowMax, MinuteMax, Length, BlobMax, Char, Forms, Bodies,
  Topic, Filter, Match, QueueSize, PubQueueSize, DrainMax, SubsMax, CallMax

VARIABLES
  part,
  blob_slots, blob_master, blob, blob_lost,
  vm, count, cmd_q, frames, caller, berry_task, pub_q, broker, given_up

blobvars == <<blob_slots, blob_master, blob, blob_lost>>
berryvars == <<vm, count, cmd_q, frames, caller, berry_task, pub_q, broker, given_up>>

Text == INSTANCE TimerBlobProofs WITH NSlots <- BlobSlots, WindowMax <- BlobWindowMax,
          slots <- blob_slots, master <- blob_master, lost <- blob_lost
Runtime == INSTANCE Berry WITH task <- berry_task

\* What the proofs about the runtime assume holds here.
ASSUME RuntimeSizes == Runtime!BerryAssumption

\* And about the text.
ASSUME TextSizes == Text!BlobAssumption

\* And what OncePerLocalDay assumes of the clock.
ASSUME ClockSteps == SmallSteps

\* A slot that repeats, with jitter, on every day and on one, and one that fires once.
MCConfig == {
  [arm |-> TRUE, repeat |-> TRUE, days |-> {0, 1}, minute |-> 1, window |-> 1],
  [arm |-> TRUE, repeat |-> TRUE, days |-> {1}, minute |-> 3, window |-> 1],
  [arm |-> TRUE, repeat |-> FALSE, days |-> {0, 1}, minute |-> 3, window |-> 0]}

MCHash(i, d) == i + d

\* Slots and bodies with plain, quoted and control characters, with and without days,
\* with strings that fit and that do not, a member nobody knows, and an escape.
Form(arm, repeat, minute, days, topic, payload, label) ==
  [arm |-> arm, repeat |-> repeat, retain |-> 0, qos |-> 0, window |-> 0, minute |-> minute,
   days |-> days, topic |-> topic, payload |-> payload, label |-> label]
MCForms == {
  Form(1, 1, 1, {0}, <<"q", "a">>, <<>>, <<>>), Form(1, 1, 0, {}, <<"a">>, <<>>, <<>>),
  Form(1, 1, 0, {0}, <<"$">>, <<>>, <<>>), Form(0, 0, 0, {}, <<>>, <<"q", "c">>, <<"\\">>),
  Form(0, 1, 0, {}, <<"c">>, <<"c", "c">>, <<>>)}
M(k, v) == [key |-> k, value |-> v]
MCBodies ==
  {<<M("arm", 1), M("days", {0}), M("topic", <<"a", "q">>), M("qos", q), M("colour", 1)>> : q \in 1..2}
  \cup {<<M("arm", 1), M("days", {0}), M("topic", t)>> :
          t \in {<<"q">>, <<"a", "a", "a", "q">>, <<"\\", "u", "0", "0", "h", "c", "q">>,
                <<"\\", "a", "q">>}}
  \cup {<<M("label", <<"a", "q">>), M("window", 1), M("retain", 2)>>}
MCChar == {"a", "q", "c", "$", "\\", "u", "0", "h"}
MCLength == [topic |-> 2, payload |-> 2, label |-> 1]

\* A filter that matches and one that does not; a script may use both twice.
MCMatch == {<<"f1", "t">>}

MCInit ==
  /\ part \in {"timers", "text", "berry"}
  /\ Init /\ Text!Init /\ Runtime!Init

MCNext ==
  /\ UNCHANGED part
  /\ \/ part = "timers" /\ Next /\ UNCHANGED <<blobvars, berryvars>>
     \/ part = "text" /\ Text!Next /\ UNCHANGED <<vars, berryvars>>
     \/ part = "berry" /\ Runtime!Next /\ UNCHANGED <<vars, blobvars>>

MCSpec == MCInit /\ [][MCNext]_<<part, vars, blobvars, berryvars>> /\ Runtime!Fairness

-----------------------------------------------------------------------------
(* The properties of the parts; what a part says need not be evaluated while
   another one runs, for its own variables stand still. *)

\* The variables of each part keep their types.
TypesOK == CASE part = "timers" -> TypeOK
             [] part = "text" -> Text!TypeOK
             [] part = "berry" -> Runtime!TypeOK

\* The schedule a boot loads is the one that was saved, and what is armed in it can be
\* published (parse_blob and serialize_blob).
BlobHolds == part = "text" => Text!BlobGivesBack /\ Text!OnlyPublishable

\* The count the broker reads is that of the listeners there are, and each event is
\* heard once by those it matches (dispatch_topic).
ListenersServed == part = "berry" => Runtime!CountIsOfTheList /\ Runtime!HeardOnce

\* A caller gets the answer to its own command, and one that gives up leaves one
\* address behind (submit_cmd).
CommandsAccounted == part = "berry" => Runtime!OneLeftPerTimeout /\ Runtime!AnswersOwn

\* The portal comes back from every command and the broker task from every drain.
TasksReturn == Runtime!PortalReturns /\ Runtime!DrainEndsSoon

\* The berry task never uses the command of a caller that has gone.
NoDeadCommand == Runtime!NoDeadCommand
=============================================================================
