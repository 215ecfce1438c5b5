----------------------------- MODULE PubSubDemo -----------------------------
(***************************************************************************)
(* examples/pub_sub_demo.cpp: one thread that subscribes and publishes     *)
(* through StateManagers, over RedisChannel and, for the callbacks, over   *)
(* the pool of TaskService.  The callbacks work on local variables of the  *)
(* demonstration that subscribed, and call the logger of its StateManager: *)
(* both are gone when the demonstration returns.                           *)
(*                                                                         *)
(* A callback is named <<d, i>>: subscribed by the i-th statement of       *)
(* demonstration d.  Only this program publishes on its channels.  The     *)
(* constructors' reconnections, the short sleeps between two messages and  *)
(* the printing are left out; a message parses as what it is read as.      *)
(***************************************************************************)
EXTENDS RedisChannel

CONSTANTS
  Main,         (* the main thread                                         *)
  UserEvents, Broadcast, StateChanges,   (* channels                       *)
  Shop,         (* the three channels of the second demonstration          *)
  Workflow,     (* the channels of the messages it publishes               *)
  Events,       (* messages of the first                                   *)
  Subscribers, Broadcasts,               (* subscribers, messages of the third *)
  Operations    (* operations on the data in the fourth                    *)

ASSUME PubSubDemoAssumption ==
  /\ Callers = {Main}
  /\ {UserEvents, Broadcast, StateChanges} \subseteq Channels
  /\ Shop \in Seq(Channels) /\ Workflow \in Seq(Channels)
  /\ Broadcast \notin {UserEvents, StateChanges}
  /\ \A i \in DOMAIN Shop : Shop[i] # Broadcast
  /\ \A i \in DOMAIN Workflow : \E j \in DOMAIN Shop : Shop[j] = Workflow[i]
  /\ {Events, Subscribers, Broadcasts, Operations} \subseteq Nat /\ Subscribers > 0
  /\ Events + Len(Workflow) + Broadcasts + Operations <= MaxMessages

VARIABLES
  frame,        (* number of the demonstration main is in                  *)
  left,         (* its statements still ahead                              *)
  first,        (* messages published before it                            *)
  owner,        (* the callback in each entry of callbacks_                *)
  callee,       (* history: the callback each message was handed to        *)
  hurried,      (* history: a wait ended before what it was there for      *)
  pending, executing, done, open         (* the pool                       *)

Pool == INSTANCE TaskService WITH Tasks <- 1 .. MaxMessages

pool    == <<pending, executing, done, open>>
program == <<frame, left, first, hurried>>
demoVars == <<vars, program, owner, callee, pool>>

-----------------------------------------------------------------------------
(* The demonstrations, as sequences of statements. *)

On(c)     == [do |-> "subscribe", channel |-> c]
Off(c)    == [do |-> "unsubscribe", channel |-> c]
Send(c)   == [do |-> "publish", channel |-> c]
Notify(c) == [do |-> "notify", channel |-> c]
Wait      == [do |-> "wait", channel |-> Every]

Repeat(n, s) == [i \in 1 .. n |-> s]
Each(cs, s(_)) == [i \in DOMAIN cs |-> s(cs[i])]

(* Each demonstration waits twice: for the server to know of its           *)
(* subscriptions, and for the callbacks of its messages.                   *)

(* Mutation: nobody waits for the last messages. *)
BasicUnwaited ==
  <<On(UserEvents), Wait>> \o Repeat(Events, Send(UserEvents))
    \o <<Off(UserEvents)>>
(* Mutation: nobody waits for the subscription. *)
BasicHasty ==
  <<On(UserEvents)>> \o Repeat(Events, Send(UserEvents))
    \o <<Wait, Off(UserEvents)>>
BasicPubSub ==
  <<On(UserEvents)>> \o (<<Wait>> \o Repeat(Events, Send(UserEvents)))
    \o <<Wait>> \o <<Off(UserEvents)>>

(* Mutation: the last channel is not unsubscribed from. *)
MultipleForgets ==
  Each(Shop, On) \o (<<Wait>> \o Each(Workflow, Send))
    \o <<Wait>> \o Each(Tail(Shop), Off)
MultipleChannels ==
  Each(Shop, On) \o (<<Wait>> \o Each(Workflow, Send))
    \o <<Wait>> \o Each(Shop, Off)

MultipleSubscribers ==
  Repeat(Subscribers, On(Broadcast))
    \o (<<Wait>> \o Repeat(Broadcasts, Send(Broadcast)))
    \o <<Wait>> \o Repeat(Subscribers, Off(Broadcast))

(* An operation that succeeds is notified. *)
StateChangeNotifications ==
  <<On(StateChanges)>> \o (<<Wait>> \o Repeat(Operations, Notify(StateChanges)))
    \o <<Wait>> \o <<Off(StateChanges)>>

Demonstrations ==
  <<BasicPubSub, MultipleChannels, MultipleSubscribers,
    StateChangeNotifications>>
Finished == frame > Len(Demonstrations)

DemoInit ==
  /\ Init /\ Pool!Init
  /\ frame = 1 /\ left = Demonstrations[1] /\ first = 0 /\ hurried = FALSE
  /\ owner = [c \in Channels |-> <<>>]
  /\ callee = [n \in 1 .. MaxMessages |-> <<>>]

-----------------------------------------------------------------------------
(* main *)

(* What a wait is there for, if it is long enough: the server has all      *)
(* (un)subscriptions, and no message nor callback is under way.            *)
Established == sent = requested /\ subscribed = requested
Drained ==
  /\ socket = <<>> /\ pc[Consumer] # "deliver"
  /\ pending = <<>> /\ executing = {}

Calls(s) ==
  \/ s.do = "subscribe" /\ Subscribe(Main, s.channel)
  \/ s.do \in {"publish", "notify"} /\ Publish(Main, s.channel)
  \/ s.do = "unsubscribe" /\ Unsubscribe(Main, s.channel)

Statement ==
  /\ left # <<>> /\ left' = Tail(left)
  /\ \/ Calls(Head(left)) /\ UNCHANGED hurried
     \/ /\ Head(left).do = "notify" /\ pc[Main] = "idle"   (* it failed *)
        /\ UNCHANGED <<vars, hurried>>
     \/ /\ Head(left).do = "wait" /\ pc[Main] = "idle"
        /\ hurried' = (hurried \/ ~(Established /\ Drained))
        /\ UNCHANGED vars
  /\ UNCHANGED <<frame, first, owner, callee, pool>>

(* The demonstration's variables go, and its StateManagers.                *)
Return ==
  /\ ~Finished /\ left = <<>> /\ pc[Main] = "idle"
  /\ frame' = frame + 1 /\ first' = published
  /\ left' = IF frame < Len(Demonstrations)
             THEN Demonstrations[frame + 1] ELSE <<>>
  /\ UNCHANGED <<vars, hurried, owner, callee, pool>>

(* The end of main, and then of the one RedisChannel.                      *)
Exit ==
  /\ Finished /\ Destroy(Main)
  /\ UNCHANGED <<program, owner, callee, pool>>

(* callbacks_[channel] = callback, where the callback is StateManager's. *)
Registers ==
  owner' = IF pc[Main] = "insert"
           THEN [owner EXCEPT ![arg[Main]] =
                   <<frame, Len(Demonstrations[frame]) - Len(left)>>]
           ELSE owner

(* Nothing catches what StateManager::unsubscribe throws before main does.  *)
Unwinds ==
  IF pc[Main] = "remove" /\ pc'[Main] = "idle"
  THEN frame' = Len(Demonstrations) + 1 /\ left' = <<>> /\ first' = published
  ELSE UNCHANGED <<frame, left, first>>

Inner ==
  /\ CallerStep(Main) /\ Registers /\ Unwinds
  /\ UNCHANGED <<hurried, callee, pool>>

MainStep == Statement \/ Return \/ Exit \/ Inner

-----------------------------------------------------------------------------
(* The consumer: a message that finds an entry becomes a task.             *)
Consumes ==
  /\ LockClient(Consumer) \/ ConsumerStep
  /\ IF handed' = handed THEN UNCHANGED <<callee, pool>>
     ELSE /\ Pool!Submit(Head(socket)[2])
          /\ callee' = [callee EXCEPT ![Head(socket)[2]] =
                          owner[Head(socket)[1]]]
  /\ UNCHANGED <<program, owner>>

(* Workers run callbacks to their end. *)
Works ==
  /\ Pool!Begin \/ \E n \in executing : Pool!End(n)
  /\ UNCHANGED <<vars, program, owner, callee>>

(* The pool goes with the channel, after the join of its destructor.       *)
Closes ==
  /\ pc[Main] = "gone" /\ Pool!Close
  /\ UNCHANGED <<vars, program, owner, callee>>

Crashes == Breaks /\ UNCHANGED <<program, owner, callee, pool>>
Serves  == ServerStep /\ UNCHANGED <<program, owner, callee, pool>>

DemoNext ==
  MainStep \/ Consumes \/ Works \/ Closes \/ Serves \/ Crashes

DemoFairness ==
  /\ WF_demoVars(MainStep) /\ WF_demoVars(Consumes) /\ WF_demoVars(Works)
  /\ WF_demoVars(Closes) /\ WF_demoVars(NullSubscriber /\ Crashes)
DemoSpec == DemoInit /\ [][DemoNext]_demoVars /\ DemoFairness

=============================================================================
