------------------------- MODULE PubSubDemoProperties -------------------------
(***************************************************************************)
(* What is true of the callbacks of the demonstrations, and of the results *)
(* these print.                                                            *)
(***************************************************************************)
EXTENDS PubSubDemo, RedisChannelProperties

Received(d) == {n \in executing \cup done : callee[n] # <<>> /\ callee[n][1] = d}
Patient == ~hurried /\ failures = 0 /\ ~Broken

-----------------------------------------------------------------------------
(* A callback captures its StateManager by a raw pointer and the rest by   *)
(* reference, and must not outlive them.  No entry of callbacks_ does,     *)
(* whatever subscriptions fail in between, unless an unsubscribe throws:    *)
(* then the entry stays while the exception takes the demonstration's frame *)
(* away.  A task that was handed to the pool is beyond the reach of        *)
(* unsubscribe; if main waits long enough before it unsubscribes, none is  *)
(* left when its demonstration returns.                                    *)
CallbacksAreLive ==
  /\ ~Finished => \A c \in callbacks : owner[c][1] = frame
  /\ Patient =>
       \A n \in executing \cup {pending[i] : i \in DOMAIN pending} :
         callee[n][1] = frame

(* With patience in both waits, the messages a demonstration received are  *)
(* those it published: all of them, although the server may know of a      *)
(* subscription, or forget one of the demonstration before, at any time    *)
(* until the first wait ends; and no other.                                *)
ResultsAddUp ==
  Patient /\ ~Finished /\ left = <<>> /\ pc[Main] = "idle" =>
    Received(frame) = first + 1 .. published

(* And there is neither a race nor a mutual wait: those of RedisChannel all *)
(* need a message under way while main (un)subscribes.                     *)
PatienceIsSafe == Patient => ~UndefinedBehaviour /\ ~MutualWait

-----------------------------------------------------------------------------
(* The program ends, the destructors of the channel and of the pool        *)
(* included, unless two threads wait for one another, or a subscription    *)
(* joins a consumer that was told to stop and did not look in time.        *)
DemoEnds ==
  <>(~open \/ Broken \/ MutualWait \/ EndlessJoin)

-----------------------------------------------------------------------------
(* What the documents say and the code does not do *)

(* README.md, multiple callbacks can be registered per channel, and the     *)
(* total the third demonstration expects: with all the patience asked for, *)
(* each of its subscribers receives what it published.                     *)
EachSubscriberHears ==
  Patient /\ frame = 3 /\ left = <<>> /\ pc[Main] = "idle" =>
    \A i \in 1 .. Subscribers : \E n \in Received(3) : callee[n][2] = i

=============================================================================
