-------------------------------- MODULE MCQueue --------------------------------
(* Small instances of Queue.  The constants a cfg cannot write. *)
EXTENDS Queue

CONSTANTS p1, p2, c1, c2, a, b, c

Producers == {p1, p2}

(* Two producers and one consumer that use both ends and both kinds of pop. *)
OneConsumer ==
  [t \in {p1, p2, c1} |->
     IF t \in Producers THEN PushOps ELSE PopOps \cup TryOps]

(* One producer and one consumer that pops without a timeout. *)
OneBlockingConsumer ==
  [t \in {p1, c1} |-> IF t = p1 THEN {"push_back"} ELSE {"pop_front"}]

(* Two producers feed two consumers; one of them also pops with a timeout.  *)
TwoConsumers ==
  [t \in {p1, p2, c1, c2} |->
     CASE t \in Producers -> {"push_back"}
       [] t = c1 -> {"pop_front"}
       [] t = c2 -> {"pop_front", "try_pop_front"}]

OnlyNotEmpty == {"notEmpty"}
================================================================================
