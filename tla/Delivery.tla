------------------------------ MODULE Delivery ------------------------------
(***************************************************************************)
(* What the settlement queue promises its consumers (settlement_queue.py): *)
(* competing consumers and at-least-once delivery.  Every message is given *)
(* out for the first time once, in the order of publication and to one     *)
(* consumer; it stays open until a consumer that has it in hand finishes   *)
(* it, and while it is open it may be given out again; once finished it is *)
(* not given out any more, though a consumer that was slow may still have  *)
(* it in hand.                                                             *)
(***************************************************************************)
EXTENDS Naturals, Sequences

CONSTANTS Messages, Consumers

VARIABLES
  sent,   \* the messages published
  given,  \* how many of them were given out
  open,   \* those given out and not finished
  hands   \* what each consumer has in hand

vars == <<sent, given, open, hands>>

Init ==
  /\ sent = <<>>
  /\ given = 0
  /\ open = {}
  /\ hands = [c \in Consumers |-> {}]

Send(m) == sent' = Append(sent, m) /\ UNCHANGED <<given, open, hands>>

Deliver(c) ==
  /\ hands[c] = {} /\ given < Len(sent)
  /\ given' = given + 1
  /\ open' = open \cup {given + 1}
  /\ hands' = [hands EXCEPT ![c] = {given + 1}]
  /\ UNCHANGED sent

Redeliver(c) ==
  /\ hands[c] = {}
  /\ \E S \in SUBSET open : hands' = [hands EXCEPT ![c] = S]
  /\ UNCHANGED <<sent, given, open>>

Finish(c) ==
  /\ \E e \in hands[c] :
       open' = open \ {e} /\ hands' = [hands EXCEPT ![c] = @ \ {e}]
  /\ UNCHANGED <<sent, given>>

\* The consumer fails, or stops, with some of it or all unfinished.
LetGo(c) ==
  /\ \E S \in SUBSET hands[c] : hands' = [hands EXCEPT ![c] = S]
  /\ UNCHANGED <<sent, given, open>>

Next ==
  \/ \E m \in Messages : Send(m)
  \/ \E c \in Consumers : Deliver(c) \/ Redeliver(c) \/ Finish(c) \/ LetGo(c)

Spec == Init /\ [][Next]_vars
=============================================================================
