------------------------------ MODULE Answers ------------------------------
(* What an exact cache promises to the callers of the gateway: the answer   *)
(* of a request is one whole answer that the upstream produced for exactly  *)
(* the same question, in this request or in an earlier one.  A failed, an   *)
(* interrupted or a partial upstream answer is never anybody's answer.      *)

CONSTANTS Requests, Questions, None

VARIABLES
    question,   \* what each request asked, None before it asks
    produced,   \* requests for which the upstream answered to the end
    answer      \* whose upstream answer each request was given, or None

vars == <<question, produced, answer>>

Init ==
    /\ question = [r \in Requests |-> None]
    /\ produced = {}
    /\ answer = [r \in Requests |-> None]

Ask(r) ==
    /\ question[r] = None
    /\ \E q \in Questions : question' = [question EXCEPT ![r] = q]
    /\ UNCHANGED <<produced, answer>>

Produce(r) ==
    /\ question[r] # None
    /\ produced' = produced \cup {r}
    /\ UNCHANGED <<question, answer>>

Give(r) ==
    /\ answer[r] = None
    /\ \E w \in produced :
          /\ question[w] = question[r]
          /\ answer' = [answer EXCEPT ![r] = w]
    /\ UNCHANGED <<question, produced>>

(* A hit is asked and answered in one step, and a streamed answer is whole  *)
(* the moment it is given.                                                  *)
AskAndGive(r) ==
    /\ question[r] = None
    /\ \E w \in produced :
          /\ question' = [question EXCEPT ![r] = question[w]]
          /\ answer' = [answer EXCEPT ![r] = w]
    /\ UNCHANGED produced

ProduceAndGive(r) ==
    /\ question[r] # None /\ answer[r] = None
    /\ produced' = produced \cup {r}
    /\ answer' = [answer EXCEPT ![r] = r]
    /\ UNCHANGED question

Next == \E r \in Requests :
    \/ Ask(r) \/ Produce(r) \/ Give(r)
    \/ AskAndGive(r) \/ ProduceAndGive(r)

Spec == Init /\ [][Next]_vars
=============================================================================
