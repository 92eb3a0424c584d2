------------------------------ MODULE PaidOnce ------------------------------
(***************************************************************************)
(* What several parts of the program promise in the same words: something  *)
(* that cannot be taken back is done at most once per item, and only under *)
(* a claim that was recorded before.                                       *)
(*                                                                         *)
(* An item is a scheduled draft and the effect a flip_submit call          *)
(* (FlipPublish), or a prepared market action and its signature            *)
(* (FodSigning). Crashes are steps that change neither variable: whatever  *)
(* a claim stood for then, it goes on standing.                            *)
(***************************************************************************)
EXTENDS Naturals

CONSTANT Items

VARIABLES
  claim,  \* claim[i]: what is recorded about item i
  effect  \* effect[i]: how often the effect of item i was brought about

once == <<claim, effect>>

Claims == {"free", "claimed", "settled", "doubtful", "rejected"}

\* What an earlier start of the program recorded stays recorded, done or not.
Init ==
  /\ claim \in [Items -> {"free", "claimed", "rejected"}]
  /\ effect \in [Items -> {0, 1}]
  /\ \A i \in Items : claim[i] # "claimed" => effect[i] = 0

Record(i, from, to) ==
  /\ claim[i] = from
  /\ claim' = [claim EXCEPT ![i] = to]
  /\ UNCHANGED effect

Claim(i)  == Record(i, "free", "claimed")
Reject(i) == Record(i, "free", "rejected")
Doubt(i)  == Record(i, "claimed", "doubtful")

\* Success is recorded of what was done only.
Settle(i) == effect[i] = 1 /\ Record(i, "claimed", "settled")

Act(i) ==
  /\ claim[i] = "claimed" /\ effect[i] = 0
  /\ effect' = [effect EXCEPT ![i] = 1]
  /\ UNCHANGED claim

Next == \E i \in Items : Claim(i) \/ Reject(i) \/ Act(i) \/ Settle(i) \/ Doubt(i)

Spec == Init /\ [][Next]_once
=============================================================================
