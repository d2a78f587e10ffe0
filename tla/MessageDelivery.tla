-------------------------- MODULE MessageDelivery --------------------------
(***************************************************************************)
(* What an agent promises about one message, without phases, turns or      *)
(* wakes (runtime-types.ts, Agent and its inbox events): a message is      *)
(* submitted once; while it is pending it may be cancelled, or replaced by *)
(* another; otherwise it is claimed, in a batch that is settled as a whole *)
(* before another batch is claimed; and a claimed message is entered into  *)
(* the session or dropped with its turn, never pending again and never     *)
(* entered twice.                                                          *)
(***************************************************************************)
CONSTANT Msgs

VARIABLE stage

Stages == {"unsent", "pending", "claimed", "entered", "canceled", "dropped"}

At(s) == {m \in Msgs : stage[m] = s}

Move(ms, s) == stage' = [m \in Msgs |-> IF m \in ms THEN s ELSE stage[m]]

Init == stage = [m \in Msgs |-> "unsent"]

Submit(m) == stage[m] = "unsent" /\ Move({m}, "pending")

Discard(ms) == ms \subseteq At("pending") /\ Move(ms, "canceled")

Exchange(m, n) ==
  /\ stage[m] = "pending" /\ stage[n] = "unsent"
  /\ stage' = [stage EXCEPT ![m] = "canceled", ![n] = "pending"]

Claim(ms) == At("claimed") = {} /\ ms \subseteq At("pending") /\ Move(ms, "claimed")

Settle(kept) ==
  /\ kept \subseteq At("claimed")
  /\ stage' = [m \in Msgs |-> IF m \in kept THEN "entered"
                              ELSE IF stage[m] = "claimed" THEN "dropped"
                              ELSE stage[m]]

Next ==
  \/ \E m \in Msgs : Submit(m)
  \/ \E m, n \in Msgs : Exchange(m, n)
  \/ \E ms \in SUBSET Msgs : Discard(ms) \/ Claim(ms) \/ Settle(ms)

Spec == Init /\ [][Next]_stage
=============================================================================
