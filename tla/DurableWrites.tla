----------------------------- MODULE DurableWrites -----------------------------
(***************************************************************************)
(* What the outbox promises to those who enqueue a write, without workers, *)
(* leases, retries or nonces: the bytes of a write are fixed once, before  *)
(* anything is issued; whatever is issued, and so whatever is executed, is *)
(* the bytes of a write, issued any number of times; a write counts as     *)
(* submitted only when its bytes were issued, and a settled write stays.   *)
(***************************************************************************)
CONSTANTS Writes, Unfixed

VARIABLES
  stage,     \* stage[w]: how far w is known to be
  fixed,     \* fixed[w]: the bytes of w, once they are chosen
  issued,    \* the bytes that went out
  executed   \* the bytes that took effect

durableVars == <<stage, fixed, issued, executed>>

DurableInit ==
  /\ stage = [w \in Writes |-> "none"]
  /\ fixed = [w \in Writes |-> Unfixed]
  /\ issued = {} /\ executed = {}

Advance(w, to) ==
  /\ stage' = [stage EXCEPT ![w] = to]
  /\ UNCHANGED <<issued, executed>>

Accept(w) == stage[w] = "none" /\ Advance(w, "queued") /\ UNCHANGED fixed

\* Any bytes that are nobody's yet.
Fix(w) ==
  /\ stage[w] = "queued" /\ Advance(w, "prepared")
  /\ fixed' = [fixed EXCEPT ![w] = fixed'[w]]
  /\ fixed'[w] \notin issued \cup {fixed[v] : v \in Writes}

Submit(w) ==
  /\ stage[w] = "prepared" /\ fixed[w] \in issued
  /\ Advance(w, "submitted") /\ UNCHANGED fixed

Confirm(w) ==
  /\ stage[w] = "submitted" /\ fixed[w] \in issued
  /\ Advance(w, "confirmed") /\ UNCHANGED fixed

Fail(w) ==
  /\ stage[w] \in {"queued", "prepared", "submitted"}
  /\ Advance(w, "failed") /\ UNCHANGED fixed

\* Once more, at any later stage: a late worker, or a repeated call.
Issue(w) ==
  /\ fixed[w] # Unfixed
  /\ issued' = issued \cup {fixed[w]}
  /\ UNCHANGED <<stage, fixed, executed>>

Execute(bytes) ==
  /\ bytes \in issued
  /\ executed' = executed \cup {bytes}
  /\ UNCHANGED <<stage, fixed, issued>>

Undo ==
  /\ executed' \subseteq executed
  /\ UNCHANGED <<stage, fixed, issued>>

DurableNext ==
  \/ \E w \in Writes :
       Accept(w) \/ Fix(w) \/ Submit(w) \/ Confirm(w) \/ Fail(w) \/ Issue(w)
  \/ \E bytes \in issued : Execute(bytes)
  \/ Undo

DurableSpec == DurableInit /\ [][DurableNext]_durableVars
================================================================================
