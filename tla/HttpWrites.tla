------------------------------ MODULE HttpWrites ------------------------------
(***************************************************************************)
(* The write boundary of the control plane: every write request claims its *)
(* Idempotency-Key in Postgres, runs its handler, stores the response under*)
(* the key and answers; an error gives the key back.  The handlers are in  *)
(* the modules that extend this one.                                       *)
(*                                                                         *)
(* An attempt is one HTTP request.  The request body is the input itself,  *)
(* so rawHash is the input; the fresh claim token and the request id are   *)
(* the attempt.  The five minutes of a claim may end at any moment.        *)
(* Any await may fail, with or without its effect, and the process may die *)
(* there: MaxFaults bounds such misfortunes, MaxLapses the claims that     *)
(* outlive their five minutes.                                             *)
(***************************************************************************)
EXTENDS Naturals, FiniteSets

CONSTANTS
  Attempts,    \* the requests that reach the server
  Inputs,      \* what they ask: records with at least a storage key
  Keys,        \* storage keys: tenant, subject, method, path, Idempotency-Key
  NoInput, NoEntry, NoResult, Problem,
  MaxFaults,   \* bound: awaits that fail or never return
  MaxLapses    \* bound: claims that end before their request does

ASSUME WriteAssumption ==
  /\ \A in \in Inputs : in.key \in Keys
  /\ NoInput \notin Inputs
  /\ MaxFaults \in Nat /\ MaxLapses \in Nat

VARIABLES
  idem,     \* idem[k]: the row of idempotency_keys
  pc,       \* pc[a]: the await attempt a is at
  input,    \* input[a]: its request
  result,   \* result[a]: what its handler returned
  answer,   \* answer[a]: the response that was sent
  faults,   \* misfortunes so far
  lapses    \* claims that ended so far

writeVars == <<idem, pc, input, result, answer, faults, lapses>>

WritesInit ==
  /\ idem = [k \in Keys |-> NoEntry]
  /\ pc = [a \in Attempts |-> "new"]
  /\ input = [a \in Attempts |-> NoInput]
  /\ result = [a \in Attempts |-> NoResult]
  /\ answer = [a \in Attempts |-> NoResult]
  /\ faults = 0 /\ lapses = 0

Claimed(a, in) == [hash |-> in, token |-> a, expired |-> FALSE, response |-> NoResult]

\* Mutant: a claim that is still held is taken over.
ClaimOutcomeTakesOver(e, in) ==
  IF e # NoEntry /\ e.hash = in /\ e.response # NoResult THEN "replay" ELSE "claimed"

ClaimOutcome(e, in) ==
  CASE e = NoEntry               -> "claimed"
    [] e # NoEntry /\ e.hash # in -> "conflict"
    [] OTHER -> IF e.response # NoResult THEN "replay"
                ELSE IF e.expired THEN "claimed" ELSE "in-progress"

\* A request arrives and claims its key; first is where its handler begins.
Receive(a, in, first) ==
  LET outcome == ClaimOutcome(idem[in.key], in) IN
  /\ pc[a] = "new"
  /\ input' = [input EXCEPT ![a] = in]
  /\ IF outcome = "claimed"
       THEN /\ idem' = [idem EXCEPT ![in.key] = Claimed(a, in)]
            /\ pc' = [pc EXCEPT ![a] = first]
            /\ UNCHANGED answer
       ELSE /\ pc' = [pc EXCEPT ![a] = "done"]
            /\ answer' = [answer EXCEPT ![a] =
                 IF outcome = "replay" THEN idem[in.key].response ELSE Problem]
            /\ UNCHANGED idem
  /\ UNCHANGED <<result, faults, lapses>>

LeaseEnds(k) ==
  /\ idem[k] # NoEntry /\ ~ idem[k].expired /\ idem[k].response = NoResult
  /\ lapses < MaxLapses
  /\ idem' = [idem EXCEPT ![k].expired = TRUE]
  /\ lapses' = lapses + 1
  /\ UNCHANGED <<pc, input, result, answer, faults>>

Holds(a) == LET e == idem[input[a].key] IN e # NoEntry /\ e.token = a /\ e.response = NoResult

\* A statement of attempt a took effect: its call returns, or is reported as
\* failed all the same.
Goes(a, next, onError) ==
  \/ pc' = [pc EXCEPT ![a] = next] /\ UNCHANGED faults
  \/ /\ faults < MaxFaults /\ faults' = faults + 1
     /\ pc' = [pc EXCEPT ![a] = onError]

\* Mutant: the token is not compared.
CompleteUnchecked(a) ==
  /\ pc[a] = "complete"
  /\ idem' = [idem EXCEPT ![input[a].key] =
       [Claimed(a, input[a]) EXCEPT !.response = result[a]]]
  /\ Goes(a, "answer", "abandon")
  /\ UNCHANGED <<input, result, answer, lapses>>

Complete(a) ==
  /\ pc[a] = "complete"
  /\ IF Holds(a)
       THEN /\ idem' = [idem EXCEPT ![input[a].key].response = result[a]]
            /\ Goes(a, "answer", "abandon")
       ELSE /\ pc' = [pc EXCEPT ![a] = "abandon"]
            /\ UNCHANGED <<idem, faults>>
  /\ UNCHANGED <<input, result, answer, lapses>>

\* Only then is the response sent.
Answer(a) ==
  /\ pc[a] = "answer"
  /\ answer' = [answer EXCEPT ![a] = result[a]]
  /\ pc' = [pc EXCEPT ![a] = "done"]
  /\ UNCHANGED <<idem, input, result, faults, lapses>>

Abandon(a) ==
  /\ pc[a] = "abandon"
  /\ idem' = IF Holds(a) THEN [idem EXCEPT ![input[a].key] = NoEntry] ELSE idem
  /\ pc' = [pc EXCEPT ![a] = "done"]
  /\ answer' = [answer EXCEPT ![a] = Problem]
  /\ UNCHANGED <<input, result, faults, lapses>>

AbandonFails(a) ==
  /\ pc[a] = "abandon"
  /\ faults < MaxFaults /\ faults' = faults + 1
  /\ pc' = [pc EXCEPT ![a] = "done"]
  /\ answer' = [answer EXCEPT ![a] = Problem]
  /\ UNCHANGED <<idem, input, result, lapses>>

\* A call fails without effect; next is where the error leads.
Fails(a, next) ==
  /\ pc[a] \notin {"new", "answer", "abandon", "done"}
  /\ faults < MaxFaults /\ faults' = faults + 1
  /\ pc' = [pc EXCEPT ![a] = next]
  /\ UNCHANGED <<idem, input, result, answer, lapses>>

\* The process dies: no answer, and nothing is undone.
Dies(a) ==
  /\ pc[a] \notin {"new", "done"}
  /\ faults < MaxFaults /\ faults' = faults + 1
  /\ pc' = [pc EXCEPT ![a] = "done"]
  /\ UNCHANGED <<idem, input, result, answer, lapses>>

-----------------------------------------------------------------------------
Succeeded(a) == answer[a] \notin {NoResult, Problem}

\* Whatever was retried, raced or cut short, the clients of one key are told one
\* thing: every success answered under a key is the same response, request id
\* included (http.ts 349-365).
AnswersAgree ==
  \A a, b \in Attempts :
    (Succeeded(a) /\ Succeeded(b) /\ input[a].key = input[b].key) => answer[a] = answer[b]
================================================================================
